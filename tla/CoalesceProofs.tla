--------------------------- MODULE CoalesceProofs ---------------------------
(***************************************************************************)
(* What holds of a shard for every number of requests, slots, generations, *)
(* waiter nodes and ring cells: first its types, the owners of its slots   *)
(* and the arena of waiter nodes; then what the application sees, that     *)
(* rows are the requester's own, that no request is lost or answered       *)
(* twice, and together, that the shard implements FeatureStore.            *)
(***************************************************************************)
EXTENDS Coalesce, CursorTheorems, FiniteSetTheorems

\* Which slot each thread has at hand.
Hands ==
  /\ Issued # None <=> ipc \in {"submit", "deliver"}
  /\ ipc \in {"submit", "deliver"} => pend[Issued].tag \in Pages
  /\ dpc["issuer"] # None => ipc = "deliver"
  /\ dpc["reaper"] # None => rpc = "deliver"
  /\ rpc = "deliver" => cur["reaper"] \in rlist
  /\ rpc = "lap" => rlist = {}
  /\ rpc # "lap" => conf.split \/ ipc = "reap"

TypeInv == TypeOK /\ Hands

\* The waiter nodes of some slots are finitely many.
LEMMA NodesFinite ==
  ASSUME NEW S \in SUBSET Slots
  PROVE  IsFiniteSet(NodesOf(S)) /\ Cardinality(NodesOf(S)) \in Nat
<1>1. IsFiniteSet(S)
  BY CoalesceAssumption, FS_Subset
<1>2. IsFiniteSet(S \X Reqs)
  BY <1>1, CoalesceAssumption, FS_Product
<1>3. NodesOf(S) \in SUBSET (S \X Reqs)
  BY DEF NodesOf
<1>4. QED
  BY <1>2, <1>3, FS_Subset, FS_CardinalityType

\* So are the requests of a run.
LEMMA RunFinite ==
  ASSUME NEW R \in SUBSET Reqs
  PROVE  IsFiniteSet(R) /\ Cardinality(R) \in Nat
BY CoalesceAssumption, FS_Subset, FS_CardinalityType

\* A cursor stays within its width.
LEMMA WrapType ==
  ASSUME NEW x \in Int
  PROVE  Wrap(x) \in 0 .. Modulus - 1
BY CoalesceAssumption DEF Wrap

\* What a slot's record holds, and the records one update away from it.
LEMMA PendType ==
  ASSUME SlotType, NEW s \in Slots
  PROVE  /\ pend[s] \in Pend
         /\ pend[s].waiters \subseteq Reqs
         /\ pend[s].tag \in Pages \cup {NoPage}
         /\ \A st \in {"FREE", "ISSUED", "DONE", "ERROR"} :
              [pend[s] EXCEPT !.state = st] \in Pend
         /\ [pend[s] EXCEPT !.state = "FREE", !.tag = NoPage, !.waiters = {}] \in Pend
         /\ pend[s].gen \in 0 .. Gens - 1
         /\ NextGen(s) \in 0 .. Gens - 1
<1>1. pend[s] \in Pend
  BY DEF SlotType
<1>2. pend[s].gen \in 0 .. Gens - 1
  BY <1>1 DEF Pend
<1>3. NextGen(s) \in 0 .. Gens - 1
  BY <1>2, CoalesceAssumption DEF NextGen
<1>4. [pend[s] EXCEPT !.state = "FREE", !.tag = NoPage, !.waiters = {}] \in Pend
  BY <1>1 DEF Pend
<1>5. QED
  BY <1>1, <1>2, <1>3, <1>4 DEF Pend

\* Giving slots back keeps the types.
LEMMA FreeSlotsType ==
  ASSUME SlotType, NEW S \in SUBSET Slots, FreeSlots(S)
  PROVE  SlotType'
<1>1. wfree_n' \in Nat
  <2>1. wfree_n \in Nat
    BY DEF SlotType
  <2>2. wfree_n' = wfree_n + Cardinality(NodesOf(S))
    BY DEF FreeSlots
  <2>3. QED
    BY <2>1, <2>2, NodesFinite
<1>2. pend' \in [Slots -> Pend]
  BY PendType DEF FreeSlots
<1>3. QED
  BY <1>1, <1>2 DEF FreeSlots, SlotType

\* Starting on the waiters of a slot, and being done with them.
LEMMA DeliveryType ==
  ASSUME SlotType, DeliverType, NEW t \in Threads, UNCHANGED <<cqe, h>>
  PROVE  /\ \A s \in Slots, good \in BOOLEAN : StartDelivery(t, s, good) => DeliverType'
         /\ EndDelivery(t) /\ UNCHANGED left => DeliverType'
<1>1. ASSUME NEW s \in Slots, NEW good \in BOOLEAN, StartDelivery(t, s, good)
      PROVE  DeliverType'
  BY <1>1, PendType DEF DeliverType, StartDelivery
<1>2. ASSUME EndDelivery(t), UNCHANGED left
      PROVE  DeliverType'
  BY <1>2 DEF DeliverType, EndDelivery
<1>3. QED
  BY <1>1, <1>2

LEMMA TypeInit == Init => TypeInv
<1> SUFFICES ASSUME Init PROVE TypeInv
  OBVIOUS
<1>1. [state |-> "FREE", gen |-> 0, tag |-> NoPage, waiters |-> {}] \in Pend
  BY CoalesceAssumption DEF Pend
<1>2. 0 \in 0 .. Modulus - 1
  BY CoalesceAssumption
<1>3. ClientType
  BY DEF Init, ClientType
<1>4. WindowType /\ BackendType
  <2>1. 0 \in 0 .. Window
    BY CoalesceAssumption
  <2>2. QED
    BY <2>1 DEF Init, WindowType, BackendType
<1>5. ReaperType
  BY DEF Init, ReaperType
<1>6. SlotType
  BY <1>1, CoalesceAssumption DEF Init, SlotType
<1>7. DeliverType
  BY <1>2 DEF Init, DeliverType
<1>8. CqType
  BY <1>2 DEF Init, CqType
<1>9. Hands
  BY DEF Init, Hands, Issued, Threads
<1>10. QED
  BY <1>3, <1>4, <1>5, <1>6, <1>7, <1>8, <1>9 DEF TypeInv, TypeOK

\* What one step of each action preserves, action by action.
LEMMA TypeClient ==
  ASSUME TypeInv, (\E r \in Reqs : Push(r)) \/ Collect
  PROVE  TypeInv'
<1> USE DEF TypeInv, TypeOK
<1>1. ASSUME NEW r \in Reqs, Push(r) PROVE TypeInv'
  <2>1. ClientType'
    BY <1>1 DEF Push, ClientType
  <2>2. QED
    BY <1>1, <2>1 DEF Push, Hands, Issued, windowVars, bucketVars, creditVars, slotVars, backendVars, reaperVars, deliverVars, cqVars, ClientType, WindowType, BackendType, ReaperType, SlotType, DeliverType, CqType
<1>2. CASE Collect
  <2>1. ClientType'
    BY <1>2 DEF Collect, ClientType
  <2>2. cq_tail \in Int
    BY DEF CqType
  <2>3. Wrap(cq_tail + 1) \in 0 .. Modulus - 1
    BY <2>2, WrapType
  <2>4. CqType'
    BY <1>2, <2>3 DEF Collect, CqType
  <2>5. QED
    BY <1>2, <2>1, <2>4 DEF Collect, Hands, Issued, windowVars, bucketVars, creditVars, slotVars, backendVars, reaperVars, deliverVars, cqVars, ClientType, WindowType, BackendType, ReaperType, SlotType, DeliverType, CqType
<1>3. QED
  BY <1>1, <1>2

LEMMA TypeFill ==
  ASSUME TypeInv, DrainReturns \/ PopReq \/ FillOver \/ Seal \/ KeepFilling
  PROVE  TypeInv'
<1> USE DEF TypeInv, TypeOK
<1>1. CASE DrainReturns
  <2>1. SlotType'
    BY <1>1, FreeSlotsType DEF DrainReturns, ReaperType
  <2>2. QED
    BY <1>1, <2>1 DEF DrainReturns, Hands, Issued, windowVars, bucketVars, creditVars, slotVars, backendVars, reaperVars, deliverVars, cqVars, ClientType, WindowType, BackendType, ReaperType, SlotType, DeliverType, CqType
<1>2. CASE PopReq
  <2>1. Head(rq) \in Reqs /\ Tail(rq) \in Seq(Reqs)
    BY <1>2 DEF PopReq, ClientType
  <2>2. ClientType' /\ WindowType'
    BY <1>2, <2>1 DEF PopReq, ClientType, WindowType, bucketVars
  <2>3. QED
    BY <1>2, <2>2 DEF PopReq, Hands, Issued, windowVars, bucketVars, creditVars, slotVars, backendVars, reaperVars, deliverVars, cqVars, ClientType, WindowType, BackendType, ReaperType, SlotType, DeliverType, CqType
<1>3. CASE FillOver
  BY <1>3 DEF FillOver, Hands, Issued, windowVars, bucketVars, creditVars, slotVars, backendVars, reaperVars, deliverVars, cqVars, ClientType, WindowType, BackendType, ReaperType, SlotType, DeliverType, CqType
<1>4. CASE Seal
  BY <1>4 DEF Seal, Hands, Issued, windowVars, bucketVars, creditVars, slotVars, backendVars, reaperVars, deliverVars, cqVars, ClientType, WindowType, BackendType, ReaperType, SlotType, DeliverType, CqType
<1>5. CASE KeepFilling
  BY <1>5 DEF KeepFilling, IssuerLapOver, Hands, Issued, windowVars, bucketVars, creditVars, slotVars, backendVars, reaperVars, deliverVars, cqVars, ClientType, WindowType, BackendType, ReaperType, SlotType, DeliverType, CqType
<1>6. QED
  BY <1>1, <1>2, <1>3, <1>4, <1>5

LEMMA TypeBin ==
  ASSUME TypeInv, Bin \/ EvictFull \/ BinOver \/ EvictFullest \/ KeepBinned
  PROVE  TypeInv'
<1> USE DEF TypeInv, TypeOK
<1>1. ASSUME rq # <<>> PROVE Head(rq) \in Reqs /\ Tail(rq) \in Seq(Reqs)
  BY <1>1 DEF ClientType
<1>2. /\ InBucket(Fullest) \subseteq Reqs /\ InBucket(BucketOfHead) \subseteq Reqs
      /\ 0 \in 0 .. Window
  BY CoalesceAssumption DEF InBucket, WindowType
<1>3. ClientType' /\ WindowType'
  <2>1. CASE Bin
    <3>1. binned + 1 \in 0 .. Window
      BY <2>1, CoalesceAssumption DEF Bin, Binning, WindowType
    <3>2. QED
      BY <1>1, <2>1, <3>1 DEF Bin, Binning, ClientType, WindowType
  <2>2. CASE EvictFull
    BY <1>1, <1>2, <2>2 DEF EvictFull, Binning, Evict, ClientType, WindowType
  <2>3. CASE BinOver \/ EvictFullest
    BY <1>2, <2>3 DEF BinOver, EvictFullest, Evict, ClientType, WindowType
  <2>4. CASE KeepBinned
    BY <2>4 DEF KeepBinned, IssuerLapOver, ClientType, WindowType, windowVars, bucketVars
  <2>5. QED
    BY <2>1, <2>2, <2>3, <2>4
<1>4. /\ UNCHANGED <<conf, creditVars, slotVars, backendVars, done_list, pend_return>>
      /\ UNCHANGED <<reaperVars, deliverVars, cqVars>>
      /\ ipc \in {"bin", "evict"} /\ ipc' \in {"bin", "evict", "issue", "lap", "reap"}
  BY DEF Bin, Binning, EvictFull, Evict, BinOver, EvictFullest, KeepBinned, IssuerLapOver
<1>5. Hands'
  BY <1>4 DEF Hands, Issued, creditVars, slotVars, reaperVars, deliverVars
<1>6. QED
  BY <1>3, <1>4, <1>5
  DEF creditVars, slotVars, backendVars, reaperVars, deliverVars, cqVars, BackendType, ReaperType, SlotType, DeliverType, CqType

LEMMA TypeIssue ==
  ASSUME TypeInv, Issue
  PROVE  TypeInv'
<1> USE DEF TypeInv, TypeOK
<1>1. PICK R \in NextRuns, s \in pend_free :
        /\ Credits(R)
        /\ pend_free' = pend_free \ {s}
        /\ wfree_n' = wfree_n - Cardinality(R)
        /\ pend' = [pend EXCEPT ![s] = [state |-> "ISSUED", gen |-> NextGen(s),
                                        tag |-> PageOf[CHOOSE r \in R : TRUE],
                                        waiters |-> R]]
        /\ cur' = [cur EXCEPT !["issuer"] = s]
  BY DEF Issue
<1>2. R \subseteq Reqs /\ R # {} /\ s \in Slots
  BY DEF NextRuns, WindowType, SlotType
<1>3. PageOf[CHOOSE r \in R : TRUE] \in Pages
  BY <1>2, CoalesceAssumption
<1>4. [state |-> "ISSUED", gen |-> NextGen(s), tag |-> PageOf[CHOOSE r \in R : TRUE],
       waiters |-> R] \in Pend
  BY <1>2, <1>3, PendType DEF Pend
<1>5. wfree_n' \in Nat
  <2>1. wfree_n \in Nat /\ wfree_n >= Cardinality(R)
    BY <1>1 DEF Credits, SlotType
  <2>2. QED
    BY <1>1, <1>2, <2>1, RunFinite
<1>6. SlotType'
  BY <1>1, <1>4, <1>5 DEF Issue, SlotType
<1>7. DeliverType'
  BY <1>1, <1>2 DEF Issue, DeliverType
<1>8. ClientType' /\ WindowType' /\ BackendType' /\ ReaperType' /\ CqType'
  BY DEF Issue, windowVars, bucketVars, creditVars, slotVars, backendVars, reaperVars, deliverVars, cqVars, ClientType, WindowType, BackendType, ReaperType, CqType
<1>9. cur'["issuer"] # None
  BY <1>1, <1>2, CoalesceAssumption DEF DeliverType, Threads
<1>10. cur'["reaper"] = cur["reaper"]
  BY <1>1 DEF DeliverType, Threads
<1>11. Hands'
  BY <1>1, <1>2, <1>3, <1>9, <1>10 DEF Issue, Hands, Issued, SlotType, reaperVars
<1>12. QED
  BY <1>6, <1>7, <1>8, <1>11

LEMMA TypeSubmit ==
  ASSUME TypeInv, Defer \/ Accept \/ Again \/ Refuse \/ FillSync \/ InlineDone \/ WindowDone
  PROVE  TypeInv'
<1> USE DEF TypeInv, TypeOK
<1>h. ASSUME ipc \in {"submit", "deliver"} PROVE Issued \in Slots
  BY <1>h DEF Hands, Issued, DeliverType, Threads
<1>1. CASE Defer
  BY <1>1 DEF Defer, IssuerLapOver, Hands, Issued, windowVars, bucketVars, creditVars, slotVars, backendVars, reaperVars, deliverVars, cqVars, ClientType, WindowType, BackendType, ReaperType, SlotType, DeliverType, CqType
<1>2. CASE Accept
  <2>1. Issued \in Slots
    BY <1>2, <1>h DEF Accept
  <2>2. pend[Issued].tag \in Pages
    BY <1>2 DEF Accept, Hands
  <2>3. IssuedRead \in Read
    BY <2>1, <2>2, PendType DEF IssuedRead, Read
  <2>4. BackendType' /\ WindowType' /\ DeliverType'
    BY <1>2, <2>3 DEF Accept, BackendType, WindowType, DeliverType, bucketVars
  <2>5. SlotType'
    BY <1>2, <2>1, <2>2 DEF Accept, SlotType, creditVars
  <2>6. Hands'
    BY <1>2 DEF Accept, Hands, Issued, DeliverType, Threads, reaperVars
  <2>7. QED
    BY <1>2, <2>4, <2>5, <2>6 DEF Accept, windowVars, bucketVars, creditVars, slotVars, backendVars, reaperVars, deliverVars, cqVars, ClientType, ReaperType, CqType
<1>3. CASE Again
  <2>1. Issued \in Slots
    BY <1>3, <1>h DEF Again
  <2>2. SlotType'
    BY <1>3, <2>1, FreeSlotsType DEF Again
  <2>3. WindowType' /\ DeliverType'
    BY <1>3 DEF Again, IssuerLapOver, windowVars, bucketVars, WindowType, DeliverType
  <2>4. Hands'
    BY <1>3 DEF Again, IssuerLapOver, Hands, Issued, DeliverType, Threads, reaperVars
  <2>5. QED
    BY <1>3, <2>2, <2>3, <2>4 DEF Again, windowVars, bucketVars, creditVars, slotVars, backendVars, reaperVars, deliverVars, cqVars, ClientType, BackendType, ReaperType, CqType
<1>4. CASE Refuse \/ FillSync
  <2>1. Issued \in Slots /\ pend[Issued].tag \in Pages
    BY <1>4, <1>h DEF Refuse, FillSync, Hands
  <2>2. DeliverType'
    BY <1>4, <2>1, DeliveryType DEF Refuse, FillSync, Threads
  <2>3. SlotType' /\ WindowType'
    BY <1>4, <2>1 DEF Refuse, FillSync, SlotType, WindowType, slotVars, creditVars, windowVars, bucketVars
  <2>4. Hands'
    BY <1>4, <2>1, CoalesceAssumption
    DEF Refuse, FillSync, StartDelivery, Hands, Issued, DeliverType, Threads, None, reaperVars, slotVars
  <2>5. QED
    BY <1>4, <2>2, <2>3, <2>4
    DEF Refuse, FillSync, windowVars, bucketVars, creditVars, slotVars, backendVars, reaperVars, deliverVars, cqVars, ClientType, BackendType, ReaperType, CqType
<1>5. CASE InlineDone
  <2>1. Issued \in Slots
    BY <1>5, <1>h DEF InlineDone
  <2>2. SlotType'
    BY <1>5, <2>1, FreeSlotsType DEF InlineDone
  <2>3. DeliverType'
    BY <1>5, DeliveryType DEF InlineDone, Threads
  <2>4. WindowType'
    BY <1>5 DEF InlineDone, WindowType, bucketVars
  <2>5. Hands'
    BY <1>5 DEF InlineDone, EndDelivery, Hands, Issued, DeliverType, Threads, reaperVars
  <2>6. QED
    BY <1>5, <2>2, <2>3, <2>4, <2>5
    DEF InlineDone, windowVars, bucketVars, creditVars, slotVars, backendVars, reaperVars, deliverVars, cqVars, ClientType, BackendType, ReaperType, CqType
<1>6. CASE WindowDone
  BY <1>6 DEF WindowDone, IssuerLapOver, Hands, Issued, windowVars, bucketVars, creditVars, slotVars, backendVars, reaperVars, deliverVars, cqVars, ClientType, WindowType, BackendType, ReaperType, SlotType, DeliverType, CqType
<1>7. QED
  BY <1>1, <1>2, <1>3, <1>4, <1>5, <1>6

LEMMA TypeDeliver ==
  ASSUME TypeInv, NEW t \in Threads, CopyRow(t) \/ ReadCqHead(t) \/ PostCqe(t)
  PROVE  TypeInv'
<1> USE DEF TypeInv, TypeOK
<1>1. CASE CopyRow(t)
  <2>1. cur[t] \in Slots
    <3>1. t = "issuer" => cur[t] \in Slots
      BY <1>1 DEF CopyRow, Hands, Issued, DeliverType, None
    <3>2. t = "reaper" => cur[t] \in Slots
      BY <1>1 DEF CopyRow, Hands, ReaperType, None
    <3>3. QED
      BY <3>1, <3>2 DEF Threads
  <2>2. staging[cur[t]] \in Pages \cup {NoPage} /\ ok[t] \in BOOLEAN
    BY <2>1 DEF SlotType, DeliverType
  <2>3. PICK r \in left[t] :
          /\ left' = [left EXCEPT ![t] = @ \ {r}]
          /\ cqe' = [cqe EXCEPT ![t] =
                       [req |-> r, ok |-> ok[t],
                        data |-> IF ok[t] THEN staging[cur[t]] ELSE NoPage]]
    BY <1>1 DEF CopyRow
  <2>4. r \in Reqs
    BY DEF DeliverType
  <2>5. [req |-> r, ok |-> ok[t], data |-> IF ok[t] THEN staging[cur[t]] ELSE NoPage] \in Cqe
    BY <2>2, <2>4 DEF Cqe
  <2>6. DeliverType'
    BY <1>1, <2>3, <2>5 DEF CopyRow, DeliverType
  <2>7. Hands'
    BY <1>1 DEF CopyRow, Hands, Issued, DeliverType, Threads, None, reaperVars, slotVars
  <2>8. QED
    BY <1>1, <2>6, <2>7 DEF CopyRow, windowVars, bucketVars, creditVars, slotVars, backendVars, reaperVars, deliverVars, cqVars, ClientType, WindowType, BackendType, ReaperType, SlotType, CqType
<1>2. CASE ReadCqHead(t)
  <2>1. DeliverType'
    BY <1>2 DEF ReadCqHead, DeliverType, CqType
  <2>2. Hands'
    BY <1>2 DEF ReadCqHead, Hands, Issued, DeliverType, Threads, None, reaperVars, slotVars
  <2>3. QED
    BY <1>2, <2>1, <2>2 DEF ReadCqHead, windowVars, bucketVars, creditVars, slotVars, backendVars, reaperVars, deliverVars, cqVars, ClientType, WindowType, BackendType, ReaperType, SlotType, CqType
<1>3. CASE PostCqe(t)
  <2>1. h[t] \in Int /\ 0 \in 0 .. Modulus - 1
    BY CoalesceAssumption DEF DeliverType
  <2>2. Wrap(h[t] + 1) \in 0 .. Modulus - 1
    BY <2>1, WrapType
  <2>3. DeliverType' /\ CqType'
    BY <1>3, <2>1, <2>2 DEF PostCqe, DeliverType, CqType
  <2>4. Hands'
    BY <1>3 DEF PostCqe, Hands, Issued, DeliverType, Threads, None, reaperVars, slotVars
  <2>5. QED
    BY <1>3, <2>3, <2>4 DEF PostCqe, windowVars, bucketVars, creditVars, slotVars, backendVars, reaperVars, deliverVars, cqVars, ClientType, WindowType, BackendType, ReaperType, SlotType
<1>4. QED
  BY <1>1, <1>2, <1>3

LEMMA TypeReaper ==
  ASSUME TypeInv, ReaperLap \/ ReapPage \/ PageDone \/ ReaperLapDone
  PROVE  TypeInv'
<1> USE DEF TypeInv, TypeOK
<1>1. CASE ReaperLap
  <2>1. PICK old \in SUBSET {s \in Slots : conf.timeouts /\ pend[s].state = "ISSUED"} :
          /\ pend' = [s \in Slots |-> IF s \in old THEN [pend[s] EXCEPT !.state = "ERROR"]
                                                   ELSE pend[s]]
          /\ rlist' = done_list \cup old
    BY <1>1 DEF ReaperLap
  <2>2. ReaperType' /\ \A s \in Slots : pend'[s].tag = pend[s].tag
    BY <1>1, <2>1, PendType DEF ReaperLap, ReaperType, Pend
  <2>3. SlotType'
    BY <1>1, <2>1, PendType DEF ReaperLap, SlotType, creditVars
  <2>4. Hands'
    BY <1>1, <2>2 DEF ReaperLap, ReaperTurn, Hands, Issued, deliverVars, DeliverType, Threads
  <2>5. QED
    BY <1>1, <2>2, <2>3, <2>4 DEF ReaperLap, windowVars, bucketVars, creditVars, slotVars, backendVars, reaperVars, deliverVars, cqVars, ClientType, WindowType, BackendType, DeliverType, CqType
<1>2. CASE ReapPage
  <2>1. PICK s \in rlist : StartDelivery("reaper", s, pend[s].state # "ERROR")
    BY <1>2 DEF ReapPage
  <2>2. s \in Slots
    BY DEF ReaperType
  <2>3. DeliverType'
    BY <1>2, <2>1, <2>2, DeliveryType DEF ReapPage, Threads
  <2>4. Hands'
    BY <1>2, <2>1, <2>2 DEF ReapPage, StartDelivery, Hands, Issued, DeliverType, Threads, slotVars
  <2>5. QED
    BY <1>2, <2>3, <2>4 DEF ReapPage, windowVars, bucketVars, creditVars, slotVars, backendVars, reaperVars, deliverVars, cqVars, ClientType, WindowType, BackendType, ReaperType, SlotType, CqType
<1>3. CASE PageDone
  <2>1. DeliverType'
    BY <1>3, DeliveryType DEF PageDone, Threads
  <2>2. ReaperType'
    BY <1>3 DEF PageDone, Hands, ReaperType
  <2>3. Hands'
    BY <1>3 DEF PageDone, EndDelivery, Hands, Issued, DeliverType, Threads, slotVars
  <2>4. QED
    BY <1>3, <2>1, <2>2, <2>3 DEF PageDone, windowVars, bucketVars, creditVars, slotVars, backendVars, reaperVars, deliverVars, cqVars, ClientType, WindowType, BackendType, SlotType, CqType
<1>4. CASE ReaperLapDone
  <2>1. WindowType' /\ ReaperType' /\ Hands'
    BY <1>4 DEF ReaperLapDone, WindowType, ReaperType, Hands, Issued, windowVars, bucketVars, deliverVars, slotVars
  <2>2. QED
    BY <1>4, <2>1 DEF ReaperLapDone, windowVars, bucketVars, creditVars, slotVars, backendVars, reaperVars, deliverVars, cqVars, ClientType, BackendType, SlotType, DeliverType, CqType
<1>5. QED
  BY <1>1, <1>2, <1>3, <1>4

\* A completion, whoever wins the cmpxchg.
LEMMA UpcallType ==
  ASSUME SlotType, ReaperType, NEW c \in Read, NEW good \in BOOLEAN,
         Upcall(c.slot, c.gen, good)
  PROVE  /\ pend' \in [Slots -> Pend] /\ done_list' \subseteq Slots
         /\ \A s \in Slots : pend'[s].tag = pend[s].tag
<1>1. c.slot \in Slots
  BY DEF Read
<1>2. CASE Wins(c.slot, c.gen)
  <2>1. pend' = [pend EXCEPT ![c.slot] = [@ EXCEPT !.state = IF good THEN "DONE" ELSE "ERROR"]]
    BY <1>2 DEF Upcall
  <2>2. \A s \in Slots : pend'[s] \in Pend /\ pend'[s].tag = pend[s].tag
    BY <2>1, PendType DEF SlotType, Pend
  <2>3. QED
    BY <1>1, <1>2, <2>1, <2>2 DEF Upcall, SlotType, ReaperType
<1>3. CASE ~Wins(c.slot, c.gen)
  BY <1>3 DEF Upcall, SlotType, ReaperType
<1>4. QED
  BY <1>2, <1>3

LEMMA TypeBackend ==
  ASSUME TypeInv, NEW c, Complete(c) \/ Lose(c) \/ Echo(c)
  PROVE  TypeInv'
<1> USE DEF TypeInv, TypeOK
<1>1. c \in Read
  BY DEF Complete, Lose, Echo, BackendType
<1>2. BackendType'
  BY <1>1 DEF Complete, Lose, Echo, BackendType
<1>3. CASE Lose(c)
  BY <1>2, <1>3 DEF Lose, Hands, Issued, windowVars, bucketVars, creditVars, slotVars, backendVars, reaperVars, deliverVars, cqVars, ClientType, WindowType, BackendType, ReaperType, SlotType, DeliverType, CqType
<1>4. CASE Complete(c) \/ Echo(c)
  <2>1. PICK good \in BOOLEAN : Upcall(c.slot, c.gen, good)
    BY <1>4 DEF Complete, Echo
  <2>2. /\ pend' \in [Slots -> Pend] /\ done_list' \subseteq Slots
        /\ \A s \in Slots : pend'[s].tag = pend[s].tag
    BY <1>1, <2>1, UpcallType
  <2>3. staging' \in [Slots -> Pages \cup {NoPage}]
    BY <1>1, <1>4 DEF Complete, Echo, SlotType, Read
  <2>4. SlotType' /\ ReaperType'
    BY <1>4, <2>2, <2>3 DEF Complete, Echo, SlotType, ReaperType, creditVars, reaperVars
  <2>5. Hands'
    BY <1>4, <2>2 DEF Complete, Echo, Hands, Issued, DeliverType, Threads, deliverVars, reaperVars
  <2>6. QED
    BY <1>2, <1>4, <2>4, <2>5
    DEF Complete, Echo, windowVars, bucketVars, creditVars, slotVars, backendVars, reaperVars, deliverVars, cqVars, ClientType, WindowType, DeliverType, CqType
<1>5. QED
  BY <1>3, <1>4

LEMMA TypeNext == TypeInv /\ [Next]_vars => TypeInv'
<1> SUFFICES ASSUME TypeInv, [Next]_vars PROVE TypeInv'
  OBVIOUS
<1>1. CASE \E r \in Reqs : Push(r)
  BY <1>1, TypeClient
<1>2. CASE Collect
  BY <1>2, TypeClient
<1>3. CASE IssuerStep
  BY <1>3, TypeFill, TypeBin, TypeIssue, TypeSubmit, TypeDeliver DEF IssuerStep, Threads
<1>4. CASE ReaperStep
  BY <1>4, TypeReaper, TypeDeliver DEF ReaperStep, Threads
<1>5. CASE \E c \in io : Complete(c) \/ Lose(c)
  BY <1>5, TypeBackend
<1>6. CASE \E c \in echoes : Echo(c)
  BY <1>6, TypeBackend
<1>7. CASE UNCHANGED vars
  BY <1>7 DEF TypeInv, TypeOK, vars, Hands, Issued, windowVars, bucketVars, creditVars, slotVars, backendVars, reaperVars, deliverVars, cqVars, ClientType, WindowType, BackendType, ReaperType, SlotType, DeliverType, CqType
<1>8. QED
  BY <1>1, <1>2, <1>3, <1>4, <1>5, <1>6, <1>7 DEF Next

\* Whatever the load-time configuration, and whatever the backend and the two
\* threads do, the shard's lists, credits, cursors and completions stay well
\* formed; in particular the credit counter never goes below zero.
THEOREM TypeCorrect == Spec => []TypeOK
<1>1. TypeInv => TypeOK
  BY DEF TypeInv
<1>2. QED
  BY <1>1, TypeInit, TypeNext, PTL DEF Spec
-----------------------------------------------------------------------------
(* One owner of every slot, where the reaper cannot time out a read that    *)
(* the issuer still has in its hands.                                       *)

Sound == \A c \in Configs : ~(c.split /\ c.timeouts)

\* The word genstate of a slot says which lists it is on; a slot in the
\* issuer's hands is armed, and no completion to come carries its generation.
Owned ==
  /\ \A s \in Slots : s \in pend_free <=> pend[s].state = "FREE"
  /\ \A s \in Slots :
       s \in done_list \cup rlist \cup pend_return <=> pend[s].state \in {"DONE", "ERROR"}
  /\ done_list \cap rlist = {} /\ done_list \cap pend_return = {} /\ rlist \cap pend_return = {}
  /\ Issued # None => pend[Issued].state = "ISSUED"
  /\ \A c \in io \cup echoes : c.slot = Issued => c.gen # pend[Issued].gen

OwnInv == TypeInv /\ Owned

LEMMA OwnedOne == OwnInv => OneOwner
<1> SUFFICES ASSUME OwnInv, NEW s \in Slots
             PROVE  \E p \in Places(s) : Places(s) = {p}
  BY DEF OneOwner
<1>1. pend[s].state \in {"FREE", "ISSUED", "DONE", "ERROR"}
  BY PendType DEF OwnInv, TypeInv, TypeOK, Pend
<1>2. Issued = s => pend[s].state = "ISSUED"
  BY CoalesceAssumption DEF OwnInv, Owned
<1>3. CASE pend[s].state = "FREE"
  <2>1. Places(s) = {"free"}
    BY <1>2, <1>3 DEF OwnInv, Owned, Places, Issued
  <2>2. QED
    BY <2>1
<1>4. CASE pend[s].state = "ISSUED"
  <2>1. Places(s) = {IF Issued = s THEN "issuer" ELSE "backend"}
    BY <1>4 DEF OwnInv, Owned, Places, Issued
  <2>2. QED
    BY <2>1
<1>5. CASE pend[s].state \in {"DONE", "ERROR"}
  <2>1. Places(s) = {IF s \in done_list THEN "done"
                     ELSE IF s \in rlist THEN "reaper" ELSE "return"}
    BY <1>2, <1>5 DEF OwnInv, Owned, Places, Issued
  <2>2. QED
    BY <2>1
<1>6. QED
  BY <1>1, <1>3, <1>4, <1>5

LEMMA OwnInit == Init => OwnInv
<1> SUFFICES ASSUME Init PROVE OwnInv
  OBVIOUS
<1>1. Owned
  BY DEF Init, Owned, Issued, Threads
<1>2. QED
  BY <1>1, TypeInit DEF OwnInv

\* Giving back slots that completed, or the one in hand.
LEMMA OwnFree ==
  ASSUME OwnInv, NEW S \in SUBSET Slots, FreeSlots(S)
  PROVE  \A s \in Slots :
           /\ s \in pend_free' <=> s \in pend_free \/ s \in S
           /\ s \in S => pend'[s].state = "FREE"
           /\ s \notin S => pend'[s] = pend[s]
           /\ pend'[s].gen = pend[s].gen
<1>1. \A s \in Slots : pend[s] \in Pend
  BY PendType DEF OwnInv, TypeInv, TypeOK
<1>2. QED
  BY <1>1 DEF FreeSlots, Pend

LEMMA OwnIssuer ==
  ASSUME OwnInv, IssuerStep
  PROVE  Owned'
<1> USE DEF OwnInv, TypeInv, TypeOK
<1>1. CASE DrainReturns
  <2>1. pend_return \in SUBSET Slots /\ FreeSlots(pend_return)
    BY <1>1 DEF DrainReturns, ReaperType
  <2>2. Issued = None
    BY <1>1 DEF DrainReturns, Hands
  <2>3. UNCHANGED <<done_list, rlist, io, echoes, cur>> /\ pend_return' = {}
    BY <1>1 DEF DrainReturns, reaperVars, deliverVars, backendVars
  <2>4. \A c \in io \cup echoes : c.slot # None
    BY CoalesceAssumption DEF BackendType, Read
  <2>5. QED
    BY <2>1, <2>2, <2>3, <2>4, OwnFree DEF Owned, Issued
<1>2. CASE PopReq \/ FillOver \/ Seal \/ KeepFilling \/ Defer \/ WindowDone
           \/ Bin \/ EvictFull \/ BinOver \/ EvictFullest \/ KeepBinned
  BY <1>2 DEF PopReq, FillOver, Seal, KeepFilling, Defer, WindowDone, Bin, EvictFull, BinOver, EvictFullest, KeepBinned, Owned, Issued, windowVars, bucketVars, creditVars, slotVars, backendVars, reaperVars, deliverVars, cqVars
<1>3. CASE Issue
  <2>1. PICK R \in NextRuns, s \in pend_free :
          /\ GenIsFresh(s)
          /\ pend_free' = pend_free \ {s}
          /\ pend' = [pend EXCEPT ![s] = [state |-> "ISSUED", gen |-> NextGen(s),
                                          tag |-> PageOf[CHOOSE r \in R : TRUE],
                                          waiters |-> R]]
          /\ cur' = [cur EXCEPT !["issuer"] = s]
    BY <1>3 DEF Issue
  <2>2. s \in Slots /\ Issued' = s
    BY <2>1 DEF SlotType, Issued, DeliverType, Threads
  <2>3. pend'[s].state = "ISSUED" /\ pend'[s].gen = NextGen(s)
    BY <2>1, <2>2 DEF SlotType
  <2>4. \A x \in Slots \ {s} : pend'[x] = pend[x]
    BY <2>1 DEF SlotType
  <2>5. UNCHANGED <<done_list, rlist, pend_return, io, echoes>>
    BY <1>3 DEF Issue, reaperVars, backendVars
  <2>6. QED
    BY <2>1, <2>2, <2>3, <2>4, <2>5 DEF Owned, GenIsFresh, SlotType
<1>4. CASE Accept
  <2>1. Issued' = None
    BY <1>4 DEF Accept, Issued, DeliverType, Threads
  <2>2. UNCHANGED <<pend_free, pend, done_list, rlist, pend_return>>
    BY <1>4 DEF Accept, creditVars, reaperVars
  <2>3. \A c \in io' \cup echoes' : c.slot # None
    BY <1>4, TypeSubmit, CoalesceAssumption DEF BackendType, Read
  <2>4. QED
    BY <2>1, <2>2, <2>3 DEF Owned
<1>5. CASE Again \/ InlineDone
  <2>1. Issued \in Slots /\ FreeSlots({Issued})
    BY <1>5 DEF Again, InlineDone, Hands, Issued, DeliverType, Threads
  <2>2. Issued' = None
    BY <1>5 DEF Again, InlineDone, EndDelivery, Issued, DeliverType, Threads
  <2>3. UNCHANGED <<done_list, rlist, pend_return, io, echoes>>
    BY <1>5 DEF Again, InlineDone, reaperVars, backendVars
  <2>4. \A c \in io \cup echoes : c.slot # None
    BY CoalesceAssumption DEF BackendType, Read
  <2>5. pend[Issued].state = "ISSUED"
    BY <2>1, CoalesceAssumption DEF Owned
  <2>6. \A s \in Slots :
           /\ s \in pend_free' <=> s \in pend_free \/ s = Issued
           /\ s = Issued => pend'[s].state = "FREE"
           /\ s # Issued => pend'[s] = pend[s]
    BY <2>1, OwnFree
  <2>7. QED
    BY <2>2, <2>3, <2>4, <2>5, <2>6 DEF Owned
<1>6. CASE Refuse \/ FillSync
  <2>1. Issued' = Issued
    BY <1>6 DEF Refuse, FillSync, StartDelivery, Issued, DeliverType, Threads
  <2>2. QED
    BY <1>6, <2>1 DEF Refuse, FillSync, Owned, creditVars, slotVars, reaperVars, backendVars
<1>7. CASE CopyRow("issuer") \/ ReadCqHead("issuer") \/ PostCqe("issuer")
  BY <1>7 DEF CopyRow, ReadCqHead, PostCqe, Owned, Issued, windowVars, bucketVars, creditVars, slotVars, backendVars, reaperVars, deliverVars, cqVars
<1>8. QED
  BY <1>1, <1>2, <1>3, <1>4, <1>5, <1>6, <1>7 DEF IssuerStep

LEMMA OwnReaper ==
  ASSUME Sound, OwnInv, ReaperStep
  PROVE  Owned'
<1> USE DEF OwnInv, TypeInv, TypeOK
<1>1. CASE ReaperLap
  <2>1. PICK old \in SUBSET {s \in Slots : conf.timeouts /\ pend[s].state = "ISSUED"} :
          /\ pend' = [s \in Slots |-> IF s \in old THEN [pend[s] EXCEPT !.state = "ERROR"]
                                                   ELSE pend[s]]
          /\ rlist' = done_list \cup old
    BY <1>1 DEF ReaperLap
  <2>2. conf.timeouts => Issued = None
    BY <1>1 DEF ReaperLap, ReaperTurn, Sound, ClientType, Hands
  <2>3. \A s \in Slots : /\ s \in old => pend'[s].state = "ERROR" /\ pend[s].state = "ISSUED"
                         /\ s \notin old => pend'[s] = pend[s]
    BY <2>1, PendType DEF Pend
  <2>4. Issued # None => Issued \in Slots /\ pend'[Issued] = pend[Issued]
    BY <2>1, <2>2, <2>3 DEF Issued, DeliverType, Threads
  <2>5. Issued = None => \A c \in io \cup echoes : c.slot # Issued
    BY CoalesceAssumption DEF BackendType, Read
  <2>6. done_list' = {} /\ rlist = {} /\ Issued' = Issued
        /\ UNCHANGED <<pend_free, pend_return, io, echoes>>
    BY <1>1 DEF ReaperLap, Hands, Issued, creditVars, backendVars, deliverVars
  <2>7. QED
    BY <2>1, <2>3, <2>4, <2>5, <2>6 DEF Owned
<1>2. CASE ReapPage
  <2>1. Issued' = Issued
    BY <1>2 DEF ReapPage, StartDelivery, Issued, DeliverType, Threads
  <2>2. QED
    BY <1>2, <2>1 DEF ReapPage, Owned, creditVars, slotVars, backendVars
<1>3. CASE PageDone
  <2>1. Issued' = Issued
    BY <1>3 DEF PageDone, EndDelivery, Issued, DeliverType, Threads
  <2>2. cur["reaper"] \in rlist
    BY <1>3 DEF PageDone, Hands
  <2>3. QED
    BY <1>3, <2>1, <2>2 DEF PageDone, Owned, creditVars, slotVars, backendVars
<1>4. CASE ReaperLapDone
  BY <1>4 DEF ReaperLapDone, Owned, Issued, windowVars, bucketVars, creditVars, slotVars, backendVars, reaperVars, deliverVars, cqVars
<1>5. CASE CopyRow("reaper") \/ ReadCqHead("reaper") \/ PostCqe("reaper")
  BY <1>5 DEF CopyRow, ReadCqHead, PostCqe, Owned, Issued, windowVars, bucketVars, creditVars, slotVars, backendVars, reaperVars, deliverVars, cqVars
<1>6. QED
  BY <1>1, <1>2, <1>3, <1>4, <1>5 DEF ReaperStep

LEMMA OwnBackend ==
  ASSUME OwnInv, NEW c \in io \cup echoes, Complete(c) \/ Lose(c) \/ Echo(c)
  PROVE  Owned'
<1> USE DEF OwnInv, TypeInv, TypeOK
<1>1. c \in Read /\ c.slot \in Slots
  BY DEF BackendType, Read
<1>2. CASE Lose(c)
  BY <1>2 DEF Lose, Owned, Issued, windowVars, bucketVars, creditVars, slotVars, backendVars, reaperVars, deliverVars, cqVars
<1>3. CASE Complete(c) \/ Echo(c)
  <2>1. PICK good \in BOOLEAN : Upcall(c.slot, c.gen, good)
    BY <1>3 DEF Complete, Echo
  <2>2. UNCHANGED <<pend_free, rlist, pend_return, cur>> /\ io' \cup echoes' \subseteq io \cup echoes
    BY <1>3 DEF Complete, Echo, creditVars, reaperVars, deliverVars
  <2>3. CASE Wins(c.slot, c.gen)
    <3>1. c.slot # Issued
      BY <2>3 DEF Wins, Owned
    <3>2. /\ pend' = [pend EXCEPT ![c.slot] =
                        [@ EXCEPT !.state = IF good THEN "DONE" ELSE "ERROR"]]
          /\ done_list' = done_list \cup {c.slot}
      BY <2>1, <2>3 DEF Upcall
    <3>3. pend'[c.slot] = [pend[c.slot] EXCEPT !.state = IF good THEN "DONE" ELSE "ERROR"]
      BY <1>1, <3>2 DEF SlotType
    <3>4. pend[c.slot] \in Pend
      BY <1>1, PendType
    <3>5. pend'[c.slot].state \in {"DONE", "ERROR"} /\ pend[c.slot].state = "ISSUED"
      BY <2>3, <3>3, <3>4 DEF Wins, Pend
    <3>6. \A x \in Slots \ {c.slot} : pend'[x] = pend[x]
      BY <3>2 DEF SlotType
    <3>7. Issued # None => Issued \in Slots
      BY DEF Issued, DeliverType, Threads
    <3>8. Issued = None => \A d \in io \cup echoes : d.slot # Issued
      BY CoalesceAssumption DEF BackendType, Read
    <3>9. Issued' = Issued
      BY <2>2 DEF Issued
    <3>10. QED
      BY <1>1, <2>2, <3>1, <3>2, <3>5, <3>6, <3>7, <3>8, <3>9 DEF Owned
  <2>4. CASE ~Wins(c.slot, c.gen)
    BY <2>1, <2>2, <2>4 DEF Upcall, Owned, Issued
  <2>5. QED
    BY <2>3, <2>4
<1>4. QED
  BY <1>2, <1>3

LEMMA OwnNext ==
  ASSUME Sound
  PROVE  OwnInv /\ [Next]_vars => OwnInv'
<1> SUFFICES ASSUME OwnInv, [Next]_vars PROVE Owned'
  BY TypeNext DEF OwnInv
<1>2. CASE (\E r \in Reqs : Push(r)) \/ Collect
  BY <1>2 DEF Push, Collect, OwnInv, Owned, Issued, windowVars, bucketVars, creditVars, slotVars, backendVars, reaperVars, deliverVars, cqVars
<1>3. CASE IssuerStep
  BY <1>3, OwnIssuer
<1>4. CASE ReaperStep
  BY <1>4, OwnReaper
<1>5. CASE \/ \E c \in io : Complete(c) \/ Lose(c)
           \/ \E c \in echoes : Echo(c)
  BY <1>5, OwnBackend
<1>6. CASE UNCHANGED vars
  BY <1>6 DEF vars, OwnInv, Owned, Issued, windowVars, bucketVars, creditVars, slotVars, backendVars, reaperVars, deliverVars, cqVars
<1>7. QED
  BY <1>2, <1>3, <1>4, <1>5, <1>6 DEF Next

\* Unless the two roles are split AND reads time out, no slot and no staging
\* buffer ever has two owners or none: cmpxchg on the generation and the state
\* keeps late, repeated and timed-out completions apart, whatever their order.
THEOREM SlotsHaveOneOwner ==
  ASSUME Sound
  PROVE  Spec => []OneOwner
<1>1. OwnInv /\ [Next]_vars => OwnInv'
  BY OwnNext
<1>2. QED
  BY <1>1, OwnInit, OwnedOne, PTL DEF Spec
-----------------------------------------------------------------------------
(* The waiter arena.                                                        *)

\* A free slot has no chain, and the chains and the free nodes are the arena.
CreditInv ==
  /\ OwnInv
  /\ \A s \in Slots : pend[s].state = "FREE" => pend[s].waiters = {}
  /\ WaitersConserved

LEMMA CreditInit == Init => CreditInv
<1> SUFFICES ASSUME Init PROVE CreditInv
  OBVIOUS
<1>1. NodesOf(Slots) = {}
  BY DEF Init, NodesOf
<1>2. WaitersConserved
  BY <1>1, FS_EmptySet, CoalesceAssumption DEF Init, WaitersConserved
<1>3. QED
  BY <1>2, OwnInit DEF Init, CreditInv

\* Steps that leave every chain alone.
LEMMA CreditSame ==
  ASSUME WaitersConserved, wfree_n' = wfree_n,
         \A s \in Slots : pend'[s].waiters = pend[s].waiters
  PROVE  WaitersConserved'
<1>1. NodesOf(Slots)' = NodesOf(Slots)
  BY DEF NodesOf
<1>2. QED
  BY <1>1 DEF WaitersConserved

LEMMA CreditFree ==
  ASSUME CreditInv, NEW S \in SUBSET Slots, FreeSlots(S)
  PROVE  WaitersConserved' /\ \A s \in Slots : pend'[s].waiters # {} => pend'[s] = pend[s]
<1> USE DEF CreditInv, OwnInv, TypeInv, TypeOK
<1>1. \A s \in Slots : /\ s \in S => pend'[s].waiters = {}
                       /\ s \notin S => pend'[s] = pend[s]
  BY PendType DEF FreeSlots, Pend
<1>2. NodesOf(Slots)' = NodesOf(Slots) \ NodesOf(S)
  BY <1>1 DEF NodesOf
<1>3. NodesOf(Slots) \cap NodesOf(S) = NodesOf(S)
  BY DEF NodesOf
<1>4. /\ IsFiniteSet(NodesOf(Slots)) /\ Cardinality(NodesOf(Slots)) \in Nat
      /\ IsFiniteSet(NodesOf(S)) /\ Cardinality(NodesOf(S)) \in Nat
  BY NodesFinite
<1>5. Cardinality(NodesOf(Slots)') = Cardinality(NodesOf(Slots)) - Cardinality(NodesOf(S))
  BY <1>2, <1>3, <1>4, FS_Difference
<1>6. wfree_n' = wfree_n + Cardinality(NodesOf(S)) /\ wfree_n \in Nat
  BY DEF FreeSlots, SlotType
<1>7. wfree_n + Cardinality(NodesOf(Slots)) = Arena
  BY DEF WaitersConserved
<1>8. wfree_n' + Cardinality(NodesOf(Slots)') = Arena
  BY <1>4, <1>5, <1>6, <1>7
<1>9. QED
  BY <1>1, <1>8 DEF WaitersConserved

LEMMA CreditIssue ==
  ASSUME CreditInv, Issue
  PROVE  CreditInv'
<1> USE DEF CreditInv, OwnInv, TypeInv, TypeOK
<1>1. PICK R \in NextRuns, s \in pend_free :
        /\ Credits(R)
        /\ wfree_n' = wfree_n - Cardinality(R)
        /\ pend' = [pend EXCEPT ![s] = [state |-> "ISSUED", gen |-> NextGen(s),
                                        tag |-> PageOf[CHOOSE r \in R : TRUE],
                                        waiters |-> R]]
  BY DEF Issue
<1>2. R \subseteq Reqs /\ s \in Slots
  BY DEF NextRuns, WindowType, SlotType
<1>3. pend[s].waiters = {}
  BY <1>2 DEF Owned
<1>4. /\ pend'[s].waiters = R /\ pend'[s].state = "ISSUED"
      /\ \A x \in Slots \ {s} : pend'[x] = pend[x]
  BY <1>1, <1>2 DEF SlotType
<1>5. NodesOf(Slots)' = NodesOf(Slots) \cup ({s} \X R)
  BY <1>2, <1>3, <1>4 DEF NodesOf
<1>6. NodesOf(Slots) \cap ({s} \X R) = {}
  BY <1>3 DEF NodesOf
<1>7. IsFiniteSet(R) /\ Cardinality(R) \in Nat
  BY <1>2, RunFinite
<1>8. IsFiniteSet({s}) /\ Cardinality({s}) = 1
  BY FS_Singleton
<1>9. IsFiniteSet({s} \X R) /\ Cardinality({s} \X R) = Cardinality(R)
  BY <1>7, <1>8, FS_Product
<1>10. IsFiniteSet(NodesOf(Slots)) /\ Cardinality(NodesOf(Slots)) \in Nat
  BY NodesFinite
<1>11. Cardinality(NodesOf(Slots)') = Cardinality(NodesOf(Slots)) + Cardinality(R)
  <2>1. Cardinality(NodesOf(Slots) \cap ({s} \X R)) = 0
    BY <1>6, FS_EmptySet
  <2>2. Cardinality(NodesOf(Slots) \cup ({s} \X R))
          = Cardinality(NodesOf(Slots)) + Cardinality({s} \X R)
              - Cardinality(NodesOf(Slots) \cap ({s} \X R))
    BY <1>9, <1>10, FS_Union
  <2>3. QED
    BY <1>5, <1>7, <1>9, <1>10, <2>1, <2>2
<1>12. wfree_n \in Nat /\ wfree_n + Cardinality(NodesOf(Slots)) = Arena
  BY DEF SlotType, WaitersConserved
<1>13. wfree_n' + Cardinality(NodesOf(Slots)') = Arena
  BY <1>1, <1>7, <1>10, <1>11, <1>12
<1>14. WaitersConserved'
  BY <1>13 DEF WaitersConserved
<1>15. OwnInv'
  BY TypeIssue, OwnIssuer DEF IssuerStep
<1>16. QED
  BY <1>4, <1>14, <1>15

LEMMA CreditNext ==
  ASSUME Sound
  PROVE  CreditInv /\ [Next]_vars => CreditInv'
<1> SUFFICES ASSUME CreditInv, [Next]_vars PROVE CreditInv'
  OBVIOUS
<1> USE DEF CreditInv
<1>1. OwnInv'
  BY OwnNext
<1>2. \A s \in Slots : pend[s] \in Pend /\ pend'[s] \in Pend
  BY <1>1, PendType DEF OwnInv, TypeInv, TypeOK, SlotType
<1>3. ASSUME wfree_n' = wfree_n,
             \A s \in Slots : \/ pend'[s] = pend[s]
                              \/ /\ pend'[s].waiters = pend[s].waiters
                                 /\ pend'[s].state # "FREE"
      PROVE  CreditInv'
  BY <1>1, <1>3, CreditSame
<1>4. CASE Issue
  BY <1>4, CreditIssue
<1>5. ASSUME NEW S \in SUBSET Slots, FreeSlots(S)
      PROVE  CreditInv'
  BY <1>1, <1>5, CreditFree
<1>6. CASE DrainReturns
  BY <1>5, <1>6 DEF DrainReturns, OwnInv, TypeInv, TypeOK, ReaperType
<1>7. CASE Again \/ InlineDone
  <2>1. Issued \in Slots
    BY <1>7 DEF Again, InlineDone, OwnInv, TypeInv, TypeOK, Hands, Issued, DeliverType, Threads
  <2>2. QED
    BY <1>5, <1>7, <2>1 DEF Again, InlineDone
<1>8. CASE ReaperLap
  <2>1. \A s \in Slots : pend'[s] = pend[s] \/ pend'[s] = [pend[s] EXCEPT !.state = "ERROR"]
    BY <1>8 DEF ReaperLap
  <2>2. QED
    BY <1>2, <1>3, <1>8, <2>1 DEF ReaperLap, creditVars, Pend
<1>9. ASSUME NEW c \in io \cup echoes, Complete(c) \/ Lose(c) \/ Echo(c)
      PROVE  CreditInv'
  <2>1. CASE Lose(c)
    BY <1>3, <2>1 DEF Lose, creditVars, slotVars
  <2>2. CASE Complete(c) \/ Echo(c)
    <3>1. PICK good \in BOOLEAN : Upcall(c.slot, c.gen, good)
      BY <2>2 DEF Complete, Echo
    <3>2. c.slot \in Slots
      BY DEF OwnInv, TypeInv, TypeOK, BackendType, Read
    <3>3. \A s \in Slots :
            \/ pend'[s] = pend[s]
            \/ pend'[s] = [pend[s] EXCEPT !.state = IF good THEN "DONE" ELSE "ERROR"]
      BY <3>1, <3>2 DEF Upcall, OwnInv, TypeInv, TypeOK, SlotType
    <3>4. QED
      BY <1>2, <1>3, <2>2, <3>3 DEF Complete, Echo, creditVars, Pend
  <2>3. QED
    BY <1>9, <2>1, <2>2
<1>10. CASE UNCHANGED <<pend, wfree_n>>
  BY <1>3, <1>10
<1>11. CASE \/ \E r \in Reqs : Push(r)
            \/ Collect \/ PopReq \/ FillOver \/ Seal \/ KeepFilling \/ Defer \/ Accept
            \/ Bin \/ EvictFull \/ BinOver \/ EvictFullest \/ KeepBinned
            \/ Refuse \/ FillSync \/ WindowDone \/ ReapPage \/ PageDone \/ ReaperLapDone
            \/ \E t \in Threads : CopyRow(t) \/ ReadCqHead(t) \/ PostCqe(t)
            \/ UNCHANGED vars
  BY <1>10, <1>11
  DEF Push, Collect, PopReq, FillOver, Seal, KeepFilling, Defer, Accept, Refuse, FillSync,
      Bin, EvictFull, BinOver, EvictFullest, KeepBinned, WindowDone, ReapPage, PageDone, ReaperLapDone, CopyRow, ReadCqHead, PostCqe,
      vars, creditVars, slotVars
<1>12. QED
  BY <1>4, <1>6, <1>7, <1>8, <1>9, <1>11 DEF Next, IssuerStep, ReaperStep, Threads

\* Under the same condition no waiter node leaks or is freed twice, over any
\* number of windows, undone reads, errors and timeouts.
THEOREM ArenaConserved ==
  ASSUME Sound
  PROVE  Spec => []WaitersConserved
<1>1. CreditInv /\ [Next]_vars => CreditInv'
  BY CreditNext
<1>2. CreditInv => WaitersConserved
  BY DEF CreditInv
<1>3. QED
  BY <1>1, <1>2, CreditInit, PTL DEF Spec
-----------------------------------------------------------------------------
(* What the application sees.                                              *)

\* A delivery serves waiters of the slot at hand; a slot's waiters want its
\* page; and the buffer holds that page whenever rows are copied from it.
Chains ==
  /\ \A s \in Slots : \A r \in pend[s].waiters : PageOf[r] = pend[s].tag
  /\ \A t \in Threads : dpc[t] # None => left[t] \subseteq pend[cur[t]].waiters

Staged ==
  /\ \A s \in Slots : pend[s].state = "DONE" => staging[s] = pend[s].tag
  /\ \A s \in Slots : conf.kind = "model" /\ pend[s].state # "FREE" /\ s # Issued
                        => staging[s] = pend[s].tag
  /\ \A t \in Threads : dpc[t] # None /\ ok[t] => staging[cur[t]] = pend[cur[t]].tag

\* A completion that still counts is for the page of its slot.  A device's read
\* always counts, and one fired again never does.
Landing ==
  /\ \A c \in io \cup echoes : Wins(c.slot, c.gen) => c.page = pend[c.slot].tag
  /\ conf.kind = "device" => \A c \in io : Wins(c.slot, c.gen)
  /\ conf.kind = "device" => \A c \in echoes : ~Wins(c.slot, c.gen)
  /\ conf.kind = "sync" => io = {} /\ echoes = {}

RowsKept ==
  /\ \A c \in Cells : OwnPage(cq[c])
  /\ \A t \in Threads : OwnPage(cqe[t])

Rows == Chains /\ Staged /\ Landing /\ RowsKept

RowInv == CreditInv /\ (LateDmaPossible \/ Rows)

\* What a thread that serves waiters has at hand.
LEMMA AtHand ==
  ASSUME OwnInv, NEW t \in Threads, dpc[t] # None
  PROVE  /\ cur[t] \in Slots
         /\ t = "issuer" => cur[t] = Issued /\ pend[cur[t]].state = "ISSUED" /\ ipc = "deliver"
         /\ t = "reaper" => /\ cur[t] \in rlist /\ pend[cur[t]].state \in {"DONE", "ERROR"}
                            /\ rpc = "deliver"
<1> USE DEF OwnInv, TypeInv, TypeOK
<1>1. CASE t = "issuer"
  BY <1>1 DEF Hands, Issued, Owned, DeliverType
<1>2. CASE t = "reaper"
  BY <1>2 DEF Hands, Owned, ReaperType
<1>3. QED
  BY <1>1, <1>2 DEF Threads

LEMMA AtHandAll ==
  OwnInv => \A t \in Threads : dpc[t] # None => cur[t] \in Slots /\ pend[cur[t]].state # "FREE"
BY AtHand DEF Threads

LEMMA AtHandNext ==
  OwnInv' => (\A t \in Threads : dpc[t] # None => cur[t] \in Slots /\ pend[cur[t]].state # "FREE")'
BY AtHandAll, PTL

LEMMA RowInit == Init => RowInv
<1> SUFFICES ASSUME Init PROVE Rows
  BY CreditInit DEF RowInv
<1>1. Chains /\ Landing
  BY DEF Init, Chains, Landing
<1>2. Staged
  BY DEF Init, Staged
<1>3. RowsKept
  BY DEF Init, RowsKept, OwnPage, NoCqe
<1>4. QED
  BY <1>1, <1>2, <1>3 DEF Rows

\* Steps that touch neither slots nor reads nor deliveries.
LEMMA RowSame ==
  ASSUME Rows, UNCHANGED <<conf, slotVars, backendVars, cur, dpc, left, ok>>, RowsKept'
  PROVE  Rows'
BY DEF Rows, Chains, Staged, Landing, Wins, Issued, slotVars, backendVars

\* What becomes of slots given back, and of the others.
LEMMA SlotsFreed ==
  ASSUME OwnInv, CreditInv, NEW S \in SUBSET Slots, FreeSlots(S)
  PROVE  \A s \in Slots : /\ s \in S => /\ pend'[s].state = "FREE" /\ pend'[s].gen = pend[s].gen
                                        /\ pend'[s].waiters = {}
                          /\ s \notin S => pend'[s] = pend[s] /\ staging'[s] = staging[s]
<1>1. \A s \in Slots : s \in S => pend'[s].waiters = {}
  <2>1. \A s \in Slots : pend[s] \in Pend
    BY PendType DEF OwnInv, TypeInv, TypeOK
  <2>2. QED
    BY <2>1 DEF FreeSlots, Pend
<1>2. \A s \in Slots : /\ s \in S => pend'[s].state = "FREE"
                       /\ s \notin S => pend'[s] = pend[s]
                       /\ pend'[s].gen = pend[s].gen
  BY OwnFree
<1>3. \A s \in Slots : s \notin S => staging'[s] = staging[s]
  BY DEF FreeSlots
<1>4. QED
  BY <1>1, <1>2, <1>3

\* Giving slots back that no read to come and no delivery refers to.
LEMMA RowFree ==
  ASSUME OwnInv, CreditInv, Rows, NEW S \in SUBSET Slots, FreeSlots(S),
         UNCHANGED <<conf, backendVars, left, cq, cqe>>,
         Issued' = None, Issued = None \/ Issued \in S,
         \A c \in io : c.slot \in S => ~Wins(c.slot, c.gen),
         \A t \in Threads : dpc'[t] # None => /\ dpc[t] # None /\ cur'[t] = cur[t]
                                              /\ ok'[t] = ok[t] /\ cur[t] \notin S
  PROVE  Rows'
<1>1. \A s \in Slots : /\ s \in S => /\ pend'[s].state = "FREE" /\ pend'[s].gen = pend[s].gen
                                     /\ pend'[s].waiters = {}
                       /\ s \notin S => pend'[s] = pend[s] /\ staging'[s] = staging[s]
  BY SlotsFreed
<1>2. \A t \in Threads : dpc[t] # None => cur[t] \in Slots
  BY AtHand
<1>3. \A c \in io \cup echoes : c.slot \in Slots
  BY DEF OwnInv, TypeInv, TypeOK, BackendType, Read
<1>4. Chains'
  BY <1>1, <1>2 DEF Rows, Chains
<1>5. Staged'
  <2>1. \A s \in Slots : pend'[s].state = "DONE" => staging'[s] = pend'[s].tag
    BY <1>1 DEF Rows, Staged
  <2>2. \A s \in Slots : conf.kind = "model" /\ pend'[s].state # "FREE"
                           => staging'[s] = pend'[s].tag
    BY <1>1, CoalesceAssumption DEF Rows, Staged
  <2>3. \A t \in Threads : dpc'[t] # None /\ ok'[t] => staging'[cur'[t]] = pend'[cur'[t]].tag
    BY <1>1, <1>2 DEF Rows, Staged
  <2>4. QED
    BY <2>1, <2>2, <2>3 DEF Staged
<1>6. Landing'
  BY <1>1, <1>3 DEF Rows, Landing, Wins, backendVars
<1>7. RowsKept'
  BY DEF Rows, RowsKept
<1>8. QED
  BY <1>4, <1>5, <1>6, <1>7 DEF Rows

LEMMA RowIssue ==
  ASSUME OwnInv, CreditInv, Rows, Issue
  PROVE  Rows'
<1> USE DEF OwnInv, TypeInv, TypeOK
<1>1. PICK R \in NextRuns, s \in pend_free :
        /\ GenIsFresh(s)
        /\ pend' = [pend EXCEPT ![s] = [state |-> "ISSUED", gen |-> NextGen(s),
                                        tag |-> PageOf[CHOOSE r \in R : TRUE],
                                        waiters |-> R]]
        /\ cur' = [cur EXCEPT !["issuer"] = s]
  BY DEF Issue
<1>2. s \in Slots /\ pend[s].state = "FREE" /\ R \subseteq Reqs /\ R # {}
  BY DEF NextRuns, WindowType, SlotType, Owned
<1>3. /\ pend'[s].state = "ISSUED" /\ pend'[s].gen = NextGen(s) /\ pend'[s].waiters = R
      /\ pend'[s].tag = PageOf[CHOOSE r \in R : TRUE]
      /\ \A x \in Slots \ {s} : pend'[x] = pend[x]
  BY <1>1, <1>2 DEF SlotType
<1>4. \A r \in R : PageOf[r] = pend'[s].tag
  <2>1. PICK p \in Pages : R \subseteq OfPage(p)
    BY DEF NextRuns
  <2>2. \A r \in R : PageOf[r] = p
    BY <2>1 DEF OfPage
  <2>3. (CHOOSE r \in R : TRUE) \in R
    BY <1>2
  <2>4. QED
    BY <1>3, <2>2, <2>3
<1>5. dpc["issuer"] = None /\ Issued = None
  BY DEF Issue, Hands
<1>6. Issued' = s /\ cur'["reaper"] = cur["reaper"]
  BY <1>1, <1>2 DEF Issued, DeliverType, Threads
<1>7. dpc["reaper"] # None => cur["reaper"] \in Slots /\ cur["reaper"] # s
  BY <1>2, AtHand DEF Threads
<1>8. UNCHANGED <<conf, staging, io, echoes, dpc, left, ok, cqe, cq>>
  BY DEF Issue, backendVars, cqVars
<1>9. \A c \in io \cup echoes : c.slot \in Slots /\ (c.slot = s => c.gen # pend'[s].gen)
  BY <1>1, <1>3 DEF GenIsFresh, BackendType, Read
<1>10. Chains'
  BY <1>2, <1>3, <1>4, <1>5, <1>6, <1>7, <1>8 DEF Rows, Chains, Threads
<1>11. Staged'
  BY <1>2, <1>3, <1>5, <1>6, <1>7, <1>8, CoalesceAssumption DEF Rows, Staged, Threads
<1>12. Landing'
  BY <1>2, <1>3, <1>8, <1>9 DEF Rows, Landing, Wins
<1>13. RowsKept'
  BY <1>8 DEF Rows, RowsKept
<1>14. QED
  BY <1>10, <1>11, <1>12, <1>13 DEF Rows

LEMMA RowAccept ==
  ASSUME OwnInv, Rows, Accept
  PROVE  Rows'
<1> USE DEF OwnInv, TypeInv, TypeOK
<1>1. /\ Issued \in Slots /\ Issued # None /\ pend[Issued].state = "ISSUED"
      /\ dpc["issuer"] = None
  BY CoalesceAssumption DEF Accept, Hands, Issued, DeliverType, Threads, Owned
<1>2. Issued' = None /\ cur'["reaper"] = cur["reaper"]
  BY DEF Accept, Issued, DeliverType, Threads
<1>3. dpc["reaper"] # None => cur["reaper"] \in Slots /\ cur["reaper"] # Issued
  BY <1>1, AtHand DEF Threads
<1>4. UNCHANGED <<conf, pend, echoes, dpc, left, ok, cqe, cq>>
  BY DEF Accept, cqVars
<1>5. \A x \in Slots : \/ staging'[x] = staging[x]
                       \/ x = Issued /\ staging'[x] = pend[x].tag
  BY <1>1 DEF Accept, SlotType
<1>6. conf.kind = "model" => staging'[Issued] = pend[Issued].tag
  BY <1>1 DEF Accept, SlotType
<1>7. Chains'
  BY <1>1, <1>2, <1>3, <1>4 DEF Rows, Chains, Threads
<1>8. Staged'
  <2>1. \A x \in Slots : pend'[x].state = "DONE" => staging'[x] = pend'[x].tag
    BY <1>4, <1>5 DEF Rows, Staged
  <2>2. \A x \in Slots : conf.kind = "model" /\ pend'[x].state # "FREE"
                           => staging'[x] = pend'[x].tag
    BY <1>4, <1>5, <1>6 DEF Rows, Staged
  <2>3. \A t \in Threads : dpc'[t] # None /\ ok'[t] => staging'[cur'[t]] = pend'[cur'[t]].tag
    BY <1>1, <1>2, <1>3, <1>4, <1>5 DEF Rows, Staged, Threads
  <2>4. QED
    BY <1>4, <2>1, <2>2, <2>3 DEF Staged
<1>9. Landing'
  <2>1. io' = io \cup {IssuedRead} /\ conf.kind # "sync"
    BY DEF Accept
  <2>2. /\ IssuedRead.slot = Issued /\ IssuedRead.gen = pend[Issued].gen
        /\ IssuedRead.page = pend[Issued].tag
    BY DEF IssuedRead
  <2>3. Wins(IssuedRead.slot, IssuedRead.gen)
    BY <1>1, <2>2 DEF Wins
  <2>4. \A c : Wins(c.slot, c.gen)' <=> Wins(c.slot, c.gen)
    BY <1>4 DEF Wins
  <2>5. QED
    BY <1>4, <2>1, <2>2, <2>3, <2>4 DEF Rows, Landing
<1>10. RowsKept'
  BY <1>4 DEF Rows, RowsKept
<1>11. QED
  BY <1>7, <1>8, <1>9, <1>10 DEF Rows

\* Starting on a chain, with the page in the buffer if rows are to be copied.
LEMMA RowStart ==
  ASSUME OwnInv, Rows, NEW t \in Threads, NEW s \in Slots, NEW good \in BOOLEAN,
         StartDelivery(t, s, good), good => staging'[s] = pend[s].tag,
         cur'["issuer"] = cur["issuer"], dpc[t] = None,
         UNCHANGED <<conf, pend, backendVars, cqe, cq>>,
         \A x \in Slots : staging'[x] = staging[x] \/ staging'[x] = pend[x].tag
  PROVE  Rows'
<1> USE DEF OwnInv, TypeInv, TypeOK
<1>1. /\ cur'[t] = s /\ dpc'[t] = "row" /\ left'[t] = pend[s].waiters /\ ok'[t] = good
      /\ \A u \in Threads \ {t} : /\ cur'[u] = cur[u] /\ dpc'[u] = dpc[u]
                                  /\ left'[u] = left[u] /\ ok'[u] = ok[u]
  BY DEF StartDelivery, DeliverType
<1>2. \A u \in Threads : dpc[u] # None => cur[u] \in Slots
  BY AtHand
<1>3. Chains'
  BY <1>1 DEF Rows, Chains
<1>4. Staged'
  <2>1. \A u \in Threads : dpc'[u] # None /\ ok'[u] => staging'[cur'[u]] = pend'[cur'[u]].tag
    BY <1>1, <1>2 DEF Rows, Staged
  <2>2. QED
    BY <2>1 DEF Rows, Staged, Issued
<1>5. Landing'
  BY DEF Rows, Landing, Wins, backendVars
<1>6. RowsKept'
  BY DEF Rows, RowsKept
<1>7. QED
  BY <1>3, <1>4, <1>5, <1>6 DEF Rows

LEMMA RowIssuer ==
  ASSUME OwnInv, CreditInv, Rows, IssuerStep,
         ~(\E t \in Threads : CopyRow(t) \/ ReadCqHead(t) \/ PostCqe(t))
  PROVE  Rows'
<1> USE DEF OwnInv, TypeInv, TypeOK
<1>1. CASE DrainReturns
  <2>1. pend_return \in SUBSET Slots /\ FreeSlots(pend_return)
    BY <1>1 DEF DrainReturns, ReaperType
  <2>2. Issued = None /\ Issued' = Issued
    BY <1>1 DEF DrainReturns, Hands, Issued, deliverVars
  <2>3. \A c \in io : c.slot \in pend_return => ~Wins(c.slot, c.gen)
    BY DEF Owned, Wins, BackendType, Read
  <2>4. \A t \in Threads : dpc[t] # None => cur[t] \notin pend_return
    BY <2>1, AtHand DEF Owned, Threads
  <2>5. UNCHANGED <<conf, backendVars, left, cq, cqe, dpc, cur, ok>>
    BY <1>1 DEF DrainReturns, deliverVars, cqVars
  <2>6. QED
    BY <2>1, <2>2, <2>3, <2>4, <2>5, RowFree
<1>2. CASE \/ PopReq \/ FillOver \/ Seal \/ KeepFilling \/ Defer \/ WindowDone
           \/ Bin \/ EvictFull \/ BinOver \/ EvictFullest \/ KeepBinned
  <2>1. UNCHANGED <<conf, slotVars, backendVars, cur, dpc, left, ok, cqe, cq>>
    BY <1>2 DEF PopReq, FillOver, Seal, KeepFilling, Defer, WindowDone, Bin, EvictFull, BinOver,
                EvictFullest, KeepBinned, deliverVars, cqVars
  <2>2. RowsKept'
    BY <2>1 DEF Rows, RowsKept
  <2>3. QED
    BY <2>1, <2>2, RowSame
<1>3. CASE Issue
  BY <1>3, RowIssue
<1>4. CASE Accept
  BY <1>4, RowAccept
<1>5. CASE Again \/ InlineDone
  <2>1. Issued \in Slots /\ FreeSlots({Issued}) /\ Issued # None
    BY <1>5, CoalesceAssumption DEF Again, InlineDone, Hands, Issued, DeliverType, Threads
  <2>2. Issued' = None
    BY <1>5 DEF Again, InlineDone, EndDelivery, Issued, DeliverType, Threads
  <2>3. \A c \in io : c.slot \in {Issued} => ~Wins(c.slot, c.gen)
    BY DEF Owned, Wins
  <2>4. UNCHANGED <<conf, backendVars, left, cq, cqe>>
    BY <1>5 DEF Again, InlineDone, cqVars
  <2>5. \A t \in Threads : dpc'[t] # None => /\ dpc[t] # None /\ cur'[t] = cur[t] /\ ok'[t] = ok[t]
                                             /\ t = "reaper"
    BY <1>5 DEF Again, InlineDone, EndDelivery, Hands, DeliverType, Threads
  <2>6. \A t \in Threads : dpc'[t] # None => cur[t] # Issued
    BY <2>1, <2>5, AtHand DEF Owned
  <2>7. QED
    BY <2>1, <2>2, <2>3, <2>4, <2>5, <2>6, RowFree
<1>6. CASE Refuse \/ FillSync
  <2>1. Issued \in Slots /\ Issued # None /\ dpc["issuer"] = None
    BY <1>6, CoalesceAssumption DEF Refuse, FillSync, Hands, Issued, DeliverType, Threads
  <2>2. \A x \in Slots : staging'[x] = staging[x] \/ staging'[x] = pend[x].tag
    BY <1>6, <2>1 DEF Refuse, FillSync, SlotType, slotVars
  <2>3. PICK good \in BOOLEAN : /\ StartDelivery("issuer", Issued, good)
                                /\ good => staging'[Issued] = pend[Issued].tag
    BY <1>6, <2>1 DEF Refuse, FillSync, SlotType, slotVars
  <2>4. cur'["issuer"] = cur["issuer"]
    BY <2>3 DEF StartDelivery, Issued, DeliverType, Threads
  <2>5. UNCHANGED <<conf, pend, backendVars, cqe, cq>>
    BY <1>6 DEF Refuse, FillSync, slotVars, cqVars
  <2>6. QED
    BY <2>1, <2>2, <2>3, <2>4, <2>5, RowStart DEF Threads
<1>7. QED
  BY <1>1, <1>2, <1>3, <1>4, <1>5, <1>6 DEF IssuerStep, Threads

\* Copying a row, and posting it.
LEMMA RowDeliver ==
  ASSUME OwnInv, Rows, NEW t \in Threads, CopyRow(t) \/ ReadCqHead(t) \/ PostCqe(t)
  PROVE  Rows'
<1> USE DEF OwnInv, TypeInv, TypeOK
<1>1. /\ UNCHANGED <<conf, slotVars, backendVars, cur, ok>> /\ dpc[t] # None
      /\ \A u \in Threads : dpc'[u] # None => dpc[u] # None /\ left'[u] \subseteq left[u]
  BY DEF CopyRow, ReadCqHead, PostCqe, DeliverType, None
<1>2. Chains' /\ Staged' /\ Landing'
  BY <1>1 DEF Rows, Chains, Staged, Landing, Wins, Issued, slotVars, backendVars
<1>3. RowsKept'
  <2>1. CASE CopyRow(t)
    <3>1. PICK r \in left[t] : cqe' = [cqe EXCEPT ![t] =
              [req |-> r, ok |-> ok[t], data |-> IF ok[t] THEN staging[cur[t]] ELSE NoPage]]
      BY <2>1 DEF CopyRow
    <3>2. ok[t] => staging[cur[t]] = PageOf[r]
      BY <1>1, AtHand DEF Rows, Chains, Staged
    <3>3. OwnPage(cqe'[t])
      BY <3>1, <3>2 DEF OwnPage, DeliverType
    <3>4. \A u \in Threads \ {t} : cqe'[u] = cqe[u]
      BY <3>1 DEF DeliverType
    <3>5. cq' = cq
      BY <2>1 DEF CopyRow, cqVars
    <3>6. QED
      BY <3>3, <3>4, <3>5 DEF Rows, RowsKept
  <2>2. CASE ReadCqHead(t)
    BY <2>2 DEF ReadCqHead, Rows, RowsKept, cqVars
  <2>3. CASE PostCqe(t)
    <3>1. OwnPage(NoCqe)
      BY DEF OwnPage, NoCqe
    <3>2. \A c \in Cells : cq'[c] = cq[c] \/ cq'[c] = cqe[t]
      BY <2>3 DEF PostCqe, CqType
    <3>3. \A u \in Threads : cqe'[u] = cqe[u] \/ cqe'[u] = NoCqe
      BY <2>3 DEF PostCqe, DeliverType
    <3>4. QED
      BY <3>1, <3>2, <3>3 DEF Rows, RowsKept
  <2>4. QED
    BY <2>1, <2>2, <2>3
<1>4. QED
  BY <1>2, <1>3 DEF Rows

LEMMA RowReaper ==
  ASSUME Sound, OwnInv, Rows, ~LateDmaPossible,
         ReaperLap \/ ReapPage \/ PageDone \/ ReaperLapDone
  PROVE  Rows'
<1> USE DEF OwnInv, TypeInv, TypeOK
<1>1. CASE ReaperLap
  <2>1. PICK old \in SUBSET {s \in Slots : conf.timeouts /\ pend[s].state = "ISSUED"} :
          pend' = [s \in Slots |-> IF s \in old THEN [pend[s] EXCEPT !.state = "ERROR"]
                                                ELSE pend[s]]
    BY <1>1 DEF ReaperLap
  <2>2. \A s \in Slots :
          /\ pend'[s].tag = pend[s].tag /\ pend'[s].waiters = pend[s].waiters
          /\ pend'[s].gen = pend[s].gen
          /\ \/ pend'[s].state = pend[s].state
             \/ conf.timeouts /\ pend'[s].state = "ERROR" /\ pend[s].state = "ISSUED"
    BY <2>1, PendType DEF Pend
  <2>3. UNCHANGED <<conf, staging, io, echoes, cur, dpc, left, ok, cqe, cq>>
    BY <1>1 DEF ReaperLap, backendVars, deliverVars, cqVars
  <2>4. \A t \in Threads : dpc[t] # None => cur[t] \in Slots
    BY AtHand
  <2>5. \A c \in io \cup echoes : c.slot \in Slots
    BY DEF BackendType, Read
  <2>6. Chains'
    BY <2>2, <2>3, <2>4 DEF Rows, Chains
  <2>7. Staged'
    <3>1. \A t \in Threads : dpc'[t] # None /\ ok'[t] => staging'[cur'[t]] = pend'[cur'[t]].tag
      BY <2>2, <2>3, <2>4 DEF Rows, Staged
    <3>2. QED
      BY <2>2, <2>3, <3>1 DEF Rows, Staged, Issued
  <2>8. Landing'
    <3>1. \A s \in Slots, g \in 0 .. Gens - 1 : Wins(s, g)' => Wins(s, g)
      BY <2>2 DEF Wins
    <3>2. conf.kind = "device" => \A s \in Slots : pend'[s].state = pend[s].state
      BY <2>2 DEF LateDmaPossible
    <3>3. QED
      BY <2>2, <2>3, <2>5, <3>2 DEF Rows, Landing, Wins
  <2>9. RowsKept'
    BY <2>3 DEF Rows, RowsKept
  <2>10. QED
    BY <2>6, <2>7, <2>8, <2>9 DEF Rows
<1>2. CASE ReapPage
  <2>1. PICK s \in rlist : StartDelivery("reaper", s, pend[s].state # "ERROR")
    BY <1>2 DEF ReapPage
  <2>2. s \in Slots /\ pend[s].state \in {"DONE", "ERROR"} /\ dpc["reaper"] = None
    BY <1>2 DEF ReapPage, ReaperType, Owned, Hands
  <2>3. cur'["issuer"] = cur["issuer"]
    BY <2>1 DEF StartDelivery, DeliverType, Threads
  <2>4. UNCHANGED <<conf, pend, staging, backendVars, cqe, cq>>
    BY <1>2 DEF ReapPage, slotVars, cqVars
  <2>5. (pend[s].state # "ERROR") => staging[s] = pend[s].tag
    BY <2>2 DEF Rows, Staged
  <2>6. (pend[s].state # "ERROR") \in BOOLEAN
    OBVIOUS
  <2>7. QED
    BY <2>1, <2>2, <2>3, <2>4, <2>5, <2>6, RowStart DEF Threads
<1>3. CASE PageDone
  <2>1. UNCHANGED <<conf, slotVars, backendVars, left, cqe, cq>>
    BY <1>3 DEF PageDone, cqVars
  <2>2. /\ dpc'["reaper"] = None
        /\ dpc'["issuer"] = dpc["issuer"] /\ cur'["issuer"] = cur["issuer"]
        /\ ok'["issuer"] = ok["issuer"]
    BY <1>3 DEF PageDone, EndDelivery, DeliverType, Threads
  <2>3. QED
    BY <2>1, <2>2 DEF Rows, Chains, Staged, Landing, RowsKept, Wins, Issued, Threads, slotVars, backendVars
<1>4. CASE ReaperLapDone
  BY <1>4 DEF ReaperLapDone, Rows, Chains, Staged, Landing, RowsKept, Wins, Issued, slotVars, backendVars, deliverVars, cqVars
<1>5. QED
  BY <1>1, <1>2, <1>3, <1>4

\* A read is what its fields are, and a provider is of one of three kinds.
LEMMA ReadSame ==
  ASSUME NEW c \in Read, NEW d \in Read, c.slot = d.slot, c.gen = d.gen, c.page = d.page
  PROVE  c = d
BY DEF Read

LEMMA ConfKind == \A c \in Configs : c.kind \in {"sync", "model", "device"}
BY CoalesceAssumption DEF Config

\* A completion: it wins and is for the page of its slot, or it is stale and a
\* device, whose buffer it would have written, never sends it.
LEMMA RowBackend ==
  ASSUME OwnInv, Rows, ~LateDmaPossible,
         NEW c \in io \cup echoes, Complete(c) \/ Lose(c) \/ Echo(c)
  PROVE  Rows'
<1> USE DEF OwnInv, TypeInv, TypeOK
<1>1. c \in Read /\ c.slot \in Slots
  BY DEF BackendType, Read
<1>2. UNCHANGED <<conf, cur, dpc, left, ok, cqe, cq>>
  BY DEF Complete, Lose, Echo, deliverVars, cqVars
<1>3. RowsKept'
  BY <1>2 DEF Rows, RowsKept
<1>4. CASE Lose(c)
  BY <1>2, <1>3, <1>4 DEF Lose, Rows, Chains, Staged, Landing, Wins, Issued, slotVars
<1>5. CASE Complete(c) \/ Echo(c)
  <2>1. PICK good \in BOOLEAN :
          /\ Upcall(c.slot, c.gen, good)
          /\ \/ staging' = staging /\ ~(Complete(c) /\ conf.kind = "device" /\ good)
             \/ /\ Complete(c) /\ conf.kind = "device" /\ good
                /\ staging' = [staging EXCEPT ![c.slot] = c.page]
    BY <1>5 DEF Complete, Echo
  <2>2. /\ conf.kind = "device" => (Wins(c.slot, c.gen) <=> Complete(c))
        /\ conf.kind # "sync"
    BY <1>5 DEF Complete, Echo, Rows, Landing
  <2>3. Wins(c.slot, c.gen) => c.page = pend[c.slot].tag /\ c.slot # Issued
    BY DEF Rows, Landing, Wins, Owned
  <2>4. \A x \in Slots : /\ pend'[x].tag = pend[x].tag /\ pend'[x].waiters = pend[x].waiters
                         /\ pend'[x].gen = pend[x].gen
                         /\ x # c.slot \/ ~Wins(c.slot, c.gen) => pend'[x].state = pend[x].state
    <3>1. CASE Wins(c.slot, c.gen)
      <4>1. pend' = [pend EXCEPT ![c.slot] = [@ EXCEPT !.state = IF good THEN "DONE" ELSE "ERROR"]]
        BY <2>1, <3>1 DEF Upcall
      <4>2. pend'[c.slot] = [pend[c.slot] EXCEPT !.state = IF good THEN "DONE" ELSE "ERROR"]
        BY <1>1, <4>1 DEF SlotType
      <4>3. \A x \in Slots \ {c.slot} : pend'[x] = pend[x]
        BY <4>1 DEF SlotType
      <4>4. pend[c.slot] \in Pend
        BY <1>1, PendType
      <4>5. QED
        BY <3>1, <4>2, <4>3, <4>4 DEF Pend
    <3>2. CASE ~Wins(c.slot, c.gen)
      BY <2>1, <3>2 DEF Upcall
    <3>3. QED
      BY <3>1, <3>2
  <2>5. Wins(c.slot, c.gen) => pend'[c.slot].state = IF good THEN "DONE" ELSE "ERROR"
    <3>1. pend[c.slot] \in Pend
      BY <1>1, PendType
    <3>2. Wins(c.slot, c.gen) =>
            pend'[c.slot] = [pend[c.slot] EXCEPT !.state = IF good THEN "DONE" ELSE "ERROR"]
      BY <1>1, <2>1 DEF Upcall, SlotType
    <3>3. QED
      BY <3>1, <3>2 DEF Pend
  <2>6. \A x \in Slots : \/ staging'[x] = staging[x]
                         \/ x = c.slot /\ Wins(c.slot, c.gen) /\ staging'[x] = pend[x].tag
    BY <1>1, <2>1, <2>2, <2>3 DEF SlotType
  <2>7. \A t \in Threads : dpc[t] # None => cur[t] \in Slots
    BY AtHand
  <2>8. Chains'
    BY <1>2, <2>4, <2>7 DEF Rows, Chains
  <2>9. Staged'
    <3>1. Wins(c.slot, c.gen) /\ good => staging'[c.slot] = pend[c.slot].tag
      <4>1. CASE conf.kind = "device"
        BY <1>1, <2>1, <2>2, <2>3, <4>1 DEF SlotType
      <4>2. CASE conf.kind = "model"
        BY <1>1, <2>1, <2>3, <4>2 DEF Rows, Staged, Wins
      <4>3. QED
        BY <1>1, <2>2, <4>1, <4>2, ConfKind DEF ClientType
    <3>2. \A x \in Slots : pend'[x].state = "DONE" => staging'[x] = pend'[x].tag
      BY <2>4, <2>5, <2>6, <3>1 DEF Rows, Staged
    <3>3. \A x \in Slots : conf.kind = "model" /\ pend'[x].state # "FREE" /\ x # Issued
                             => staging'[x] = pend'[x].tag
      BY <2>4, <2>5, <2>6 DEF Rows, Staged, Wins
    <3>4. \A t \in Threads : dpc[t] # None /\ ok[t] => staging'[cur[t]] = pend'[cur[t]].tag
      BY <2>4, <2>6, <2>7 DEF Rows, Staged
    <3>5. QED
      BY <1>2, <3>2, <3>3, <3>4 DEF Staged, Issued
  <2>10. Landing'
    <3>1. \A d \in io \cup echoes : Wins(d.slot, d.gen)' =>
             Wins(d.slot, d.gen) /\ ~(d.slot = c.slot /\ d.gen = c.gen)
      BY <1>1, <2>4, <2>5 DEF Wins, BackendType, Read
    <3>2. \A d \in io \cup echoes : Wins(d.slot, d.gen) /\ ~(d.slot = c.slot /\ d.gen = c.gen)
             => Wins(d.slot, d.gen)'
      BY <1>1, <2>4, <2>5 DEF Wins, BackendType, Read
    <3>3. \A d \in io \cup echoes : d.slot \in Slots
      BY DEF BackendType, Read
    <3>4. /\ Complete(c) => io' = io \ {c} /\ echoes' \subseteq echoes \cup {c}
          /\ Echo(c) => io' = io /\ echoes' \subseteq echoes
      BY DEF Complete, Echo
    <3>5. ASSUME NEW d \in io, Wins(d.slot, d.gen), d.slot = c.slot, d.gen = c.gen
          PROVE  d = c
      <4>1. d \in Read
        BY DEF BackendType
      <4>2. d.page = pend[d.slot].tag
        BY <3>5 DEF Rows, Landing
      <4>3. c.page = pend[c.slot].tag
        BY <2>3, <3>5
      <4>4. QED
        BY <1>1, <3>5, <4>1, <4>2, <4>3, ReadSame
    <3>6. \A d \in io' \cup echoes' : Wins(d.slot, d.gen)' => d.page = pend'[d.slot].tag
      BY <1>5, <2>4, <3>1, <3>3, <3>4 DEF Rows, Landing
    <3>7. conf.kind = "device" => \A d \in io' : Wins(d.slot, d.gen)'
      BY <1>5, <2>2, <2>4, <3>2, <3>3, <3>4, <3>5 DEF Rows, Landing, Wins
    <3>8. conf.kind = "device" => \A d \in echoes' : ~Wins(d.slot, d.gen)'
      BY <1>5, <2>2, <3>1, <3>4 DEF Rows, Landing
    <3>9. QED
      BY <1>2, <2>2, <3>6, <3>7, <3>8 DEF Landing
  <2>11. QED
    BY <1>3, <2>8, <2>9, <2>10 DEF Rows
<1>6. QED
  BY <1>4, <1>5

LEMMA RowNext ==
  ASSUME Sound
  PROVE  RowInv /\ [Next]_vars => RowInv'
<1> SUFFICES ASSUME RowInv, [Next]_vars PROVE RowInv'
  OBVIOUS
<1>1. OwnInv /\ CreditInv /\ CreditInv'
  BY CreditNext DEF RowInv, CreditInv
<1>2. LateDmaPossible' = LateDmaPossible
  <2>1. conf' = conf
    BY DEF Next, IssuerStep, ReaperStep, Push, Collect, DrainReturns, PopReq, FillOver, Seal, KeepFilling,
           Bin, EvictFull, BinOver, EvictFullest, KeepBinned, Issue, Defer, Accept, Again, Refuse, FillSync,
           InlineDone, WindowDone, CopyRow, ReadCqHead, PostCqe, ReaperLap, ReapPage, PageDone,
           ReaperLapDone, Complete, Lose, Echo, vars
  <2>2. QED
    BY <2>1 DEF LateDmaPossible
<1>3. SUFFICES ASSUME ~LateDmaPossible, Rows PROVE Rows'
  BY <1>1, <1>2 DEF RowInv
<1>4. CASE \E r \in Reqs : Push(r)
  <2>1. UNCHANGED <<conf, slotVars, backendVars, cur, dpc, left, ok, cqe, cq>>
    BY <1>4 DEF Push, deliverVars, cqVars
  <2>2. RowsKept'
    BY <1>3, <2>1 DEF Rows, RowsKept
  <2>3. QED
    BY <1>3, <2>1, <2>2, RowSame
<1>5. CASE Collect
  <2>1. UNCHANGED <<conf, slotVars, backendVars, cur, dpc, left, ok, cqe>>
    BY <1>5 DEF Collect, deliverVars
  <2>2. \A c \in Cells : cq'[c] = cq[c] \/ cq'[c] = NoCqe
    BY <1>1, <1>5 DEF Collect, OwnInv, TypeInv, TypeOK, CqType
  <2>3. OwnPage(NoCqe)
    BY DEF OwnPage, NoCqe
  <2>4. RowsKept'
    BY <1>3, <2>1, <2>2, <2>3 DEF Rows, RowsKept
  <2>5. QED
    BY <1>3, <2>1, <2>4, RowSame
<1>6. CASE IssuerStep \/ ReaperStep
  <2>1. CASE \E t \in Threads : CopyRow(t) \/ ReadCqHead(t) \/ PostCqe(t)
    BY <1>1, <1>3, <2>1, RowDeliver
  <2>2. CASE ~ \E t \in Threads : CopyRow(t) \/ ReadCqHead(t) \/ PostCqe(t)
    BY <1>1, <1>3, <1>6, <2>2, RowIssuer, RowReaper DEF ReaperStep, Threads
  <2>3. QED
    BY <2>1, <2>2
<1>7. CASE \/ \E c \in io : Complete(c) \/ Lose(c)
           \/ \E c \in echoes : Echo(c)
  BY <1>1, <1>3, <1>7, RowBackend
<1>8. CASE UNCHANGED vars
  <2>1. UNCHANGED <<conf, slotVars, backendVars, cur, dpc, left, ok, cqe, cq>>
    BY <1>8 DEF vars, deliverVars, cqVars
  <2>2. RowsKept'
    BY <1>3, <2>1 DEF Rows, RowsKept
  <2>3. QED
    BY <1>3, <2>1, <2>2, RowSame
<1>9. QED
  BY <1>4, <1>5, <1>6, <1>7, <1>8 DEF Next

LEMMA RowsPosted == RowInv => RowsAreOwn
<1> SUFFICES ASSUME RowInv, ~LateDmaPossible, NEW i \in DOMAIN Posted PROVE OwnPage(Posted[i])
  BY DEF RowsAreOwn
<1>1. cq_head \in Int /\ cq_tail \in Int
  BY DEF RowInv, CreditInv, OwnInv, TypeInv, TypeOK, CqType
<1>2. i \in Int
  BY DEF Posted
<1>3. Wrap(cq_tail + i - 1) \in Int
  BY <1>1, <1>2, CoalesceAssumption DEF Wrap
<1>4. Wrap(cq_tail + i - 1) % CqEntries \in Cells
  BY <1>3, CoalesceAssumption, ModRange DEF Cells
<1>5. Posted[i] = cq[Wrap(cq_tail + i - 1) % CqEntries]
  BY DEF Posted
<1>6. QED
  BY <1>4, <1>5 DEF RowInv, Rows, RowsKept

\* Unless the two roles are split and reads time out, a completion without
\* error carries the row of the request's own page: not the page of an earlier
\* or later occupant of the staging buffer, whatever is late, repeated, failed
\* or refused.  A device whose reads time out is excluded by RowsAreOwn itself.
THEOREM RowsOwn ==
  ASSUME Sound
  PROVE  Spec => []RowsAreOwn
<1>1. RowInv /\ [Next]_vars => RowInv'
  BY RowNext
<1>2. QED
  BY <1>1, RowInit, RowsPosted, PTL DEF Spec
-----------------------------------------------------------------------------
(* One thread posts completions.                                            *)

\* The issuer's window, and the run it has in hand.
WindowKept ==
  /\ ipc \in {"issue", "submit", "deliver"} => sealed
  /\ ipc \in {"fill", "check", "bin", "evict"} => ~sealed
  /\ ipc = "evict" => win = {}
  /\ InHand \subseteq todo

\* No provider that may refuse a read where the roles are split: there the
\* issuer would answer the run while the reaper posts completions of its own.
OneWriter == \A c \in Configs : ~(c.split /\ c.refuse)

\* The issuer answers only what was refused or read at once; where the roles
\* are split it is then the only one with anything to answer.
OnePoster ==
  /\ ~(conf.split /\ (conf.refuse \/ conf.timeouts))
  /\ ipc = "deliver" => conf.kind = "sync" \/ conf.refuse
  /\ conf.kind = "sync" /\ conf.split
       => io = {} /\ echoes = {} /\ done_list = {} /\ rlist = {}

\* A completion is under way from CopyRow to PostCqe.
CqeKept ==
  \A t \in Threads :
    /\ cqe[t] = NoCqe <=> dpc[t] \notin {"post", "store"}
    /\ cqe[t].req \notin left[t]

ShapeInv == CreditInv /\ WindowKept /\ OnePoster /\ CqeKept

OneHand == dpc["issuer"] # None => rlist = {} /\ dpc["reaper"] = None

LEMMA HandsTaken == OwnInv /\ OnePoster => OneHand
<1> SUFFICES ASSUME OwnInv, OnePoster, dpc["issuer"] # None PROVE rlist = {} /\ dpc["reaper"] = None
  BY DEF OneHand
<1>1. ipc = "deliver"
  BY DEF OwnInv, TypeInv, Hands
<1>2. rlist = {}
  BY <1>1 DEF OwnInv, TypeInv, TypeOK, ReaperType, Hands, OnePoster
<1>3. QED
  BY <1>2 DEF OwnInv, TypeInv, Hands

LEMMA ShapeInit ==
  ASSUME Sound, OneWriter
  PROVE  Init => ShapeInv
<1> SUFFICES ASSUME Init PROVE WindowKept /\ OnePoster /\ CqeKept
  BY CreditInit DEF ShapeInv
<1>1. WindowKept
  BY DEF Init, WindowKept, InHand, Threads
<1>2. OnePoster
  BY DEF Init, OnePoster, OneWriter, Sound
<1>3. CqeKept
  BY DEF Init, CqeKept, None
<1>4. QED
  BY <1>1, <1>2, <1>3

\* No step changes the configuration.
LEMMA ConfSame == [Next]_vars => conf' = conf
BY DEF Next, IssuerStep, ReaperStep, Push, Collect, DrainReturns, PopReq, FillOver, Seal,
       KeepFilling, Bin, EvictFull, BinOver, EvictFullest, KeepBinned, Issue, Defer, Accept,
       Again, Refuse, FillSync, InlineDone, WindowDone, CopyRow, ReadCqHead, PostCqe,
       ReaperLap, ReapPage, PageDone, ReaperLapDone, Complete, Lose, Echo, vars

\* A completion or a timeout leaves every chain alone.
LEMMA ChainsSame ==
  ASSUME OwnInv, ReaperLap \/ \E c \in io \cup echoes : Complete(c) \/ Lose(c) \/ Echo(c)
  PROVE  \A s \in Slots : pend'[s].waiters = pend[s].waiters
<1> USE DEF OwnInv, TypeInv, TypeOK
<1>1. CASE ReaperLap
  <2>1. \A s \in Slots : pend'[s] = pend[s] \/ pend'[s] = [pend[s] EXCEPT !.state = "ERROR"]
    BY <1>1 DEF ReaperLap
  <2>2. \A s \in Slots : pend[s] \in Pend
    BY PendType
  <2>3. QED
    BY <2>1, <2>2 DEF Pend
<1>2. ASSUME NEW c \in io \cup echoes, Complete(c) \/ Lose(c) \/ Echo(c)
      PROVE  \A s \in Slots : pend'[s].waiters = pend[s].waiters
  <2>1. CASE Lose(c)
    BY <2>1 DEF Lose, slotVars
  <2>2. CASE Complete(c) \/ Echo(c)
    <3>1. PICK good \in BOOLEAN : Upcall(c.slot, c.gen, good)
      BY <2>2 DEF Complete, Echo
    <3>2. \A s \in Slots :
            \/ pend'[s] = pend[s]
            \/ pend'[s] = [pend[s] EXCEPT !.state = IF good THEN "DONE" ELSE "ERROR"]
      BY <3>1 DEF Upcall, SlotType
    <3>3. \A s \in Slots : pend[s] \in Pend
      BY PendType
    <3>4. QED
      BY <3>2, <3>3 DEF Pend
  <2>3. QED
    BY <1>2, <2>1, <2>2
<1>3. QED
  BY <1>1, <1>2

LEMMA WindowNext ==
  ASSUME ShapeInv, [Next]_vars
  PROVE  WindowKept'
<1> USE DEF ShapeInv, CreditInv, OwnInv, TypeInv, TypeOK
<1>1. ASSUME UNCHANGED <<ipc, sealed, win, todo>>, Issued' = Issued,
             \A s \in Slots : pend'[s].waiters = pend[s].waiters
      PROVE  WindowKept'
  <2>1. InHand' = InHand
    BY <1>1 DEF InHand, Issued, DeliverType, Threads
  <2>2. QED
    BY <1>1, <2>1 DEF WindowKept
<1>2. ASSUME Issued' = None
      PROVE  InHand' = {}
  BY <1>2 DEF InHand, Issued
<1>3. CASE \/ DrainReturns \/ PopReq \/ FillOver \/ Seal \/ KeepFilling \/ Defer \/ WindowDone
           \/ Bin \/ EvictFull \/ BinOver \/ EvictFullest \/ KeepBinned \/ ReaperLapDone
           \/ Accept \/ Again \/ InlineDone
  <2>1. ReaperLapDone => ipc \notin {"submit", "deliver"} \/ conf.split
    BY DEF ReaperLapDone, Hands
  <2>2. CASE ReaperLapDone /\ conf.split
    BY <1>1, <2>2 DEF ReaperLapDone, windowVars, slotVars, deliverVars, Issued
  <2>3. CASE ~(ReaperLapDone /\ conf.split)
    <3>1. Issued' = None
      BY <1>3, <2>1, <2>3
      DEF DrainReturns, PopReq, FillOver, Seal, KeepFilling, Defer, WindowDone, Bin, Binning, EvictFull,
          BinOver, EvictFullest, KeepBinned, ReaperLapDone, Accept, Again, InlineDone, EndDelivery,
          Hands, Issued, DeliverType, Threads, deliverVars
    <3>2. QED
      BY <1>2, <1>3, <2>1, <2>3, <3>1
      DEF DrainReturns, PopReq, FillOver, Seal, KeepFilling, Defer, WindowDone, Bin, Binning, EvictFull,
          Evict, BinOver, EvictFullest, KeepBinned, ReaperLapDone, Accept, Again, InlineDone,
          IssuerLapOver, WindowKept, windowVars, bucketVars
  <2>4. QED
    BY <2>2, <2>3
<1>4. CASE Issue
  <2>1. PICK R \in NextRuns, s \in pend_free :
          /\ pend' = [pend EXCEPT ![s] = [state |-> "ISSUED", gen |-> NextGen(s),
                                          tag |-> PageOf[CHOOSE r \in R : TRUE],
                                          waiters |-> R]]
          /\ cur' = [cur EXCEPT !["issuer"] = s]
    BY <1>4 DEF Issue
  <2>2. InHand' = R
    BY <2>1, CoalesceAssumption DEF InHand, DeliverType, SlotType, Threads
  <2>3. R \subseteq todo
    BY DEF NextRuns
  <2>4. QED
    BY <1>4, <2>2, <2>3 DEF Issue, WindowKept, windowVars
<1>5. CASE Refuse \/ FillSync
  <2>1. Issued' = Issued /\ pend' = pend
    BY <1>5 DEF Refuse, FillSync, StartDelivery, Issued, DeliverType, Threads, slotVars
  <2>2. InHand' = InHand
    BY <2>1 DEF InHand, Issued
  <2>3. QED
    BY <1>5, <2>2 DEF Refuse, FillSync, WindowKept, windowVars
<1>6. CASE (\E r \in Reqs : Push(r)) \/ Collect \/ UNCHANGED vars
           \/ ReapPage \/ PageDone \/ \E t \in Threads : CopyRow(t) \/ ReadCqHead(t) \/ PostCqe(t)
  <2>1. UNCHANGED <<ipc, sealed, win, todo, pend>> /\ Issued' = Issued
    BY <1>6 DEF Push, Collect, ReapPage, PageDone, CopyRow, ReadCqHead, PostCqe, StartDelivery,
                EndDelivery, Issued, DeliverType, Threads, windowVars, slotVars, deliverVars, vars
  <2>2. QED
    BY <1>1, <2>1
<1>7. CASE ReaperLap \/ \E c \in io \cup echoes : Complete(c) \/ Lose(c) \/ Echo(c)
  <2>1. UNCHANGED <<ipc, sealed, win, todo, cur>>
    BY <1>7 DEF ReaperLap, Complete, Lose, Echo, windowVars, deliverVars
  <2>2. QED
    BY <1>1, <1>7, <2>1, ChainsSame DEF Issued
<1>8. QED
  BY <1>3, <1>4, <1>5, <1>6, <1>7 DEF Next, IssuerStep, ReaperStep, Threads

LEMMA PosterNext ==
  ASSUME ShapeInv, [Next]_vars
  PROVE  OnePoster'
<1> USE DEF ShapeInv, CreditInv, OwnInv, TypeInv, TypeOK
<1>1. conf' = conf
  BY ConfSame
<1>2. ipc' = "deliver" => conf.kind = "sync" \/ conf.refuse
  BY DEF Next, IssuerStep, ReaperStep, Push, Collect, DrainReturns, PopReq, FillOver, Seal,
         KeepFilling, Bin, EvictFull, Evict, BinOver, EvictFullest, KeepBinned, Issue, Defer, Accept,
         Again, Refuse, FillSync, InlineDone, WindowDone, CopyRow, ReadCqHead, PostCqe, IssuerLapOver,
         ReaperLap, ReapPage, PageDone, ReaperLapDone, Complete, Lose, Echo, vars, OnePoster
<1>3. SUFFICES ASSUME conf.kind = "sync", conf.split
               PROVE  io' = {} /\ echoes' = {} /\ done_list' = {} /\ rlist' = {}
  BY <1>1, <1>2 DEF OnePoster
<1>4. io = {} /\ echoes = {} /\ done_list = {} /\ rlist = {} /\ ~conf.timeouts
  BY <1>3 DEF OnePoster
<1>5. CASE ReaperLap
  BY <1>4, <1>5 DEF ReaperLap, backendVars
<1>6. CASE ~ReaperLap
  BY <1>3, <1>4, <1>6
  DEF Next, IssuerStep, ReaperStep, Push, Collect, DrainReturns, PopReq, FillOver, Seal,
      KeepFilling, Bin, EvictFull, BinOver, EvictFullest, KeepBinned, Issue, Defer, Accept,
      Again, Refuse, FillSync, InlineDone, WindowDone, CopyRow, ReadCqHead, PostCqe,
      ReapPage, PageDone, ReaperLapDone, vars, backendVars, reaperVars
<1>7. QED
  BY <1>5, <1>6

LEMMA CqeNext ==
  ASSUME ShapeInv, [Next]_vars
  PROVE  CqeKept'
<1> USE DEF ShapeInv, CreditInv, OwnInv, TypeInv, TypeOK
<1>1. ASSUME UNCHANGED <<dpc, left, cqe>>
      PROVE  CqeKept'
  BY <1>1 DEF CqeKept
<1>2. ASSUME NEW t \in Threads, NEW s \in Slots, NEW good \in BOOLEAN,
             StartDelivery(t, s, good), dpc[t] = None, cqe' = cqe
      PROVE  CqeKept'
  <2>1. /\ dpc'[t] = "row" /\ left'[t] \subseteq Reqs /\ cqe[t] = NoCqe
        /\ \A u \in Threads \ {t} : dpc'[u] = dpc[u] /\ left'[u] = left[u]
    BY <1>2, PendType DEF StartDelivery, DeliverType, CqeKept, None
  <2>2. cqe[t].req \notin Reqs
    BY <2>1, CoalesceAssumption DEF NoCqe
  <2>3. QED
    BY <1>2, <2>1, <2>2 DEF CqeKept
<1>3. ASSUME NEW t \in Threads, EndDelivery(t), dpc[t] = "row", UNCHANGED <<left, cqe>>
      PROVE  CqeKept'
  <2>1. dpc'[t] = None /\ \A u \in Threads \ {t} : dpc'[u] = dpc[u]
    BY <1>3 DEF EndDelivery, DeliverType
  <2>2. QED
    BY <1>3, <2>1 DEF CqeKept, None
<1>4. CASE Refuse \/ FillSync
  BY <1>2, <1>4 DEF Refuse, FillSync, Hands, Issued, DeliverType, Threads
<1>5. CASE ReapPage
  <2>1. PICK s \in rlist : StartDelivery("reaper", s, pend[s].state # "ERROR")
    BY <1>5 DEF ReapPage
  <2>2. s \in Slots /\ dpc["reaper"] = None /\ cqe' = cqe /\ (pend[s].state # "ERROR") \in BOOLEAN
    BY <1>5 DEF ReapPage, ReaperType, Hands
  <2>3. QED
    BY <1>2, <2>1, <2>2 DEF Threads
<1>6. CASE InlineDone \/ PageDone
  BY <1>3, <1>6 DEF InlineDone, PageDone, ChainServed, Threads
<1>7. ASSUME NEW t \in Threads, CopyRow(t) \/ ReadCqHead(t) \/ PostCqe(t)
      PROVE  CqeKept'
  <2>1. \A u \in Threads \ {t} : dpc'[u] = dpc[u] /\ left'[u] = left[u] /\ cqe'[u] = cqe[u]
    BY <1>7 DEF CopyRow, ReadCqHead, PostCqe, DeliverType
  <2>2. CASE CopyRow(t)
    <3>1. PICK r \in left[t] : /\ left' = [left EXCEPT ![t] = @ \ {r}]
                               /\ cqe' = [cqe EXCEPT ![t] = [req |-> r, ok |-> ok[t],
                                     data |-> IF ok[t] THEN staging[cur[t]] ELSE NoPage]]
      BY <2>2 DEF CopyRow
    <3>2. r \in Reqs /\ r # None
      BY CoalesceAssumption DEF DeliverType
    <3>3. /\ left'[t] = left[t] \ {r} /\ cqe'[t].req = r /\ dpc'[t] = "post"
      BY <2>2, <3>1 DEF CopyRow, DeliverType
    <3>4. cqe'[t] # NoCqe
      BY <3>2, <3>3 DEF NoCqe
    <3>5. cqe'[t].req \notin left'[t]
      BY <3>3
    <3>6. \A u \in Threads : u = t \/ u # t
      OBVIOUS
    <3>7. QED
      BY <2>1, <3>3, <3>4, <3>5, <3>6 DEF CqeKept
  <2>3. CASE ReadCqHead(t)
    <3>1. dpc[t] = "post" /\ dpc'[t] = "store" /\ left'[t] = left[t] /\ cqe'[t] = cqe[t]
      BY <2>3 DEF ReadCqHead, DeliverType
    <3>2. QED
      BY <2>1, <3>1 DEF CqeKept
  <2>4. CASE PostCqe(t)
    <3>1. dpc'[t] = "row" /\ cqe'[t] = NoCqe /\ left'[t] = left[t] /\ left[t] \subseteq Reqs
      BY <2>4 DEF PostCqe, DeliverType
    <3>2. NoCqe.req \notin left[t]
      BY <3>1, CoalesceAssumption DEF NoCqe
    <3>3. QED
      BY <2>1, <3>1, <3>2 DEF CqeKept
  <2>5. QED
    BY <1>7, <2>2, <2>3, <2>4
<1>8. CASE \/ (\E r \in Reqs : Push(r)) \/ Collect \/ UNCHANGED vars
           \/ DrainReturns \/ PopReq \/ FillOver \/ Seal \/ KeepFilling \/ Defer \/ WindowDone
           \/ Bin \/ EvictFull \/ BinOver \/ EvictFullest \/ KeepBinned \/ ReaperLapDone \/ ReaperLap
           \/ Issue \/ Accept \/ Again
           \/ \E c \in io \cup echoes : Complete(c) \/ Lose(c) \/ Echo(c)
  <2>1. UNCHANGED <<dpc, left, cqe>>
    BY <1>8 DEF Push, Collect, DrainReturns, PopReq, FillOver, Seal,
      KeepFilling, Bin, EvictFull, BinOver, EvictFullest, KeepBinned, Issue, Defer, Accept,
      Again, WindowDone, ReaperLap, ReaperLapDone, Complete, Lose, Echo, vars, deliverVars
  <2>2. QED
    BY <1>1, <2>1
<1>9. QED
  BY <1>4, <1>5, <1>6, <1>7, <1>8 DEF Next, IssuerStep, ReaperStep, Threads

LEMMA ShapeNext ==
  ASSUME Sound
  PROVE  ShapeInv /\ [Next]_vars => ShapeInv'
BY CreditNext, WindowNext, PosterNext, CqeNext DEF ShapeInv
-----------------------------------------------------------------------------
(* The completion ring.                                                     *)

\* The filled cells are those between the cursors, and the one thread about to
\* store has read the head as it still is, with room.
Used == Wrap(cq_head - cq_tail)
CellAt(i) == (cq_tail + i) % CqEntries

RingKept ==
  /\ Used <= CqEntries
  /\ \A c \in Cells : cq[c] # NoCqe <=> \E i \in 0 .. Used - 1 : c = CellAt(i)
  /\ \A t \in Threads : dpc[t] = "store" => h[t] = cq_head /\ Used < CqEntries

RingInv == ShapeInv /\ RingKept

\* A cursor counts its laps whole, so wrapping it does not move its cell.
LEMMA WrapCell ==
  ASSUME NEW x \in Int
  PROVE  Wrap(x) % CqEntries = x % CqEntries
<1>1. CqEntries \in Nat \ {0} /\ Modulus \in Nat \ {0} /\ Modulus % CqEntries = 0
  BY CoalesceAssumption
<1>2. PICK k \in Int : Modulus = CqEntries * k
  BY <1>1, LapsPerTurn
<1>3. PICK q \in Int, r \in 0 .. Modulus - 1 : x = Modulus * q + r /\ x % Modulus = r
  BY <1>1, ModSplit, Zenon
<1>4. x = r + CqEntries * (k * q) /\ r \in Int /\ k * q \in Int
  <2>1. Modulus * q = CqEntries * (k * q)
    BY <1>1, <1>2
  <2>2. k * q \in Int /\ r \in Int
    BY <1>1
  <2>3. CqEntries * (k * q) \in Int
    BY <1>1, <2>2
  <2>4. QED
    BY <1>3, <2>1, <2>2, <2>3
<1>5. (r + CqEntries * (k * q)) % CqEntries = r % CqEntries
  BY <1>1, <1>4, ModTurn, Zenon
<1>6. Wrap(x) = r
  BY <1>3 DEF Wrap
<1>7. QED
  BY <1>4, <1>5, <1>6, Zenon

\* The distance of two cursors, without division.
LEMMA WrapDist ==
  ASSUME NEW a \in 0 .. Modulus - 1, NEW b \in 0 .. Modulus - 1
  PROVE  Wrap(a - b) = IF a >= b THEN a - b ELSE a - b + Modulus
BY CoalesceAssumption, ModStep DEF Wrap

LEMMA WrapSucc ==
  ASSUME NEW a \in 0 .. Modulus - 1
  PROVE  Wrap(a + 1) = IF a + 1 < Modulus THEN a + 1 ELSE 0
<1>1. Modulus \in Nat \ {0} /\ Modulus > 1
  BY CoalesceAssumption
<1>2. 1 \in 0 .. Modulus - 1
  BY <1>1
<1>3. (a + 1) % Modulus = IF a + 1 < Modulus THEN a + 1 ELSE a + 1 - Modulus
  BY <1>1, <1>2, ModStep
<1>4. QED
  BY <1>1, <1>3 DEF Wrap

\* A completion more at the head, and one less at the tail.
LEMMA UsedMore ==
  ASSUME NEW a \in 0 .. Modulus - 1, NEW b \in 0 .. Modulus - 1, Wrap(a - b) < CqEntries
  PROVE  Wrap(Wrap(a + 1) - b) = Wrap(a - b) + 1
<1>1. Modulus \in Nat /\ Modulus > CqEntries /\ CqEntries \in Nat \ {0}
  BY CoalesceAssumption
<1>2. Wrap(a + 1) \in 0 .. Modulus - 1
  BY WrapSucc, <1>1
<1>3. QED
  BY <1>1, <1>2, WrapDist, WrapSucc

LEMMA UsedLess ==
  ASSUME NEW a \in 0 .. Modulus - 1, NEW b \in 0 .. Modulus - 1, a # b
  PROVE  /\ Wrap(a - Wrap(b + 1)) = Wrap(a - b) - 1
         /\ Wrap(a - b) \in 1 .. Modulus - 1
<1>1. Modulus \in Nat /\ Modulus > CqEntries /\ CqEntries \in Nat \ {0}
  BY CoalesceAssumption
<1>2. Wrap(b + 1) = IF b + 1 < Modulus THEN b + 1 ELSE 0
  BY WrapSucc
<1>3. Wrap(b + 1) \in 0 .. Modulus - 1
  BY <1>1, <1>2
<1>4. Wrap(a - b) = IF a >= b THEN a - b ELSE a - b + Modulus
  BY WrapDist
<1>5. Wrap(a - Wrap(b + 1)) = IF a >= Wrap(b + 1) THEN a - Wrap(b + 1)
                                                  ELSE a - Wrap(b + 1) + Modulus
  BY <1>3, WrapDist
<1>6. QED
  BY <1>1, <1>2, <1>4, <1>5

\* The cell the head selects comes after the filled ones.
LEMMA HeadCell ==
  ASSUME NEW a \in 0 .. Modulus - 1, NEW b \in 0 .. Modulus - 1
  PROVE  a % CqEntries = (b + Wrap(a - b)) % CqEntries
<1>1. Modulus \in Nat
  BY CoalesceAssumption
<1>2. b + Wrap(a - b) \in Int /\ Wrap(b + Wrap(a - b)) = a
  <2>1. Wrap(a - b) = IF a >= b THEN a - b ELSE a - b + Modulus
    BY WrapDist
  <2>2. Wrap(a - b) \in 0 .. Modulus - 1
    BY <1>1, <2>1
  <2>3. \A x \in 0 .. Modulus - 1 :
          Wrap(b + x) = IF b + x < Modulus THEN b + x ELSE b + x - Modulus
    BY CoalesceAssumption, ModStep DEF Wrap
  <2>4. QED
    BY <1>1, <2>1, <2>2, <2>3
<1>3. QED
  BY <1>2, WrapCell, Zenon

\* Positions less than a lap apart are different cells.
LEMMA CellsApart ==
  ASSUME cq_tail \in Int, NEW i \in 0 .. CqEntries - 1, NEW j \in 0 .. CqEntries - 1,
         CellAt(i) = CellAt(j)
  PROVE  i = j
<1>1. CqEntries \in Nat \ {0}
  BY CoalesceAssumption
<1>2. ASSUME NEW x \in 0 .. CqEntries - 1, NEW y \in 0 .. CqEntries - 1, x < y
      PROVE  CellAt(x) # CellAt(y)
  <2>1. /\ cq_tail + x \in Int /\ cq_tail + y \in Int
        /\ cq_tail + x < cq_tail + y /\ cq_tail + y < cq_tail + x + CqEntries
    BY <1>1, <1>2
  <2>2. QED
    BY <1>1, <2>1, ModApart DEF CellAt
<1>3. QED
  BY <1>1, <1>2

LEMMA RingInit == Init => RingKept
<1> SUFFICES ASSUME Init PROVE RingKept
  OBVIOUS
<1>1. Used = 0
  <2>1. 0 \in 0 .. Modulus - 1 /\ cq_head = 0 /\ cq_tail = 0
    BY CoalesceAssumption DEF Init
  <2>2. Wrap(0 - 0) = 0
    BY <2>1, WrapDist
  <2>3. QED
    BY <2>1, <2>2 DEF Used
<1>2. \A c \in Cells : cq[c] = NoCqe
  BY DEF Init
<1>3. \A t \in Threads : dpc[t] # "store"
  BY DEF Init, None
<1>4. QED
  BY <1>1, <1>2, <1>3, CoalesceAssumption DEF RingKept

LEMMA RingCollect ==
  ASSUME RingInv, Collect
  PROVE  /\ RingKept' /\ cq_tail % CqEntries \in Cells /\ cq[cq_tail % CqEntries] # NoCqe
         /\ \A c \in Cells : cq'[c] = IF c = cq_tail % CqEntries THEN NoCqe ELSE cq[c]
<1>1. CqEntries \in Nat \ {0} /\ Modulus \in Nat /\ Modulus > CqEntries
  BY CoalesceAssumption
<1>2. /\ cq_head \in 0 .. Modulus - 1 /\ cq_tail \in 0 .. Modulus - 1
      /\ cq \in [Cells -> Cqe \cup {NoCqe}] /\ cq_head # cq_tail
  BY DEF Collect, RingInv, ShapeInv, CreditInv, OwnInv, TypeInv, TypeOK, CqType
<1>3. cq_tail \in Int /\ cq_tail + 0 = cq_tail
  BY <1>2
<1>4. cq_tail % CqEntries \in Cells
  BY <1>1, <1>3, ModRange DEF Cells
<1>5. Used \in 1 .. CqEntries /\ Used' = Used - 1
  <2>1. Used <= CqEntries
    BY DEF RingInv, RingKept
  <2>2. Used \in 1 .. Modulus - 1 /\ Wrap(cq_head - Wrap(cq_tail + 1)) = Used - 1
    BY <1>2, UsedLess DEF Used
  <2>3. Used' = Wrap(cq_head - Wrap(cq_tail + 1))
    BY DEF Collect, Used
  <2>4. QED
    BY <1>1, <2>1, <2>2, <2>3
<1>6. cq_tail % CqEntries = CellAt(0)
  BY <1>3 DEF CellAt
<1>7. cq[cq_tail % CqEntries] # NoCqe
  BY <1>4, <1>5, <1>6 DEF RingInv, RingKept
<1>8. \A c \in Cells : cq'[c] = IF c = cq_tail % CqEntries THEN NoCqe ELSE cq[c]
  BY <1>2 DEF Collect
<1>9. \A i \in Int : CellAt(i)' = CellAt(i + 1)
  <2>1. SUFFICES ASSUME NEW i \in Int PROVE (Wrap(cq_tail + 1) + i) % CqEntries = CellAt(i + 1)
    BY DEF Collect, CellAt
  <2>2. cq_tail + 1 \in Int /\ Wrap(cq_tail + 1) \in Int /\ cq_tail + 1 + i = cq_tail + (i + 1)
    BY <1>1, <1>2, WrapSucc
  <2>3. (Wrap(cq_tail + 1) + i) % CqEntries = ((Wrap(cq_tail + 1) % CqEntries) + i) % CqEntries
    BY <1>1, <2>2, ModPlus, Zenon
  <2>4. Wrap(cq_tail + 1) % CqEntries = (cq_tail + 1) % CqEntries
    BY <2>2, WrapCell, Zenon
  <2>5. (((cq_tail + 1) % CqEntries) + i) % CqEntries = (cq_tail + 1 + i) % CqEntries
    BY <1>1, <2>2, ModPlus, Zenon
  <2>6. QED
    BY <2>2, <2>3, <2>4, <2>5, Zenon DEF CellAt
<1>10. \A c \in Cells : cq'[c] # NoCqe <=> \E i \in 0 .. Used' - 1 : c = CellAt(i)'
  <2>1. TAKE c \in Cells
  <2>2. CASE c = CellAt(0)
    <3>1. ASSUME NEW i \in 0 .. Used' - 1 PROVE c # CellAt(i)'
      <4>1. i \in Int /\ i + 1 \in 0 .. CqEntries - 1 /\ 0 \in 0 .. CqEntries - 1 /\ i + 1 # 0
        BY <1>1, <1>5
      <4>2. CellAt(i + 1) # CellAt(0)
        BY <1>3, <4>1, CellsApart
      <4>3. QED
        BY <1>9, <2>2, <4>1, <4>2
    <3>2. QED
      BY <1>6, <1>8, <2>2, <3>1
  <2>3. CASE c # CellAt(0)
    <3>1. cq'[c] = cq[c]
      BY <1>6, <1>8, <2>3
    <3>2. cq[c] # NoCqe <=> \E i \in 0 .. Used - 1 : c = CellAt(i)
      BY DEF RingInv, RingKept
    <3>3. ASSUME NEW i \in 0 .. Used - 1, c = CellAt(i)
          PROVE  \E j \in 0 .. Used' - 1 : c = CellAt(j)'
      <4>1. i # 0
        BY <2>3, <3>3
      <4>2. i - 1 \in 0 .. Used' - 1 /\ i - 1 \in Int /\ (i - 1) + 1 = i
        BY <1>5, <4>1
      <4>3. CellAt(i - 1)' = CellAt(i)
        BY <1>9, <4>2
      <4>4. QED
        BY <3>3, <4>2, <4>3
    <3>4. ASSUME NEW j \in 0 .. Used' - 1, c = CellAt(j)'
          PROVE  \E i \in 0 .. Used - 1 : c = CellAt(i)
      <4>1. j \in Int /\ j + 1 \in 0 .. Used - 1
        BY <1>5
      <4>2. QED
        BY <1>9, <3>4, <4>1
    <3>5. QED
      BY <3>1, <3>2, <3>3, <3>4
  <2>4. QED
    BY <2>2, <2>3
<1>11. \A t \in Threads : dpc'[t] = "store" => h'[t] = cq_head' /\ Used' < CqEntries
  BY <1>1, <1>5 DEF RingInv, RingKept, Collect, deliverVars
<1>12. Used' <= CqEntries
  BY <1>1, <1>5
<1>13. QED
  BY <1>4, <1>7, <1>8, <1>10, <1>11, <1>12 DEF RingKept

LEMMA RingPost ==
  ASSUME RingInv, NEW t \in Threads, PostCqe(t)
  PROVE  /\ RingKept' /\ cq_head % CqEntries \in Cells /\ cq[cq_head % CqEntries] = NoCqe
         /\ \A c \in Cells : cq'[c] = IF c = cq_head % CqEntries THEN cqe[t] ELSE cq[c]
<1>1. CqEntries \in Nat \ {0} /\ Modulus \in Nat /\ Modulus > CqEntries
  BY CoalesceAssumption
<1>2. /\ cq_head \in 0 .. Modulus - 1 /\ cq_tail \in 0 .. Modulus - 1
      /\ cq \in [Cells -> Cqe \cup {NoCqe}] /\ dpc[t] = "store"
  BY DEF PostCqe, RingInv, ShapeInv, CreditInv, OwnInv, TypeInv, TypeOK, CqType
<1>3. h[t] = cq_head /\ Used < CqEntries /\ Used \in 0 .. Modulus - 1
  BY <1>1, <1>2, WrapDist DEF RingInv, RingKept, Used
<1>4. cq_head % CqEntries \in Cells
  <2>1. cq_head \in Int
    BY <1>2
  <2>2. QED
    BY <1>1, <2>1, ModRange DEF Cells
<1>5. Used' = Used + 1
  <2>1. Used' = Wrap(Wrap(cq_head + 1) - cq_tail)
    BY <1>3 DEF PostCqe, Used
  <2>2. QED
    BY <1>2, <1>3, <2>1, UsedMore DEF Used
<1>6. cq_head % CqEntries = CellAt(Used)
  BY <1>2, HeadCell, Zenon DEF CellAt, Used
<1>7. \A c \in Cells : cq'[c] = IF c = cq_head % CqEntries THEN cqe[t] ELSE cq[c]
  BY <1>2, <1>3 DEF PostCqe
<1>8. \A i \in Int : CellAt(i)' = CellAt(i)
  BY DEF PostCqe, CellAt
<1>9. cqe[t] # NoCqe
  BY <1>2 DEF RingInv, ShapeInv, CqeKept
<1>10. cq[cq_head % CqEntries] = NoCqe
  <2>1. ASSUME NEW i \in 0 .. Used - 1 PROVE CellAt(i) # CellAt(Used)
    <3>1. i \in 0 .. CqEntries - 1 /\ Used \in 0 .. CqEntries - 1 /\ i # Used /\ cq_tail \in Int
      BY <1>1, <1>2, <1>3
    <3>2. QED
      BY <3>1, CellsApart
  <2>2. QED
    BY <1>4, <1>6, <2>1 DEF RingInv, RingKept
<1>11. \A c \in Cells : cq'[c] # NoCqe <=> \E i \in 0 .. Used' - 1 : c = CellAt(i)'
  <2>1. TAKE c \in Cells
  <2>2. cq[c] # NoCqe <=> \E i \in 0 .. Used - 1 : c = CellAt(i)
    BY DEF RingInv, RingKept
  <2>3. \A i : i \in 0 .. Used' - 1 <=> i \in 0 .. Used - 1 \/ i = Used
    BY <1>3, <1>5
  <2>4. \A i \in 0 .. Used' - 1 : CellAt(i)' = CellAt(i)
    BY <1>8
  <2>5. QED
    BY <1>6, <1>7, <1>9, <2>2, <2>3, <2>4
<1>12. \A u \in Threads : dpc'[u] # "store"
  <2>1. OneHand
    BY HandsTaken DEF RingInv, ShapeInv, CreditInv
  <2>2. \A u \in Threads \ {t} : dpc[u] = None
    <3>1. dpc["issuer"] = None \/ dpc["reaper"] = None
      BY <2>1 DEF OneHand
    <3>2. QED
      BY <1>2, <3>1 DEF Threads, None
  <2>3. dpc' = [dpc EXCEPT ![t] = "row"] /\ dpc \in [Threads -> {None, "row", "post", "store"}]
    BY DEF PostCqe, RingInv, ShapeInv, CreditInv, OwnInv, TypeInv, TypeOK, DeliverType
  <2>4. QED
    BY <2>2, <2>3 DEF None
<1>13. Used' <= CqEntries
  BY <1>1, <1>3, <1>5
<1>14. QED
  BY <1>4, <1>7, <1>10, <1>11, <1>12, <1>13 DEF RingKept

LEMMA RingNext ==
  ASSUME Sound
  PROVE  RingInv /\ [Next]_vars => RingInv'
<1> SUFFICES ASSUME RingInv, [Next]_vars PROVE RingKept'
  BY ShapeNext DEF RingInv
<1>1. ASSUME UNCHANGED <<cq, cq_head, cq_tail, h>>,
             \A t \in Threads : dpc'[t] = "store" => dpc[t] = "store"
      PROVE  RingKept'
  <2>1. Used' = Used /\ \A i : CellAt(i)' = CellAt(i)
    BY <1>1 DEF Used, CellAt
  <2>2. QED
    BY <1>1, <2>1 DEF RingInv, RingKept
<1>2. CASE Collect
  BY <1>2, RingCollect
<1>3. ASSUME NEW t \in Threads, CopyRow(t) \/ ReadCqHead(t) \/ PostCqe(t)
      PROVE  RingKept'
  <2> USE DEF RingInv, ShapeInv, CreditInv, OwnInv, TypeInv, TypeOK
  <2>1. CASE CopyRow(t)
    BY <1>1, <2>1 DEF CopyRow, DeliverType, cqVars
  <2>2. CASE ReadCqHead(t)
    <3>1. UNCHANGED <<cq, cq_head, cq_tail>> /\ Used < CqEntries
      BY <2>2 DEF ReadCqHead, CqHasRoom, Used, cqVars
    <3>2. Used' = Used /\ \A i : CellAt(i)' = CellAt(i)
      BY <3>1 DEF Used, CellAt
    <3>3. h'[t] = cq_head /\ \A u \in Threads \ {t} : h'[u] = h[u] /\ dpc'[u] = dpc[u]
      BY <2>2 DEF ReadCqHead, DeliverType
    <3>4. QED
      BY <3>1, <3>2, <3>3 DEF RingKept
  <2>3. CASE PostCqe(t)
    BY <2>3, RingPost
  <2>4. QED
    BY <1>3, <2>1, <2>2, <2>3
<1>4. CASE \/ (\E r \in Reqs : Push(r)) \/ UNCHANGED vars
           \/ DrainReturns \/ PopReq \/ FillOver \/ Seal \/ KeepFilling \/ Defer \/ WindowDone
           \/ Bin \/ EvictFull \/ BinOver \/ EvictFullest \/ KeepBinned \/ ReaperLapDone \/ ReaperLap
           \/ Issue \/ Accept \/ Again
           \/ \E c \in io \cup echoes : Complete(c) \/ Lose(c) \/ Echo(c)
  <2>1. UNCHANGED <<cq, cq_head, cq_tail, h, dpc>>
    BY <1>4 DEF Push, DrainReturns, PopReq, FillOver, Seal,
      KeepFilling, Bin, EvictFull, BinOver, EvictFullest, KeepBinned, Issue, Defer, Accept,
      Again, WindowDone, ReaperLap, ReaperLapDone, Complete, Lose, Echo, vars, deliverVars, cqVars
  <2>2. QED
    BY <1>1, <2>1
<1>5. CASE Refuse \/ FillSync \/ InlineDone \/ ReapPage \/ PageDone
  <2>1. UNCHANGED <<cq, cq_head, cq_tail, h>>
    BY <1>5 DEF Refuse, FillSync, InlineDone, ReapPage, PageDone, cqVars
  <2>2. \A t \in Threads : dpc'[t] = "store" => dpc[t] = "store"
    BY <1>5 DEF Refuse, FillSync, InlineDone, ReapPage, PageDone, StartDelivery, EndDelivery, None,
                RingInv, ShapeInv, CreditInv, OwnInv, TypeInv, TypeOK, DeliverType, Threads
  <2>3. QED
    BY <1>1, <2>1, <2>2
<1>6. QED
  BY <1>2, <1>3, <1>4, <1>5 DEF Next, IssuerStep, ReaperStep, Threads
-----------------------------------------------------------------------------
(* Where each request is.                                                   *)

Queued == {rq[i] : i \in DOMAIN rq}
Windowed == IF sealed THEN todo \ InHand ELSE win
Waiting == {r \in Reqs : \E s \in Slots : r \in Unserved(s)}
Answered == {r \in Reqs : \E c \in Cells : cq[c].req = r}

\* No place holds a request twice.
Once ==
  /\ \A i, j \in DOMAIN rq : rq[i] = rq[j] => i = j
  /\ \A s, x \in Slots : s # x => Unserved(s) \cap Unserved(x) = {}
  /\ \A c, d \in Cells : cq[c].req = cq[d].req /\ cq[c] # NoCqe => c = d

\* No two places share one, and they hold what is under way.
Parted ==
  /\ outst = Queued \cup Windowed \cup bkt \cup Waiting \cup Answered
  /\ Queued \cap (Windowed \cup bkt \cup Waiting \cup Answered) = {}
  /\ Windowed \cap (bkt \cup Waiting \cup Answered) = {}
  /\ bkt \cap (Waiting \cup Answered) = {}
  /\ Waiting \cap Answered = {}

PlaceInv == RingInv /\ Once /\ Parted

\* Who is still to be served on a slot that thread t serves, and on any other.
ServedBy(t) == left[t] \cup (IF cqe[t] = NoCqe THEN {} ELSE {cqe[t].req})
Idle(s) == \A t \in Threads : ~(cur[t] = s /\ dpc[t] # None)
UnservedView ==
  /\ \A s \in pend_return : Unserved(s) = {}
  /\ \A t \in Threads : dpc[t] # None => Unserved(cur[t]) = ServedBy(t)
  /\ \A s \in Slots \ pend_return : Idle(s) => Unserved(s) = pend[s].waiters

LEMMA UnservedIs == RingInv => UnservedView
<1> SUFFICES ASSUME RingInv PROVE UnservedView
  OBVIOUS
<1> USE DEF RingInv, ShapeInv, CreditInv
<1>1. \A s \in pend_return : Unserved(s) = {}
  BY DEF Unserved
<1>2. ASSUME NEW t \in Threads, dpc[t] # None
      PROVE  Unserved(cur[t]) = ServedBy(t)
  <2>1. cur[t] \in Slots /\ cur[t] \notin pend_return
    BY <1>2, AtHand DEF OwnInv, Owned, Threads
  <2>2. \A u \in Threads : dpc[u] # None => u = t
    BY <1>2, HandsTaken DEF OneHand, Threads
  <2>3. (CHOOSE u \in Threads : cur[u] = cur[t] /\ dpc[u] # None) = t
    BY <1>2, <2>2
  <2>4. QED
    BY <1>2, <2>1, <2>3 DEF Unserved, ServedBy
<1>3. \A s \in Slots \ pend_return : Idle(s) => Unserved(s) = pend[s].waiters
  BY DEF Unserved, Idle
<1>4. QED
  BY <1>1, <1>2, <1>3 DEF UnservedView

LEMMA UnservedNext == RingInv' => UnservedView'
BY UnservedIs, PTL

\* Only requests wait.
LEMMA WaitersAre ==
  ASSUME RingInv, NEW s \in Slots
  PROVE  Unserved(s) \subseteq Reqs
<1> USE DEF RingInv, ShapeInv, CreditInv, OwnInv, TypeInv, TypeOK
<1>1. UnservedView
  BY UnservedIs
<1>2. CASE s \in pend_return
  BY <1>1, <1>2 DEF UnservedView
<1>3. ASSUME NEW t \in Threads, cur[t] = s, dpc[t] # None
      PROVE  Unserved(s) \subseteq Reqs
  <2>1. left[t] \subseteq Reqs /\ cqe[t] \in Cqe \cup {NoCqe}
    BY DEF DeliverType
  <2>2. cqe[t] # NoCqe => cqe[t].req \in Reqs
    BY <2>1 DEF Cqe
  <2>3. QED
    BY <1>1, <1>3, <2>1, <2>2 DEF UnservedView, ServedBy
<1>4. CASE s \notin pend_return /\ Idle(s)
  <2>1. pend[s].waiters \subseteq Reqs
    BY PendType
  <2>2. QED
    BY <1>1, <1>4, <2>1 DEF UnservedView
<1>5. QED
  BY <1>2, <1>3, <1>4 DEF Idle

\* Steps that move nobody.
LEMMA PlaceSame ==
  ASSUME Once, Parted, outst' = outst, rq' = rq, Windowed' = Windowed, bkt' = bkt, cq' = cq,
         \A s \in Slots : Unserved(s)' = Unserved(s)
  PROVE  Once' /\ Parted'
<1>1. Queued' = Queued /\ Waiting' = Waiting /\ Answered' = Answered
  BY DEF Queued, Waiting, Answered
<1>2. Once'
  BY DEF Once
<1>3. Parted'
  BY <1>1 DEF Parted
<1>4. QED
  BY <1>2, <1>3

\* Slots whose chains, deliveries and whereabouts a step leaves alone.
LEMMA UnservedSame ==
  ASSUME RingInv, RingInv', NEW s \in Slots,
         \/ s \in pend_return /\ s \in pend_return'
         \/ \E t \in Threads : /\ dpc[t] # None /\ dpc'[t] # None
                               /\ cur[t] = s /\ cur'[t] = s /\ ServedBy(t)' = ServedBy(t)
         \/ /\ s \notin pend_return /\ s \notin pend_return'
            /\ Idle(s) /\ Idle(s)' /\ pend'[s].waiters = pend[s].waiters
  PROVE  Unserved(s)' = Unserved(s)
BY UnservedIs, UnservedNext DEF UnservedView

\* The queue's ends.
LEMMA QueuedMore ==
  ASSUME NEW r \in Reqs, rq \in Seq(Reqs), rq' = Append(rq, r), r \notin Queued,
         \A i, j \in DOMAIN rq : rq[i] = rq[j] => i = j
  PROVE  /\ Queued' = Queued \cup {r}
         /\ \A i, j \in DOMAIN rq' : rq'[i] = rq'[j] => i = j
<1>1. Len(rq) \in Nat /\ Len(rq') = Len(rq) + 1 /\ DOMAIN rq = 1 .. Len(rq)
      /\ DOMAIN rq' = 1 .. Len(rq) + 1
  OBVIOUS
<1>2. rq'[Len(rq) + 1] = r /\ \A i \in 1 .. Len(rq) : rq'[i] = rq[i]
  BY <1>1
<1>3. \A i : i \in DOMAIN rq' <=> i \in DOMAIN rq \/ i = Len(rq) + 1
  BY <1>1
<1>4. Queued' = Queued \cup {r}
  BY <1>1, <1>2, <1>3 DEF Queued
<1>5. \A i \in DOMAIN rq : rq[i] # r
  BY DEF Queued
<1>6. QED
  BY <1>1, <1>2, <1>3, <1>4, <1>5

LEMMA QueuedLess ==
  ASSUME rq \in Seq(Reqs), rq # <<>>, rq' = Tail(rq),
         \A i, j \in DOMAIN rq : rq[i] = rq[j] => i = j
  PROVE  /\ Head(rq) \in Queued /\ Queued' = Queued \ {Head(rq)}
         /\ \A i, j \in DOMAIN rq' : rq'[i] = rq'[j] => i = j
<1>1. /\ Len(rq) \in Nat /\ Len(rq) > 0 /\ DOMAIN rq = 1 .. Len(rq)
      /\ DOMAIN rq' = 1 .. Len(rq) - 1
      /\ Head(rq) = rq[1] /\ \A i \in 1 .. Len(rq) - 1 : rq'[i] = rq[i + 1]
  OBVIOUS
<1>2. Head(rq) \in Queued
  BY <1>1 DEF Queued
<1>3. ASSUME NEW i \in DOMAIN rq' PROVE i + 1 \in DOMAIN rq /\ rq'[i] = rq[i + 1] /\ i + 1 # 1
  BY <1>1
<1>4. ASSUME NEW j \in DOMAIN rq, j # 1 PROVE j - 1 \in DOMAIN rq' /\ rq'[j - 1] = rq[j]
  BY <1>1, <1>4
<1>5. Queued' \subseteq Queued \ {Head(rq)}
  <2>1. SUFFICES ASSUME NEW i \in DOMAIN rq' PROVE rq'[i] \in Queued /\ rq'[i] # rq[1]
    BY <1>1 DEF Queued
  <2>2. i + 1 \in DOMAIN rq /\ rq'[i] = rq[i + 1] /\ i + 1 # 1 /\ 1 \in DOMAIN rq
    BY <1>1, <1>3
  <2>3. QED
    BY <2>2 DEF Queued
<1>6. Queued \ {Head(rq)} \subseteq Queued'
  <2>1. SUFFICES ASSUME NEW j \in DOMAIN rq, rq[j] # Head(rq) PROVE rq[j] \in Queued'
    BY DEF Queued
  <2>2. j # 1
    BY <1>1, <2>1
  <2>3. QED
    BY <1>4, <2>2 DEF Queued
<1>7. \A i, j \in DOMAIN rq' : rq'[i] = rq'[j] => i = j
  <2>1. TAKE i, j \in DOMAIN rq'
  <2>2. HAVE rq'[i] = rq'[j]
  <2>3. i + 1 \in DOMAIN rq /\ j + 1 \in DOMAIN rq /\ rq[i + 1] = rq[j + 1]
    BY <1>3, <2>2
  <2>4. i + 1 = j + 1
    BY <2>3
  <2>5. i \in Int /\ j \in Int
    BY <1>1
  <2>6. QED
    BY <2>4, <2>5
<1>8. QED
  BY <1>2, <1>5, <1>6, <1>7

LEMMA PlaceInit ==
  ASSUME Sound, OneWriter
  PROVE  Init => PlaceInv
<1> SUFFICES ASSUME Init PROVE PlaceInv
  OBVIOUS
<1>1. RingInv
  BY ShapeInit, RingInit DEF RingInv
<1>2. \A s \in Slots : Unserved(s) = {}
  BY DEF Init, Unserved
<1>3. \A c \in Cells : cq[c] = NoCqe
  BY DEF Init
<1>4. Queued = {} /\ Windowed = {} /\ Waiting = {}
  BY <1>2 DEF Init, Queued, Windowed, Waiting
<1>5. Answered = {}
  BY <1>3, CoalesceAssumption DEF Answered, NoCqe
<1>6. Once
  BY <1>2, <1>3 DEF Init, Once
<1>7. Parted
  BY <1>4, <1>5 DEF Init, Parted
<1>8. QED
  BY <1>1, <1>6, <1>7 DEF PlaceInv

\* The ring, the window and the buckets, with no slot touched.
LEMMA PlaceWindow ==
  ASSUME PlaceInv, UNCHANGED <<pend, pend_return, cur, dpc, left, cqe, cq>>,
         outst' = outst, Queued' \cup Windowed' \cup bkt' = Queued \cup Windowed \cup bkt,
         Queued' \cap (Windowed' \cup bkt') = {}, Windowed' \cap bkt' = {},
         \A i, j \in DOMAIN rq' : rq'[i] = rq'[j] => i = j
  PROVE  Once' /\ Parted'
<1>1. \A s : Unserved(s)' = Unserved(s)
  BY DEF Unserved
<1>2. Waiting' = Waiting /\ Answered' = Answered
  BY <1>1 DEF Waiting, Answered
<1>3. Once'
  BY <1>1 DEF PlaceInv, Once
<1>4. Parted'
  BY <1>2, <1>3 DEF PlaceInv, Parted
<1>5. QED
  BY <1>3, <1>4

LEMMA PlaceClient ==
  ASSUME PlaceInv, NEW r \in Reqs, Push(r)
  PROVE  Once' /\ Parted'
<1> USE DEF PlaceInv, RingInv, ShapeInv, CreditInv, OwnInv, TypeInv, TypeOK
<1>1. UNCHANGED <<pend, pend_return, cur, dpc, left, cqe, cq, sealed, todo, win, bkt>>
  BY DEF Push, windowVars, bucketVars, slotVars, deliverVars, cqVars
<1>2. \A s : Unserved(s)' = Unserved(s)
  BY <1>1 DEF Unserved
<1>3. Waiting' = Waiting /\ Answered' = Answered /\ Windowed' = Windowed
  BY <1>1, <1>2 DEF Waiting, Answered, Windowed, InHand
<1>4. r \notin Queued /\ r \notin outst /\ rq \in Seq(Reqs)
  BY DEF Push, Parted, ClientType
<1>5. /\ Queued' = Queued \cup {r}
      /\ \A i, j \in DOMAIN rq' : rq'[i] = rq'[j] => i = j
  BY <1>4, QueuedMore DEF Push, Once
<1>6. Once'
  BY <1>1, <1>2, <1>5 DEF Once
<1>7. Parted'
  BY <1>1, <1>3, <1>4, <1>5 DEF Push, Parted
<1>8. QED
  BY <1>6, <1>7

LEMMA PlaceFill ==
  ASSUME PlaceInv, \/ PopReq \/ FillOver \/ Seal \/ KeepFilling \/ Defer \/ WindowDone
                   \/ Bin \/ EvictFull \/ BinOver \/ EvictFullest \/ KeepBinned
  PROVE  Once' /\ Parted'
<1> USE DEF PlaceInv, RingInv, ShapeInv, CreditInv, OwnInv, TypeInv, TypeOK
<1>1. UNCHANGED <<outst, pend, pend_return, cur, dpc, left, cqe, cq>>
  BY DEF PopReq, FillOver, Seal, KeepFilling, Defer, WindowDone, Bin, EvictFull, BinOver, EvictFullest,
         KeepBinned, slotVars, deliverVars, cqVars
<1>2. InHand = {} /\ InHand' = {}
  <2>1. ipc \notin {"submit", "deliver"}
    BY DEF PopReq, FillOver, Seal, KeepFilling, Defer, WindowDone, Bin, Binning, EvictFull, BinOver,
           EvictFullest, KeepBinned
  <2>2. QED
    BY <1>1, <2>1 DEF Hands, Issued, InHand
<1>3. Queued \cap (Windowed \cup bkt) = {} /\ Windowed \cap bkt = {}
  BY DEF Parted
<1>4. rq \in Seq(Reqs) /\ \A i, j \in DOMAIN rq : rq[i] = rq[j] => i = j
  BY DEF ClientType, Once
<1>5. CASE PopReq \/ Bin \/ EvictFull
  <2>0. rq' = Tail(rq) /\ rq # <<>>
    BY <1>5 DEF PopReq, Bin, Binning, EvictFull
  <2>1. /\ Head(rq) \in Queued /\ Queued' = Queued \ {Head(rq)}
        /\ \A i, j \in DOMAIN rq' : rq'[i] = rq'[j] => i = j
    BY <1>4, <2>0, QueuedLess
  <2>2. CASE PopReq
    <3>1. Windowed' = Windowed \cup {Head(rq)} /\ bkt' = bkt
      BY <2>2 DEF PopReq, WindowKept, Windowed, bucketVars
    <3>2. QED
      BY <1>1, <1>3, <2>1, <3>1, PlaceWindow
  <2>3. CASE Bin
    <3>1. Windowed' = Windowed /\ bkt' = bkt \cup {Head(rq)}
      BY <2>3 DEF Bin, Binning, WindowKept, Windowed
    <3>2. QED
      BY <1>1, <1>3, <2>1, <3>1, PlaceWindow
  <2>4. CASE EvictFull
    <3>1. /\ Windowed = {} /\ Windowed' = InBucket(BucketOfHead)
          /\ bkt' = (bkt \ InBucket(BucketOfHead)) \cup {Head(rq)}
      BY <1>2, <2>4 DEF EvictFull, Binning, Evict, WindowKept, Windowed
    <3>2. InBucket(BucketOfHead) \subseteq bkt
      BY DEF InBucket
    <3>3. QED
      BY <1>1, <1>3, <2>1, <3>1, <3>2, PlaceWindow
  <2>5. QED
    BY <1>5, <2>2, <2>3, <2>4
<1>6. CASE FillOver \/ Seal \/ KeepFilling \/ Defer \/ WindowDone \/ BinOver \/ EvictFullest \/ KeepBinned
  <2>0. rq' = rq
    BY <1>6 DEF FillOver, Seal, KeepFilling, Defer, WindowDone, BinOver, EvictFullest, KeepBinned
  <2>1. Queued' = Queued
    BY <2>0 DEF Queued
  <2>2. CASE EvictFullest
    <3>1. Windowed = {} /\ Windowed' = InBucket(Fullest) /\ bkt' = bkt \ InBucket(Fullest)
      BY <1>2, <2>2 DEF EvictFullest, Evict, WindowKept, Windowed
    <3>2. InBucket(Fullest) \subseteq bkt
      BY DEF InBucket
    <3>3. QED
      BY <1>1, <1>3, <1>4, <2>0, <2>1, <3>1, <3>2, PlaceWindow
  <2>3. CASE ~EvictFullest
    <3>1. Windowed' = Windowed /\ bkt' = bkt
      BY <1>2, <1>6, <2>3
      DEF FillOver, Seal, KeepFilling, Defer, WindowDone, BinOver, KeepBinned, WindowKept, Windowed, windowVars, bucketVars
    <3>2. QED
      BY <1>1, <1>3, <1>4, <2>0, <2>1, <3>1, PlaceWindow
  <2>4. QED
    BY <2>2, <2>3
<1>7. QED
  BY <1>5, <1>6

\* Handing slots back, with the window's share unchanged by it: their waiters,
\* if any is still to be served, return to the window.
LEMMA PlaceFreed ==
  ASSUME PlaceInv, RingInv', NEW S \in SUBSET Slots, FreeSlots(S),
         UNCHANGED <<outst, rq, bkt, cq, left, cqe>>,
         pend_return' = pend_return \ S,
         \A t \in Threads : dpc'[t] # None => dpc[t] # None /\ cur'[t] = cur[t],
         \A t \in Threads : dpc[t] # None => dpc'[t] = dpc[t] \/ cur[t] \in S
  PROVE  /\ \A s \in S : Unserved(s)' = {}
         /\ \A s \in Slots \ S : Unserved(s)' = Unserved(s)
<1> USE DEF PlaceInv, RingInv, ShapeInv, CreditInv, OwnInv, TypeInv, TypeOK
<1>1. /\ \A s \in S : pend'[s].waiters = {} /\ pend'[s].state = "FREE"
      /\ \A s \in Slots \ S : pend'[s] = pend[s]
  BY SlotsFreed
<1>2. \A t \in Threads : dpc'[t] # None => cur'[t] \notin S
  <2>1. \A t \in Threads : dpc'[t] # None => pend'[cur'[t]].state # "FREE"
    BY AtHandNext
  <2>2. QED
    BY <1>1, <2>1
<1>3. \A s \in S : Unserved(s)' = {}
  <2>1. UnservedView'
    BY UnservedNext
  <2>2. TAKE s \in S
  <2>3. s \notin pend_return' /\ Idle(s)'
    BY <1>2 DEF Idle
  <2>4. QED
    BY <1>1, <2>1, <2>3 DEF UnservedView
<1>4. \A s \in Slots \ S : Unserved(s)' = Unserved(s)
  <2>1. TAKE s \in Slots \ S
  <2>2. CASE s \in pend_return
    BY <2>2, UnservedSame
  <2>3. CASE s \notin pend_return /\ Idle(s)
    <3>1. Idle(s)'
      BY <2>3 DEF Idle
    <3>2. QED
      BY <1>1, <2>3, <3>1, UnservedSame
  <2>4. ASSUME NEW t \in Threads, cur[t] = s, dpc[t] # None
        PROVE  Unserved(s)' = Unserved(s)
    <3>1. dpc'[t] # None /\ cur'[t] = s
      BY <2>4
    <3>2. ServedBy(t)' = ServedBy(t)
      BY DEF ServedBy
    <3>3. QED
      BY <2>4, <3>1, <3>2, UnservedSame
  <2>5. QED
    BY <2>2, <2>3, <2>4 DEF Idle
<1>5. QED
  BY <1>3, <1>4

LEMMA PlaceDrain ==
  ASSUME PlaceInv, RingInv', DrainReturns
  PROVE  Once' /\ Parted'
<1> USE DEF PlaceInv, RingInv, ShapeInv, CreditInv, OwnInv, TypeInv, TypeOK
<1>1. /\ UNCHANGED <<outst, rq, bkt, cq, left, cqe, cur, dpc, win, sealed, todo>>
      /\ FreeSlots(pend_return) /\ pend_return' = {} /\ pend_return \subseteq Slots
  BY DEF DrainReturns, windowVars, bucketVars, deliverVars, cqVars, ReaperType
<1>2. /\ \A s \in pend_return : Unserved(s)' = {}
      /\ \A s \in Slots \ pend_return : Unserved(s)' = Unserved(s)
  BY <1>1, PlaceFreed
<1>3. \A s \in Slots : Unserved(s)' = Unserved(s)
  BY <1>2 DEF Unserved
<1>4. Windowed' = Windowed
  BY <1>1 DEF DrainReturns, Hands, Issued, InHand, Windowed
<1>5. QED
  BY <1>1, <1>3, <1>4, PlaceSame

LEMMA PlaceIssue ==
  ASSUME PlaceInv, RingInv', Issue
  PROVE  Once' /\ Parted'
<1> USE DEF PlaceInv, RingInv, ShapeInv, CreditInv, OwnInv, TypeInv, TypeOK
<1>1. PICK R \in NextRuns, s \in pend_free :
        /\ pend' = [pend EXCEPT ![s] = [state |-> "ISSUED", gen |-> NextGen(s),
                                        tag |-> PageOf[CHOOSE r \in R : TRUE],
                                        waiters |-> R]]
        /\ cur' = [cur EXCEPT !["issuer"] = s]
  BY DEF Issue
<1>2. s \in Slots /\ pend[s].state = "FREE" /\ R \subseteq todo /\ pend[s].waiters = {}
  BY DEF NextRuns, SlotType, Owned
<1>3. UNCHANGED <<outst, rq, bkt, cq, left, cqe, dpc, win, sealed, todo, pend_return>> /\ sealed
  BY DEF Issue, WindowKept, windowVars, bucketVars, cqVars
<1>4. pend'[s].waiters = R /\ \A x \in Slots \ {s} : pend'[x] = pend[x]
  BY <1>1, <1>2 DEF SlotType
<1>5. Issued = None /\ dpc["issuer"] = None
  BY DEF Issue, Hands
<1>6. /\ cur'["issuer"] = s /\ cur'["reaper"] = cur["reaper"] /\ s # None
      /\ s \notin pend_return /\ s \notin pend_return'
  BY <1>1, <1>2, <1>3, CoalesceAssumption DEF DeliverType, Threads, Owned
<1>7. \A t \in Threads : dpc[t] # None => t = "reaper" /\ cur[t] # s
  BY <1>2, <1>5, AtHand DEF Threads
<1>8. Windowed' = Windowed \ R /\ R \subseteq Windowed
  <2>1. InHand = {} /\ InHand' = R
    BY <1>4, <1>5, <1>6 DEF InHand, Issued
  <2>2. QED
    BY <1>2, <1>3, <2>1 DEF Windowed
<1>9. Idle(s) /\ Idle(s)'
  BY <1>3, <1>6, <1>7 DEF Idle
<1>10. Unserved(s) = {} /\ Unserved(s)' = R
  <2>1. UnservedView /\ UnservedView'
    BY UnservedIs, UnservedNext
  <2>2. QED
    BY <1>2, <1>4, <1>6, <1>9, <2>1 DEF UnservedView
<1>11. \A x \in Slots \ {s} : Unserved(x)' = Unserved(x)
  <2>1. TAKE x \in Slots \ {s}
  <2>2. CASE x \in pend_return
    BY <1>3, <2>2, UnservedSame
  <2>3. CASE x \notin pend_return /\ Idle(x)
    <3>1. Idle(x)'
      BY <1>3, <1>6, <1>7, <2>3 DEF Idle, Threads
    <3>2. QED
      BY <1>3, <1>4, <2>3, <3>1, UnservedSame
  <2>4. ASSUME NEW t \in Threads, cur[t] = x, dpc[t] # None
        PROVE  Unserved(x)' = Unserved(x)
    <3>1. dpc'[t] # None /\ cur'[t] = x
      BY <1>3, <1>6, <1>7, <2>4
    <3>2. ServedBy(t)' = ServedBy(t)
      BY <1>3 DEF ServedBy
    <3>3. QED
      BY <2>4, <3>1, <3>2, UnservedSame
  <2>5. QED
    BY <2>2, <2>3, <2>4 DEF Idle
<1>12. R \subseteq Reqs /\ R \cap Waiting = {}
  BY <1>8, <1>2 DEF Parted, WindowType
<1>13. Waiting' = Waiting \cup R
  BY <1>2, <1>10, <1>11, <1>12 DEF Waiting
<1>14. Queued' = Queued /\ Answered' = Answered
  BY <1>3 DEF Queued, Answered
<1>15. Once'
  <2>1. \A x \in Slots \ {s} : Unserved(x) \cap R = {}
    BY <1>12, WaitersAre DEF Waiting
  <2>2. \A x, y \in Slots : x # y => Unserved(x)' \cap Unserved(y)' = {}
    BY <1>10, <1>11, <2>1 DEF Once
  <2>3. QED
    BY <1>3, <2>2 DEF Once
<1>16. Parted'
  BY <1>3, <1>8, <1>12, <1>13, <1>14 DEF Parted
<1>17. QED
  BY <1>15, <1>16

\* Starting on the waiters of a slot that nobody serves.
LEMMA PlaceStart ==
  ASSUME PlaceInv, RingInv', NEW t \in Threads, NEW s \in Slots, NEW good \in BOOLEAN,
         StartDelivery(t, s, good), dpc[t] = None, s \notin pend_return, Idle(s),
         UNCHANGED <<pend, pend_return, cqe>>
  PROVE  \A x \in Slots : Unserved(x)' = Unserved(x)
<1> USE DEF PlaceInv, RingInv, ShapeInv, CreditInv, OwnInv, TypeInv, TypeOK
<1>1. /\ cur'[t] = s /\ dpc'[t] = "row" /\ left'[t] = pend[s].waiters
      /\ \A u \in Threads \ {t} : cur'[u] = cur[u] /\ dpc'[u] = dpc[u] /\ left'[u] = left[u]
  BY DEF StartDelivery, DeliverType
<1>2. UnservedView /\ UnservedView'
  BY UnservedIs, UnservedNext
<1>3. Unserved(s)' = Unserved(s)
  <2>1. Unserved(s) = pend[s].waiters
    BY <1>2 DEF UnservedView
  <2>2. cqe'[t] = NoCqe
    BY DEF CqeKept, None
  <2>3. ServedBy(t)' = pend[s].waiters
    BY <1>1, <2>2 DEF ServedBy
  <2>4. Unserved(cur[t])' = ServedBy(t)'
    BY <1>1, <1>2 DEF UnservedView, None
  <2>5. QED
    BY <1>1, <2>1, <2>3, <2>4
<1>4. \A x \in Slots \ {s} : Unserved(x)' = Unserved(x)
  <2>1. TAKE x \in Slots \ {s}
  <2>2. CASE x \in pend_return
    BY <2>2, UnservedSame
  <2>3. CASE x \notin pend_return /\ Idle(x)
    <3>1. Idle(x)'
      BY <1>1, <2>3 DEF Idle
    <3>2. QED
      BY <2>3, <3>1, UnservedSame
  <2>4. ASSUME NEW u \in Threads, cur[u] = x, dpc[u] # None
        PROVE  Unserved(x)' = Unserved(x)
    <3>1. dpc'[u] # None /\ cur'[u] = x /\ left'[u] = left[u]
      BY <1>1, <2>4
    <3>2. ServedBy(u)' = ServedBy(u)
      BY <3>1 DEF ServedBy
    <3>3. QED
      BY <2>4, <3>1, <3>2, UnservedSame
  <2>5. QED
    BY <2>2, <2>3, <2>4 DEF Idle
<1>5. QED
  BY <1>3, <1>4

LEMMA PlaceSubmit ==
  ASSUME PlaceInv, RingInv', Accept \/ Again \/ Refuse \/ FillSync \/ InlineDone
  PROVE  Once' /\ Parted'
<1> USE DEF PlaceInv, RingInv, ShapeInv, CreditInv, OwnInv, TypeInv, TypeOK
<1>1. /\ Issued \in Slots /\ Issued # None /\ Issued \notin pend_return /\ sealed
      /\ InHand = pend[Issued].waiters /\ InHand \subseteq todo
  BY CoalesceAssumption DEF Accept, Again, Refuse, FillSync, InlineDone, Hands, Issued, DeliverType,
                            Threads, InHand, WindowKept, Owned
<1>2. UnservedView /\ UnservedView'
  BY UnservedIs, UnservedNext
<1>i. PICK i \in Slots : i = Issued
  BY <1>1
<1>3. ASSUME dpc["issuer"] = None PROVE Idle(Issued)
  <2>1. \A t \in Threads : dpc[t] # None => t = "reaper" /\ cur[t] # Issued
    BY <1>1, <1>3, AtHand DEF Threads, Owned
  <2>2. QED
    BY <2>1 DEF Idle
<1>4. CASE Accept
  <2>1. UNCHANGED <<outst, rq, bkt, cq, left, cqe, dpc, sealed, pend, pend_return>> /\ dpc["issuer"] = None
    BY <1>4 DEF Accept, bucketVars, cqVars, Hands
  <2>2. Issued' = None /\ \A t \in Threads : dpc[t] # None => cur'[t] = cur[t]
    BY <1>4, <2>1 DEF Accept, Issued, DeliverType, Threads
  <2>3. \A t \in Threads : ServedBy(t)' = ServedBy(t)
    BY <2>1 DEF ServedBy
  <2>4. \A x \in Slots : Idle(x)' <=> Idle(x)
    BY <2>1, <2>2 DEF Idle
  <2>5. \A x \in Slots : Unserved(x)' = Unserved(x)
    BY <2>1, <2>2, <2>3, <2>4, UnservedSame DEF Idle
  <2>6. InHand' = {} /\ todo' = todo \ InHand
    BY <1>1, <1>4, <2>2 DEF Accept, InHand, Issued
  <2>7. Windowed' = Windowed
    BY <1>1, <2>1, <2>6 DEF Windowed
  <2>8. QED
    BY <2>1, <2>5, <2>7, PlaceSame
<1>5. CASE Again
  <2>1. /\ UNCHANGED <<outst, rq, bkt, cq, left, cqe, dpc, sealed, todo, pend_return>>
        /\ FreeSlots({i}) /\ dpc["issuer"] = None
    BY <1>5, <1>i DEF Again, windowVars, bucketVars, cqVars, Hands
  <2>2. Issued' = None /\ \A t \in Threads : dpc[t] # None => cur'[t] = cur[t]
    BY <1>5, <2>1 DEF Again, Issued, DeliverType, Threads
  <2>3. /\ Unserved(i)' = {}
        /\ \A s \in Slots \ {i} : Unserved(s)' = Unserved(s)
    BY <1>1, <1>i, <2>1, <2>2, PlaceFreed
  <2>4. Unserved(i) = InHand
    BY <1>1, <1>i, <1>2, <1>3, <2>1 DEF UnservedView
  <2>5. InHand' = {}
    BY <2>2 DEF InHand, Issued
  <2>6. Windowed' = Windowed \cup InHand
    BY <1>1, <1>i, <2>1, <2>5 DEF Windowed
  <2>7. Waiting' = Waiting \ InHand /\ InHand \subseteq Waiting
    <3>1. \A s \in Slots \ {i} : Unserved(s) \cap InHand = {}
      BY <1>1, <1>i, <2>4 DEF Once
    <3>2. InHand \subseteq Reqs
      BY <1>1, <1>i, PendType
    <3>3. QED
      BY <1>1, <1>i, <2>3, <2>4, <3>1, <3>2 DEF Waiting
  <2>8. Queued' = Queued /\ Answered' = Answered
    BY <2>1 DEF Queued, Answered
  <2>9. Once'
    <3>1. \A s, x \in Slots : s # x => Unserved(s)' \cap Unserved(x)' = {}
      BY <1>i, <2>3 DEF Once
    <3>2. QED
      BY <2>1, <3>1 DEF Once
  <2>10. Parted'
    BY <2>1, <2>6, <2>7, <2>8 DEF Parted
  <2>11. QED
    BY <2>9, <2>10
<1>6. CASE Refuse \/ FillSync
  <2>1. /\ UNCHANGED <<outst, rq, bkt, cq, cqe, sealed, win, todo, pend, pend_return>>
        /\ dpc["issuer"] = None
    BY <1>6 DEF Refuse, FillSync, windowVars, bucketVars, slotVars, cqVars, Hands
  <2>2. PICK good \in BOOLEAN : StartDelivery("issuer", Issued, good)
    BY <1>6 DEF Refuse, FillSync
  <2>3. \A x \in Slots : Unserved(x)' = Unserved(x)
    BY <1>1, <1>3, <2>1, <2>2, PlaceStart DEF Threads
  <2>4. Issued' = Issued
    BY <2>2 DEF StartDelivery, Issued, DeliverType, Threads
  <2>5. Windowed' = Windowed
    BY <2>1, <2>4 DEF Windowed, InHand, Issued
  <2>6. QED
    BY <2>1, <2>3, <2>5, PlaceSame
<1>7. CASE InlineDone
  <2>1. /\ UNCHANGED <<outst, rq, bkt, cq, left, cqe, sealed, win, pend_return>>
        /\ FreeSlots({i}) /\ dpc["issuer"] = "row" /\ left["issuer"] = {}
    BY <1>7, <1>i DEF InlineDone, ChainServed, bucketVars, cqVars
  <2>2. /\ Issued' = None /\ dpc'["issuer"] = None
        /\ dpc'["reaper"] = dpc["reaper"] /\ cur'["reaper"] = cur["reaper"]
    BY <1>7 DEF InlineDone, EndDelivery, Issued, DeliverType, Threads
  <2>3. /\ Unserved(i)' = {}
        /\ \A s \in Slots \ {i} : Unserved(s)' = Unserved(s)
    <3>1. pend_return' = pend_return \ {i}
      BY <1>1, <1>i, <2>1
    <3>2. \A t \in Threads : dpc'[t] # None => dpc[t] # None /\ cur'[t] = cur[t]
      BY <2>2 DEF Threads
    <3>3. \A t \in Threads : dpc[t] # None => dpc'[t] = dpc[t] \/ cur[t] \in {i}
      BY <1>i, <2>2 DEF Threads, Issued
    <3>4. QED
      BY <1>1, <1>i, <2>1, <3>1, <3>2, <3>3, PlaceFreed
  <2>4. Unserved(i) = {}
    <3>1. cqe["issuer"] = NoCqe
      BY <2>1 DEF CqeKept, Threads
    <3>2. dpc["issuer"] # None
      BY <2>1 DEF None
    <3>3. QED
      BY <1>2, <1>i, <2>1, <3>1, <3>2 DEF UnservedView, ServedBy, Threads, Issued
  <2>5. \A x \in Slots : Unserved(x)' = Unserved(x)
    BY <2>3, <2>4
  <2>6. InHand' = {} /\ todo' = todo \ InHand
    BY <1>1, <1>i, <1>7, <2>2 DEF InlineDone, InHand, Issued
  <2>7. Windowed' = Windowed
    BY <1>1, <1>i, <2>1, <2>6 DEF Windowed
  <2>8. QED
    BY <2>1, <2>5, <2>7, PlaceSame
<1>8. QED
  BY <1>4, <1>5, <1>6, <1>7

LEMMA PlaceReaper ==
  ASSUME PlaceInv, RingInv', ReapPage \/ PageDone \/ ReaperLapDone
  PROVE  Once' /\ Parted'
<1> USE DEF PlaceInv, RingInv, ShapeInv, CreditInv, OwnInv, TypeInv, TypeOK
<1>1. /\ UNCHANGED <<outst, rq, bkt, cq, cqe, sealed, win, todo, pend>> /\ Issued' = Issued
  BY DEF ReapPage, PageDone, ReaperLapDone, StartDelivery, EndDelivery, windowVars, bucketVars,
         slotVars, deliverVars, cqVars, Issued, DeliverType, Threads
<1>2. Windowed' = Windowed
  BY <1>1 DEF Windowed, InHand, Issued
<1>3. CASE ReapPage
  <2>1. PICK s \in rlist : StartDelivery("reaper", s, pend[s].state # "ERROR")
    BY <1>3 DEF ReapPage
  <2>2. /\ s \in Slots /\ s \notin pend_return /\ pend_return' = pend_return
        /\ dpc["reaper"] = None /\ (pend[s].state # "ERROR") \in BOOLEAN
    BY <1>3 DEF ReapPage, ReaperType, Owned, Hands
  <2>3. Idle(s)
    BY <2>2, HandsTaken DEF OneHand, Idle, Threads
  <2>4. \A x \in Slots : Unserved(x)' = Unserved(x)
    BY <1>1, <2>1, <2>2, <2>3, PlaceStart DEF Threads
  <2>5. QED
    BY <1>1, <1>2, <2>4, PlaceSame
<1>4. CASE PageDone
  <2>1. /\ dpc["reaper"] = "row" /\ left["reaper"] = {} /\ left' = left
        /\ pend_return' = pend_return \cup {cur["reaper"]}
        /\ dpc'["reaper"] = None
        /\ dpc'["issuer"] = dpc["issuer"] /\ cur'["issuer"] = cur["issuer"]
    BY <1>4 DEF PageDone, ChainServed, EndDelivery, DeliverType, Threads
  <2>2. UnservedView /\ UnservedView'
    BY UnservedIs, UnservedNext
  <2>3. Unserved(cur["reaper"]) = {}
    <3>1. cqe["reaper"] = NoCqe
      BY <2>1 DEF CqeKept, Threads
    <3>2. dpc["reaper"] # None
      BY <2>1 DEF None
    <3>3. QED
      BY <2>1, <2>2, <3>1, <3>2 DEF UnservedView, ServedBy, Threads
  <2>4. \A x \in pend_return' : Unserved(x)' = {}
    BY <2>2 DEF UnservedView
  <2>5. dpc["issuer"] = None
    BY <2>1, HandsTaken DEF OneHand, None
  <2>6. \A x \in Slots \ {cur["reaper"]} : Unserved(x)' = Unserved(x)
    <3>1. TAKE x \in Slots \ {cur["reaper"]}
    <3>2. Idle(x) /\ Idle(x)'
      BY <2>1, <2>5 DEF Idle, Threads
    <3>3. CASE x \in pend_return
      BY <2>1, <3>3, UnservedSame
    <3>4. CASE x \notin pend_return
      BY <1>1, <2>1, <3>2, <3>4, UnservedSame
    <3>5. QED
      BY <3>3, <3>4
  <2>7. \A x \in Slots : Unserved(x)' = Unserved(x)
    BY <2>1, <2>3, <2>4, <2>6
  <2>8. QED
    BY <1>1, <1>2, <2>7, PlaceSame
<1>5. CASE ReaperLapDone
  <2>1. \A x \in Slots : Unserved(x)' = Unserved(x)
    BY <1>5 DEF ReaperLapDone, Unserved, slotVars, deliverVars
  <2>2. QED
    BY <1>1, <1>2, <2>1, PlaceSame
<1>6. QED
  BY <1>3, <1>4, <1>5

LEMMA PlaceBackend ==
  ASSUME PlaceInv, ReaperLap \/ \E c \in io \cup echoes : Complete(c) \/ Lose(c) \/ Echo(c)
  PROVE  Once' /\ Parted'
<1> USE DEF PlaceInv, RingInv, ShapeInv, CreditInv
<1>1. UNCHANGED <<outst, rq, bkt, cq, cqe, left, cur, dpc, sealed, win, todo, pend_return>>
  BY DEF ReaperLap, Complete, Lose, Echo, windowVars, bucketVars, deliverVars, cqVars
<1>2. \A s \in Slots : pend'[s].waiters = pend[s].waiters
  BY ChainsSame
<1>3. \A s \in Slots : Unserved(s)' = Unserved(s)
  BY <1>1, <1>2 DEF Unserved
<1>4. InHand' = InHand
  BY <1>1, <1>2 DEF InHand, OwnInv, TypeInv, TypeOK, DeliverType, Threads
<1>5. Windowed' = Windowed
  BY <1>1, <1>4 DEF Windowed
<1>6. QED
  BY <1>1, <1>3, <1>5, PlaceSame

\* A row copied is still its requester's, a completion posted no longer.
LEMMA PlaceDeliver ==
  ASSUME PlaceInv, RingInv', NEW t \in Threads, CopyRow(t) \/ ReadCqHead(t) \/ PostCqe(t)
  PROVE  /\ Once' /\ Parted'
         /\ PostCqe(t) => /\ cqe[t].req \in outst \ Answered
                          /\ Answered' = Answered \cup {cqe[t].req}
<1> USE DEF PlaceInv, RingInv, ShapeInv, CreditInv, OwnInv, TypeInv, TypeOK
<1>1. /\ UNCHANGED <<outst, rq, bkt, sealed, win, todo, pend, pend_return, cur>>
      /\ dpc[t] # None /\ dpc'[t] # None
      /\ \A u \in Threads \ {t} : left'[u] = left[u] /\ cqe'[u] = cqe[u] /\ dpc'[u] = dpc[u]
  BY DEF CopyRow, ReadCqHead, PostCqe, windowVars, bucketVars, slotVars, DeliverType, None
<1>2. Windowed' = Windowed /\ Queued' = Queued
  BY <1>1 DEF Windowed, InHand, Queued
<1>3. UnservedView /\ UnservedView'
  BY UnservedIs, UnservedNext
<1>i. PICK i \in Slots : i = cur[t]
  BY <1>1, AtHand
<1>4. \A x \in Slots \ {i} : Unserved(x)' = Unserved(x)
  <2>1. TAKE x \in Slots \ {i}
  <2>2. \A u \in Threads : cur[u] = x /\ dpc[u] # None <=> cur'[u] = x /\ dpc'[u] # None
    BY <1>1, <1>i
  <2>3. CASE x \in pend_return
    BY <1>1, <2>3, UnservedSame
  <2>4. CASE x \notin pend_return /\ Idle(x)
    BY <1>1, <2>2, <2>4, UnservedSame DEF Idle
  <2>5. ASSUME NEW u \in Threads, cur[u] = x, dpc[u] # None
        PROVE  Unserved(x)' = Unserved(x)
    <3>1. ServedBy(u)' = ServedBy(u)
      BY <1>1, <1>i, <2>5 DEF ServedBy
    <3>2. QED
      BY <1>1, <2>2, <2>5, <3>1, UnservedSame
  <2>6. QED
    BY <2>3, <2>4, <2>5 DEF Idle
<1>5. Unserved(i) = ServedBy(t) /\ Unserved(i)' = ServedBy(t)'
  BY <1>1, <1>3, <1>i DEF UnservedView
<1>6. CASE CopyRow(t)
  <2>1. PICK r \in left[t] : /\ left' = [left EXCEPT ![t] = @ \ {r}]
                             /\ cqe' = [cqe EXCEPT ![t] = [req |-> r, ok |-> ok[t],
                                   data |-> IF ok[t] THEN staging[cur[t]] ELSE NoPage]]
    BY <1>6 DEF CopyRow
  <2>2. r \in Reqs /\ cqe[t] = NoCqe /\ cq' = cq
    BY <1>6 DEF CopyRow, CqeKept, DeliverType, cqVars
  <2>3. left'[t] = left[t] \ {r} /\ cqe'[t].req = r
    BY <2>1 DEF DeliverType
  <2>4. cqe'[t] # NoCqe
    BY <2>2, <2>3, CoalesceAssumption DEF NoCqe
  <2>5. ServedBy(t)' = ServedBy(t)
    BY <2>2, <2>3, <2>4 DEF ServedBy
  <2>6. \A x \in Slots : Unserved(x)' = Unserved(x)
    BY <1>4, <1>5, <2>5
  <2>7. Once' /\ Parted'
    BY <1>1, <1>2, <2>2, <2>6, PlaceSame
  <2>8. ~PostCqe(t)
    BY <1>6 DEF CopyRow, PostCqe
  <2>9. QED
    BY <2>7, <2>8
<1>7. CASE ReadCqHead(t)
  <2>1. UNCHANGED <<left, cqe, cq>>
    BY <1>7 DEF ReadCqHead, cqVars
  <2>2. ServedBy(t)' = ServedBy(t)
    BY <2>1 DEF ServedBy
  <2>3. \A x \in Slots : Unserved(x)' = Unserved(x)
    BY <1>4, <1>5, <2>2
  <2>4. Once' /\ Parted'
    BY <1>1, <1>2, <2>1, <2>3, PlaceSame
  <2>5. ~PostCqe(t)
    BY <1>7 DEF ReadCqHead, PostCqe
  <2>6. QED
    BY <2>4, <2>5
<1>8. CASE PostCqe(t)
  <2>1. /\ cq_head % CqEntries \in Cells /\ cq[cq_head % CqEntries] = NoCqe
        /\ \A c \in Cells : cq'[c] = IF c = cq_head % CqEntries THEN cqe[t] ELSE cq[c]
    BY <1>8, RingPost
  <2>2. PICK r : r = cqe[t].req
    OBVIOUS
  <2>3. cqe[t] # NoCqe /\ r \in Reqs /\ r \notin left[t] /\ left'[t] = left[t] /\ cqe'[t] = NoCqe
    <3>1. cqe[t] # NoCqe /\ cqe[t].req \notin left[t]
      BY <1>8 DEF PostCqe, CqeKept
    <3>2. cqe[t] \in Cqe
      BY <3>1 DEF DeliverType
    <3>3. left'[t] = left[t] /\ cqe'[t] = NoCqe
      BY <1>8 DEF PostCqe, DeliverType
    <3>4. QED
      BY <2>2, <3>1, <3>2, <3>3 DEF Cqe
  <2>4. Unserved(i) = left[t] \cup {r} /\ Unserved(i)' = Unserved(i) \ {r}
    BY <1>5, <2>2, <2>3 DEF ServedBy
  <2>5. r \in Waiting /\ r \notin Answered
    BY <2>3, <2>4 DEF Waiting, Parted
  <2>6. Answered' = Answered \cup {r}
    <3>1. NoCqe.req \notin Reqs
      BY CoalesceAssumption DEF NoCqe
    <3>2. QED
      BY <2>1, <2>2, <2>3, <3>1 DEF Answered
  <2>7. Waiting' = Waiting \ {r}
    <3>1. \A x \in Slots \ {i} : r \notin Unserved(x)
      BY <2>4 DEF Once
    <3>2. QED
      BY <1>4, <2>4, <3>1 DEF Waiting
  <2>8. Once'
    <3>1. \A x, y \in Slots : x # y => Unserved(x)' \cap Unserved(y)' = {}
      BY <1>4, <2>4 DEF Once
    <3>2. \A c, d \in Cells : cq'[c].req = cq'[d].req /\ cq'[c] # NoCqe => c = d
      <4>1. \A c \in Cells : cq[c].req # r
        BY <2>3, <2>5 DEF Answered
      <4>2. \A c, d \in Cells : cq[c].req = cq[d].req /\ cq[c] # NoCqe => c = d
        BY DEF Once
      <4>3. QED
        BY <2>1, <2>2, <4>1, <4>2
    <3>3. QED
      BY <1>1, <3>1, <3>2 DEF Once
  <2>9. Parted'
    BY <1>1, <1>2, <2>5, <2>6, <2>7 DEF Parted
  <2>10. r \in outst
    BY <2>5 DEF Parted
  <2>11. QED
    BY <2>2, <2>5, <2>6, <2>8, <2>9, <2>10
<1>9. QED
  BY <1>6, <1>7, <1>8

LEMMA PlaceCollect ==
  ASSUME PlaceInv, RingInv', Collect
  PROVE  /\ Once' /\ Parted'
         /\ \E r \in Answered : outst' = outst \ {r} /\ Answered' = Answered \ {r}
<1> USE DEF PlaceInv, RingInv, ShapeInv, CreditInv, OwnInv, TypeInv, TypeOK
<1>1. UNCHANGED <<rq, bkt, sealed, win, todo, pend, pend_return, cur, dpc, left, cqe>>
  BY DEF Collect, windowVars, bucketVars, slotVars, deliverVars
<1>2. \A x : Unserved(x)' = Unserved(x)
  BY <1>1 DEF Unserved
<1>3. Windowed' = Windowed /\ Queued' = Queued /\ Waiting' = Waiting
  BY <1>1, <1>2 DEF Windowed, InHand, Queued, Waiting
<1>4. /\ cq_tail % CqEntries \in Cells /\ cq[cq_tail % CqEntries] # NoCqe
      /\ \A c \in Cells : cq'[c] = IF c = cq_tail % CqEntries THEN NoCqe ELSE cq[c]
  BY RingCollect
<1>5. PICK r : r = cq[cq_tail % CqEntries].req
  OBVIOUS
<1>6. r \in Reqs
  BY <1>4, <1>5 DEF CqType, Cqe
<1>7. r \in Answered
  BY <1>4, <1>5, <1>6 DEF Answered
<1>8. NoCqe.req \notin Reqs
  BY CoalesceAssumption DEF NoCqe
<1>9. \A c \in Cells : cq[c].req = r => c = cq_tail % CqEntries
  BY <1>4, <1>5 DEF Once
<1>10. Answered' = Answered \ {r}
  BY <1>4, <1>5, <1>8, <1>9 DEF Answered
<1>11. outst' = outst \ {r}
  BY <1>5 DEF Collect
<1>12. Once'
  <2>1. \A c, d \in Cells : cq'[c].req = cq'[d].req /\ cq'[c] # NoCqe => c = d
    <3>1. TAKE c, d \in Cells
    <3>2. HAVE cq'[c].req = cq'[d].req /\ cq'[c] # NoCqe
    <3>3. cq'[c] = cq[c] /\ cq[c] # NoCqe /\ cq[c].req \in Reqs
      BY <1>4, <3>2 DEF CqType, Cqe
    <3>4. cq'[d] = cq[d]
      BY <1>4, <1>8, <3>2, <3>3
    <3>5. QED
      BY <3>2, <3>3, <3>4 DEF Once
  <2>2. QED
    BY <1>1, <1>2, <2>1 DEF Once
<1>13. Parted'
  BY <1>1, <1>3, <1>7, <1>10, <1>11 DEF Parted
<1>14. QED
  BY <1>7, <1>10, <1>11, <1>12, <1>13

LEMMA PlaceNext ==
  ASSUME Sound
  PROVE  PlaceInv /\ [Next]_vars => PlaceInv'
<1> SUFFICES ASSUME PlaceInv, [Next]_vars PROVE Once' /\ Parted'
  BY RingNext DEF PlaceInv
<1>1. RingInv'
  BY RingNext DEF PlaceInv
<1>2. CASE UNCHANGED vars
  <2>1. UNCHANGED <<outst, rq, bkt, cq, cqe, left, cur, dpc, sealed, win, todo, pend, pend_return>>
    BY <1>2 DEF vars, windowVars, bucketVars, slotVars, deliverVars, cqVars
  <2>2. (\A s \in Slots : Unserved(s)' = Unserved(s)) /\ Windowed' = Windowed
    BY <2>1 DEF Unserved, Windowed, InHand
  <2>3. QED
    BY <2>1, <2>2, PlaceSame DEF PlaceInv
<1>3. CASE IssuerStep
  BY <1>1, <1>3, PlaceFill, PlaceDrain, PlaceIssue, PlaceSubmit, PlaceDeliver DEF IssuerStep, Threads
<1>4. CASE ReaperStep
  BY <1>1, <1>4, PlaceReaper, PlaceBackend, PlaceDeliver DEF ReaperStep, Threads
<1>5. CASE \/ \E c \in io : Complete(c) \/ Lose(c)
           \/ \E c \in echoes : Echo(c)
  BY <1>5, PlaceBackend
<1>6. QED
  BY <1>1, <1>2, <1>3, <1>4, <1>5, PlaceClient, PlaceCollect DEF Next

\* The positions of the ring, oldest first, and the cells they are in.
LEMMA PostedCells ==
  ASSUME RingInv
  PROVE  /\ Used \in Nat /\ Used <= CqEntries /\ cq_tail \in Int
         /\ DOMAIN Posted = 1 .. Used
         /\ \A i \in 1 .. Used : CellAt(i - 1) \in Cells /\ Posted[i] = cq[CellAt(i - 1)]
<1>1. CqEntries \in Nat \ {0} /\ Modulus \in Nat /\ Modulus > CqEntries
  BY CoalesceAssumption
<1>2. cq_head \in 0 .. Modulus - 1 /\ cq_tail \in 0 .. Modulus - 1
  BY DEF RingInv, ShapeInv, CreditInv, OwnInv, TypeInv, TypeOK, CqType
<1>3. Used \in Nat /\ Used <= CqEntries
  <2>1. Used = IF cq_head >= cq_tail THEN cq_head - cq_tail ELSE cq_head - cq_tail + Modulus
    BY <1>2, WrapDist DEF Used
  <2>2. QED
    BY <1>1, <1>2, <2>1 DEF RingInv, RingKept
<1>4. DOMAIN Posted = 1 .. Used
  BY DEF Posted, Used
<1>5. ASSUME NEW i \in 1 .. Used
      PROVE  CellAt(i - 1) \in Cells /\ Posted[i] = cq[CellAt(i - 1)]
  <2>1. cq_tail + (i - 1) \in Int /\ cq_tail + i - 1 = cq_tail + (i - 1)
    BY <1>2, <1>3
  <2>2. CellAt(i - 1) \in Cells
    BY <1>1, <2>1, ModRange DEF CellAt, Cells
  <2>3. Wrap(cq_tail + (i - 1)) % CqEntries = CellAt(i - 1)
    BY <2>1, WrapCell, Zenon DEF CellAt
  <2>4. Posted[i] = cq[Wrap(cq_tail + i - 1) % CqEntries]
    BY <1>3 DEF Posted, Used
  <2>5. QED
    BY <2>1, <2>2, <2>3, <2>4
<1>6. QED
  BY <1>2, <1>3, <1>4, <1>5

\* The one position of an answered request, and none of any other.
LEMMA PostedOnce ==
  ASSUME PlaceInv, NEW r \in Reqs
  PROVE  /\ r \in Answered => \E i \in 1 .. Used : {j \in DOMAIN Posted : Posted[j].req = r} = {i}
         /\ r \notin Answered => {j \in DOMAIN Posted : Posted[j].req = r} = {}
<1> USE DEF PlaceInv
<1>1. /\ Used \in Nat /\ Used <= CqEntries /\ cq_tail \in Int /\ CqEntries \in Nat
      /\ DOMAIN Posted = 1 .. Used
      /\ \A i \in 1 .. Used : CellAt(i - 1) \in Cells /\ Posted[i] = cq[CellAt(i - 1)]
  BY PostedCells, CoalesceAssumption
<1>2. CASE r \notin Answered
  BY <1>1, <1>2 DEF Answered
<1>3. CASE r \in Answered
  <2>1. PICK c \in Cells : cq[c].req = r
    BY <1>3 DEF Answered
  <2>2. cq[c] # NoCqe
    BY <2>1, CoalesceAssumption DEF NoCqe
  <2>3. PICK k \in 0 .. Used - 1 : c = CellAt(k)
    BY <2>2 DEF RingInv, RingKept
  <2>4. k + 1 \in 1 .. Used /\ (k + 1) - 1 = k
    BY <1>1
  <2>5. Posted[k + 1].req = r
    BY <1>1, <2>1, <2>3, <2>4
  <2>6. ASSUME NEW j \in 1 .. Used, Posted[j].req = r
        PROVE  j = k + 1
    <3>1. CellAt(j - 1) \in Cells /\ cq[CellAt(j - 1)].req = r
      BY <1>1, <2>6
    <3>2. CellAt(k) = CellAt(j - 1)
      BY <2>1, <2>2, <2>3, <3>1 DEF Once
    <3>3. k \in 0 .. CqEntries - 1 /\ j - 1 \in 0 .. CqEntries - 1
      BY <1>1
    <3>4. k = j - 1
      BY <1>1, <3>2, <3>3, CellsApart
    <3>5. QED
      BY <1>1, <3>4
  <2>7. {j \in DOMAIN Posted : Posted[j].req = r} = {k + 1}
    BY <1>1, <2>4, <2>5, <2>6
  <2>8. QED
    BY <1>3, <2>4, <2>7
<1>4. QED
  BY <1>2, <1>3

\* Counting in the ring and over the slots comes to one or none.
LEMMA QueuedCount ==
  ASSUME PlaceInv, NEW r \in Reqs
  PROVE  Cardinality({i \in DOMAIN rq : rq[i] = r}) = IF r \in Queued THEN 1 ELSE 0
<1>1. CASE r \in Queued
  <2>1. PICK k \in DOMAIN rq : rq[k] = r
    BY <1>1 DEF Queued
  <2>2. {i \in DOMAIN rq : rq[i] = r} = {k}
    BY <2>1 DEF PlaceInv, Once
  <2>3. QED
    BY <1>1, <2>2, FS_Singleton
<1>2. CASE r \notin Queued
  <2>1. {i \in DOMAIN rq : rq[i] = r} = {}
    BY <1>2 DEF Queued
  <2>2. QED
    BY <1>2, <2>1, FS_EmptySet
<1>3. QED
  BY <1>1, <1>2

LEMMA WaitingCount ==
  ASSUME PlaceInv, NEW r \in Reqs
  PROVE  Cardinality({s \in Slots : r \in Unserved(s)}) = IF r \in Waiting THEN 1 ELSE 0
<1>1. CASE r \in Waiting
  <2>1. PICK s \in Slots : r \in Unserved(s)
    BY <1>1 DEF Waiting
  <2>2. {x \in Slots : r \in Unserved(x)} = {s}
    BY <2>1 DEF PlaceInv, Once
  <2>3. QED
    BY <1>1, <2>2, FS_Singleton
<1>2. CASE r \notin Waiting
  <2>1. {s \in Slots : r \in Unserved(s)} = {}
    BY <1>2 DEF Waiting
  <2>2. QED
    BY <1>2, <2>1, FS_EmptySet
<1>3. QED
  BY <1>1, <1>2

LEMMA AnsweredCount ==
  ASSUME PlaceInv, NEW r \in Reqs
  PROVE  Cardinality({i \in DOMAIN Posted : Posted[i].req = r}) = IF r \in Answered THEN 1 ELSE 0
<1>1. CASE r \in Answered
  BY <1>1, PostedOnce, FS_Singleton
<1>2. CASE r \notin Answered
  BY <1>2, PostedOnce, FS_EmptySet
<1>3. QED
  BY <1>1, <1>2

LEMMA PlacesCounted == PlaceInv => NothingLostOrRepeated
<1> SUFFICES ASSUME PlaceInv, NEW r \in Reqs PROVE Copies(r) = IF r \in outst THEN 1 ELSE 0
  BY DEF NothingLostOrRepeated
<1>1. Copies(r) = (IF r \in Queued THEN 1 ELSE 0) + (IF r \in Windowed THEN 1 ELSE 0)
                  + (IF r \in bkt THEN 1 ELSE 0) + (IF r \in Waiting THEN 1 ELSE 0)
                  + (IF r \in Answered THEN 1 ELSE 0)
  BY QueuedCount, WaitingCount, AnsweredCount DEF Copies, Windowed
<1>2. QED
  BY <1>1 DEF PlaceInv, Parted

\* Where one thread posts completions - not split, or split with a provider
\* that never refuses a read and reads that never time out - each request under
\* way is in exactly one place of the shard and any other in none: none is lost
\* or answered twice, through windows, buckets, undone and repeated reads.
THEOREM NoneLostOrRepeated ==
  ASSUME Sound, OneWriter
  PROVE  Spec => []NothingLostOrRepeated
<1>1. PlaceInv /\ [Next]_vars => PlaceInv'
  BY PlaceNext
<1>2. Init => PlaceInv
  BY PlaceInit
<1>3. QED
  BY <1>1, <1>2, PlacesCounted, PTL DEF Spec
-----------------------------------------------------------------------------
(* The promise to the application.                                          *)

StoreInv == RowInv /\ PlaceInv

\* What the application can tell of a request.
StatusOf(r) ==
  IF r \notin outst THEN "idle"
  ELSE IF r \notin Answered THEN "pending"
  ELSE IF \E c \in Cells : cq[c].req = r /\ ~cq[c].ok THEN "error" ELSE "row"

StatusIsView == StatusView = [r \in Reqs |-> StatusOf(r)]

LEMMA StatusIs == StoreInv => StatusIsView
<1> SUFFICES ASSUME StoreInv, NEW r \in Reqs PROVE StatusView[r] = StatusOf(r)
  BY DEF StatusIsView, StatusView
<1> DEFINE mine == {i \in DOMAIN Posted : Posted[i].req = r}
<1>1. PlaceInv /\ RowInv /\ RingInv
  BY DEF StoreInv, PlaceInv
<1>2. CASE r \notin outst
  BY <1>2 DEF StatusView, StatusOf
<1>3. CASE r \in outst /\ r \notin Answered
  <2>1. mine = {}
    BY <1>1, <1>3, PostedOnce
  <2>2. QED
    BY <1>3, <2>1 DEF StatusView, StatusOf
<1>4. CASE r \in outst /\ r \in Answered
  <2>1. PICK i \in 1 .. Used : mine = {i}
    BY <1>1, <1>4, PostedOnce
  <2>2. i \in DOMAIN Posted /\ Posted[i].req = r
    BY <2>1
  <2>3. CellAt(i - 1) \in Cells /\ Posted[i] = cq[CellAt(i - 1)]
    BY <1>1, PostedCells
  <2>4. (CHOOSE j \in mine : TRUE) = i
    BY <2>1
  <2>5. OwnPage(Posted[i]) \/ LateDmaPossible
    BY <1>1, <2>2, RowsPosted DEF RowsAreOwn
  <2>6. StatusView[r] = IF ~Posted[i].ok THEN "error" ELSE "row"
    BY <1>4, <2>1, <2>4, <2>5 DEF StatusView
  <2>7. Posted[i] # NoCqe
    BY <2>2, CoalesceAssumption DEF NoCqe
  <2>8. \A c \in Cells : cq[c].req = r => cq[c] = Posted[i]
    BY <1>1, <2>2, <2>3, <2>7 DEF PlaceInv, Once
  <2>9. (\E c \in Cells : cq[c].req = r /\ ~cq[c].ok) <=> ~Posted[i].ok
    BY <2>2, <2>3, <2>8
  <2>10. QED
    BY <1>4, <2>6, <2>9 DEF StatusOf
<1>5. QED
  BY <1>2, <1>3, <1>4

LEMMA StatusNext == StoreInv' => StatusIsView'
BY StatusIs, PTL

LEMMA StoreInit ==
  ASSUME Sound, OneWriter
  PROVE  Init => Store!Init
<1> SUFFICES ASSUME Init PROVE Store!Init
  OBVIOUS
<1>1. StatusIsView
  BY RowInit, PlaceInit, StatusIs DEF StoreInv
<1>2. \A r \in Reqs : StatusOf(r) = "idle"
  BY DEF Init, StatusOf
<1>3. QED
  BY <1>1, <1>2 DEF StatusIsView, Store!Init

\* A step that neither pushes nor answers nor collects shows nothing.
LEMMA StatusSame ==
  ASSUME StatusIsView, StatusIsView', UNCHANGED <<outst, cq>>
  PROVE  StatusView' = StatusView
<1>1. Answered' = Answered
  BY DEF Answered
<1>2. \A r \in Reqs : StatusOf(r)' = StatusOf(r)
  BY <1>1 DEF StatusOf
<1>3. QED
  BY <1>2 DEF StatusIsView

LEMMA StoreStep ==
  ASSUME StoreInv, StoreInv', [Next]_vars
  PROVE  [Store!Next]_StatusView
<1> USE DEF StoreInv, PlaceInv, RingInv, ShapeInv, CreditInv, OwnInv, TypeInv, TypeOK
<1>1. StatusIsView /\ StatusIsView'
  BY StatusIs, StatusNext
<1>2. ASSUME NEW r \in Reqs, NEW v, StatusOf(r)' = v,
             \A x \in Reqs \ {r} : StatusOf(x)' = StatusOf(x)
      PROVE  StatusView[r] = StatusOf(r) /\ StatusView' = [StatusView EXCEPT ![r] = v]
  BY <1>1, <1>2 DEF StatusIsView
<1>3. ASSUME NEW r \in Reqs, Push(r)
      PROVE  Store!Next
  <2>1. r \notin outst /\ outst' = outst \cup {r} /\ cq' = cq
    BY <1>3 DEF Push, cqVars
  <2>2. Answered' = Answered /\ r \notin Answered
    BY <2>1 DEF Answered, Parted
  <2>3. StatusOf(r) = "idle" /\ StatusOf(r)' = "pending"
    BY <2>1, <2>2 DEF StatusOf
  <2>4. \A x \in Reqs \ {r} : StatusOf(x)' = StatusOf(x)
    BY <2>1, <2>2 DEF StatusOf
  <2>5. Store!Submit(r)
    BY <1>2, <2>3, <2>4 DEF Store!Submit
  <2>6. QED
    BY <2>5 DEF Store!Next
<1>4. CASE Collect
  <2>1. PICK r \in Answered : outst' = outst \ {r} /\ Answered' = Answered \ {r}
    BY <1>4, PlaceCollect
  <2>2. r \in Reqs /\ r \in outst
    BY DEF Answered, Parted
  <2>3. StatusOf(r) \in {"row", "error"} /\ StatusOf(r)' = "idle"
    BY <2>1, <2>2 DEF StatusOf
  <2>4. \A c \in Cells : cq'[c] = cq[c] \/ cq'[c] = NoCqe
    BY <1>4 DEF Collect, CqType
  <2>5. NoCqe.req \notin Reqs
    BY CoalesceAssumption DEF NoCqe
  <2>6. ASSUME NEW x \in Reqs \ {r}
        PROVE  StatusOf(x)' = StatusOf(x)
    <3>1. \A c \in Cells : cq'[c].req = x => cq'[c] = cq[c]
      BY <2>4, <2>5
    <3>2. \A c \in Cells : cq[c].req = x => cq'[c] = cq[c]
      <4>1. \A c \in Cells : c # cq_tail % CqEntries => cq'[c] = cq[c]
        BY <1>4, RingCollect
      <4>2. outst' = outst \ {cq[cq_tail % CqEntries].req} /\ cq_tail % CqEntries \in Cells
        BY <1>4, RingCollect DEF Collect
      <4>3. cq[cq_tail % CqEntries].req = r
        BY <2>1, <2>2, <4>2
      <4>4. QED
        BY <4>1, <4>3
    <3>3. QED
      BY <2>1, <3>1, <3>2 DEF StatusOf
  <2>7. Store!Collect(r)
    BY <1>2, <2>2, <2>3, <2>6 DEF Store!Collect
  <2>8. QED
    BY <2>2, <2>7 DEF Store!Next
<1>5. ASSUME NEW t \in Threads, PostCqe(t)
      PROVE  Store!Next
  <2>1. PICK r : r = cqe[t].req
    OBVIOUS
  <2>2. r \in outst /\ r \notin Answered /\ Answered' = Answered \cup {r} /\ outst' = outst
    BY <1>5, <2>1, PlaceDeliver DEF PostCqe
  <2>3. r \in Reqs
    BY <2>2 DEF ClientType
  <2>4. \A c \in Cells : cq'[c] = IF c = cq_head % CqEntries THEN cqe[t] ELSE cq[c]
    BY <1>5, RingPost
  <2>5. cq_head % CqEntries \in Cells /\ cq[cq_head % CqEntries] = NoCqe
    BY <1>5, RingPost
  <2>6. NoCqe.req \notin Reqs
    BY CoalesceAssumption DEF NoCqe
  <2>7. StatusOf(r) = "pending" /\ StatusOf(r)' \in {"row", "error"}
    BY <2>2 DEF StatusOf
  <2>8. ASSUME NEW x \in Reqs \ {r}
        PROVE  StatusOf(x)' = StatusOf(x)
    <3>1. \A c \in Cells : cq'[c].req = x <=> cq[c].req = x
      BY <2>1, <2>4, <2>5, <2>6
    <3>2. \A c \in Cells : cq[c].req = x => cq'[c] = cq[c]
      BY <2>4, <2>5, <2>6
    <3>3. QED
      BY <2>2, <3>1, <3>2 DEF StatusOf
  <2>9. Store!Answer(r)
    <3>1. PICK a \in {"row", "error"} : StatusOf(r)' = a
      BY <2>7
    <3>2. StatusView[r] = "pending" /\ StatusView' = [StatusView EXCEPT ![r] = a]
      BY <1>2, <2>3, <2>7, <2>8, <3>1
    <3>3. QED
      BY <3>2 DEF Store!Answer
  <2>10. QED
    BY <2>3, <2>9 DEF Store!Next
<1>6. CASE UNCHANGED <<outst, cq>>
  BY <1>1, <1>6, StatusSame
<1>7. CASE \/ UNCHANGED vars \/ DrainReturns \/ PopReq \/ FillOver \/ Seal \/ KeepFilling \/ Defer
           \/ WindowDone \/ Bin \/ EvictFull \/ BinOver \/ EvictFullest \/ KeepBinned \/ Issue
           \/ Accept \/ Again \/ Refuse \/ FillSync \/ InlineDone \/ ReaperLap \/ ReapPage \/ PageDone
           \/ ReaperLapDone \/ \E t \in Threads : CopyRow(t) \/ ReadCqHead(t)
           \/ \E c \in io \cup echoes : Complete(c) \/ Lose(c) \/ Echo(c)
  <2>1. UNCHANGED <<outst, cq>>
    BY <1>7 DEF DrainReturns, PopReq, FillOver, Seal, KeepFilling, Bin, EvictFull, BinOver,
      EvictFullest, KeepBinned, Issue, Defer, Accept, Again, Refuse, FillSync, InlineDone, WindowDone,
      CopyRow, ReadCqHead, ReaperLap, ReapPage, PageDone, ReaperLapDone, Complete, Lose, Echo, vars, cqVars
  <2>2. QED
    BY <1>6, <2>1
<1>8. QED
  BY <1>3, <1>4, <1>5, <1>7 DEF Next, IssuerStep, ReaperStep, Threads

\* Under the same conditions the shard keeps the whole promise made to the
\* application: a request is answered once, with a row of its own page or an
\* error, and no other step of it shows.
THEOREM StoreImplemented ==
  ASSUME Sound, OneWriter
  PROVE  Spec => ImplementsStore
<1>1. RowInv /\ [Next]_vars => RowInv'
  BY RowNext
<1>2. PlaceInv /\ [Next]_vars => PlaceInv'
  BY PlaceNext
<1>3. StoreInv /\ StoreInv' /\ [Next]_vars => [Store!Next]_StatusView
  BY StoreStep
<1>4. Init => RowInv /\ PlaceInv /\ Store!Init
  BY RowInit, PlaceInit, StoreInit
<1>5. StoreInv <=> RowInv /\ PlaceInv
  BY DEF StoreInv
<1>6. QED
  BY <1>1, <1>2, <1>3, <1>4, <1>5, PTL DEF Spec, ImplementsStore, Store!Spec
=============================================================================
