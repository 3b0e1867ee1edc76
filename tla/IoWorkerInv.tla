---------------------------- MODULE IoWorkerInv ----------------------------
(***************************************************************************)
(* What is true of the I/O path between any two steps: the inductive       *)
(* invariant of work lists, workers, queues and write buffer, part by      *)
(* part.                                                                   *)
(***************************************************************************)
EXTENDS IoWorker, CursorTheorems

\* io_lat_ns is changed only with no I/O under way, or never.
Steady == \A k \in Configs : k.switch # "any"

SqSlots == 0 .. SqSize - 1
CqSlots == 0 .. CqSize - 1

(* The two lists of a worker with N entries: s lists them all, first the m that are on
   the live list, then the free ones, each in the order of its list. *)
Order(N, s) ==
  /\ s \in [0 .. N - 1 -> 0 .. N - 1]
  /\ \A i, j \in 0 .. N - 1 : s[i] = s[j] => i = j
  /\ \A e \in 0 .. N - 1 : \E i \in 0 .. N - 1 : s[i] = e

Linked(N, s, m, nx, pv) ==
  /\ \A i \in 0 .. N - 1 : nx[s[i]] = IF i = m - 1 \/ i = N - 1 THEN Nil ELSE s[i + 1]
  /\ \A i \in 0 .. m - 1 : pv[s[i]] = IF i = 0 THEN Nil ELSE s[i - 1]

Ends(N, s, m, first, last, free, free_end) ==
  /\ first = IF m = 0 THEN Nil ELSE s[0]
  /\ m > 0 => last = s[m - 1]
  /\ free = s[m] /\ free_end = s[N - 1]

\* An entry has something to do only on the live list, and until it is completed.
Loaded(N, s, m, entries) ==
  /\ \A i \in 0 .. N - 1 : entries[s[i]].op # None => i < m /\ ~entries[s[i]].completed
  /\ Steady => \A i \in 0 .. m - 1 : entries[s[i]].completed \/ entries[s[i]].op # None

\* A worker is at a live entry; on its way on it may have been left behind on the
\* free list, and then all from there on are completed.
Standing(N, s, m, entries, pc, c) ==
  /\ pc \in {"top", "signal"} => c = Nil
  /\ pc \in {"copied", "mark"} => \E i \in 0 .. m - 1 : c = s[i] /\ ~entries[s[i]].completed
  /\ pc = "look" => \/ c = Nil
                    \/ \E i \in 0 .. N - 1 :
                         c = s[i] /\ (i < m \/ \A j \in i .. N - 1 : entries[s[j]].completed)

IsList(N, s, m, nx, pv, first, last, free, free_end, entries, pc, c) ==
  /\ Order(N, s) /\ Linked(N, s, m, nx, pv) /\ Ends(N, s, m, first, last, free, free_end)
  /\ Loaded(N, s, m, entries) /\ Standing(N, s, m, entries, pc, c)

ListsAre ==
  \A w \in Workers : \E s \in [Entries -> Entries], m \in Entries :
    IsList(conf.entries, s, m, next[w], prev[w], io_seq[w], io_seq_end[w], free_seq[w],
           free_seq_end[w], work[w], wpc[w], curr[w])

\* No buffer space is released that no write took: what is left and what is still to be
\* released is not more than there was.
InternalActors == {a \in Actors : apc[a] = "internal"}
Space == Cardinality(Unreleased) + Cardinality(InternalActors) + buf
NoneTwice == Space <= BufSize

\* An actor off its polling loop has a queue at hand.
AtHand == \A a \in Actors : apc[a] # "poll" => aq[a] \in Queues

Inv1 == TypeOK /\ ListsAre /\ NoneTwice /\ AtHand

-----------------------------------------------------------------------------
(* The rest is true if the path is changed only when all is quiet.         *)

\* Either the dispatcher takes the commands from the queues, or each worker from its own.
Roles ==
  /\ lat => /\ apc[Dispatcher] = "poll"
            /\ \A w \in Workers : wpc[w] = "top" /\ apc[w] \in {"poll", "cmd"}
  /\ ~lat => \A w \in Workers : apc[w] = "poll"
  /\ \A w \in Workers : apc[w] # "poll" => WorkerOf(aq[w]) = w

Owner(q) == IF lat THEN WorkerOf(q) ELSE Dispatcher
Busy(q) == apc[Owner(q)] # "poll" /\ aq[Owner(q)] = q

\* The commands of a queue that nobody has dealt with yet: from Pos on.
Pos(q) ==
  IF ~Busy(q) THEN old_dbs[q]
  ELSE IF apc[Owner(q)] = "reclaim" THEN After1(at[Owner(q)], SqSize) ELSE at[Owner(q)]
Waiting(q) == Between(Pos(q), dbs[q], SqSize)

\* An actor reads on within what is waiting; with room in the buffer it enqueues a write
\* and its release.
Reads(a, q) ==
  /\ Between(Pos(q), anew[a], SqSize) \subseteq Waiting(q)
  /\ apc[a] \in {"internal", "enqueue", "reclaim"} => at[a] # anew[a]
  /\ apc[a] = "internal" => sq[q][at[a]] \in Writes

Reading == \A a \in Actors, q \in Queues : apc[a] # "poll" /\ aq[a] = q => Reads(a, q)

\* The three places a command can be in.
Asked == [q \in Queues |-> [i \in SqSlots |-> IF i \in Waiting(q) THEN sq[q][i] ELSE None]]
Carries(w, e) ==
  IF work[w][e].op = Internal \/ (wpc[w] = "mark" /\ curr[w] = e) THEN None ELSE work[w][e].op
Listed == [w \in Workers |-> [e \in Entries |-> Carries(w, e)]]
New == Between(host_head, cq_head, CqSize)
Answered == [i \in CqSlots |-> IF i \in New THEN cq[i].cmd ELSE None]

\* A command that was sent is in one place, and only such commands are.
Apart(Q, S, W, E, C, asked, listed, answered) ==
  /\ \A p, q \in Q, i, j \in S :
       asked[q][i] # None /\ asked[q][i] = asked[p][j] => p = q /\ i = j
  /\ \A w, v \in W, e, f \in E :
       listed[w][e] # None /\ listed[w][e] = listed[v][f] => w = v /\ e = f
  /\ \A i, j \in C : answered[i] # None /\ answered[i] = answered[j] => i = j
  /\ \A q \in Q, i \in S, w \in W, e \in E : asked[q][i] # None => asked[q][i] # listed[w][e]
  /\ \A q \in Q, i \in S, j \in C : asked[q][i] # None => asked[q][i] # answered[j]
  /\ \A w \in W, e \in E, j \in C : listed[w][e] # None => listed[w][e] # answered[j]

Sent(Q, S, W, E, C, asked, listed, answered, f) ==
  \A c \in Cmds : f[c] = "sent" <=>
    \/ \E q \in Q, i \in S : asked[q][i] = c
    \/ \E w \in W, e \in E : listed[w][e] = c
    \/ \E i \in C : answered[i] = c

Settled(asked, listed, answered, f) ==
  /\ Apart(Queues, SqSlots, Workers, Entries, CqSlots, asked, listed, answered)
  /\ Sent(Queues, SqSlots, Workers, Entries, CqSlots, asked, listed, answered, f)

\* Only commands of the host are in queues.
Named ==
  /\ \A q \in Queues : \A i \in Waiting(q) : sq[q][i] \in Cmds
  /\ \A i \in New : cq[i].cmd \in Cmds
  /\ \A c \in Cmds : fate[c] # "idle" => c \in conf.cmds

Places == Settled(Asked, Listed, Answered, fate) /\ Named

\* The phase bits, around the ring from the host's place.
Phases ==
  /\ cq_phase = IF cq_head >= host_head THEN host_phase ELSE 1 - host_phase
  /\ \A i \in CqSlots :
       cq[i].phase = IF (i \in New) <=> (i >= host_head) THEN host_phase ELSE 1 - host_phase

\* Buffer space that is lost went with a write that is lost.
LostWrites == {c \in Writes : fate[c] = "lost"}
Half == {a \in Actors : HalfLost(a)}
OnlyWithWrites == BufSize - Space <= Cardinality(LostWrites) + Cardinality(Half)

Inv2 == Roles /\ Reading /\ Places /\ Phases /\ OnlyWithWrites

IInv == Inv1 /\ (Steady => Inv2)
=============================================================================
