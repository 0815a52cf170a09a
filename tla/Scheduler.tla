------------------------------ MODULE Scheduler ------------------------------
(***************************************************************************)
(* The gateway's scheduler (scheduler.py): one slot per engine worker,     *)
(* handed out in priority order under a cap per pool and a limit per       *)
(* caller.  Everything runs on one asyncio event loop, so a step of this   *)
(* module is what one task does between two suspension points.             *)
(*                                                                         *)
(* A request calls acquire(), is suspended on its future while it waits,   *)
(* is granted a worker by whichever task runs _dispatch, and resumes later *)
(* -- after other tasks may have run, and after its own timer or its own   *)
(* cancellation may have struck.  That gap is the state the pair           *)
(* (pc[r], fut[r]) keeps apart.                                            *)
(***************************************************************************)
EXTENDS Integers, Sequences, FiniteSets

CONSTANTS
    Workers,    \* the engine workers
    Requests,   \* the calls of acquire(), each made at most once
    Jobs,       \* the jobs a request may bring: client, pool, priority, concurrency
    PoolCaps,   \* pool_caps: a function from the capped pools to their caps
    MaxQueue,   \* max_queue
    NoWorker    \* "no slot"

Clients == {j.client : j \in Jobs}
Pools   == {j.pool : j \in Jobs}

ASSUME WorkersAssumption ==
    IsFiniteSet(Workers) /\ Workers # {} /\ NoWorker \notin Workers

ASSUME JobsAssumption ==
    \A j \in Jobs : j.priority \in Int /\ j.concurrency \in Int

ASSUME CapsAssumption ==
    /\ \A p \in DOMAIN PoolCaps : PoolCaps[p] \in Nat
    /\ MaxQueue \in Int

VARIABLES
    job,         \* job[r]: the job r brings; fixed
    pc,          \* where the task of r is in acquire() and with its lease
    fut,         \* state of the future of r's _Waiter
    slot,        \* the worker r was granted and has not given back
    seq,         \* arrival number of r's _Waiter
    nextSeq,     \* _seq, the arrival counter
    waiting,     \* _waiting: whose _Waiter is in the heap
    free,        \* _free: the idle workers, oldest first
    poolInuse,   \* _pool_inuse
    clientInuse, \* _client_inuse
    mustCancel,  \* resumed tasks whose timer or cancellation struck first
    drain        \* drain(): "idle", or waiting for runs, or how it returned

vars == <<job, pc, fut, slot, seq, nextSeq, waiting, free, poolInuse,
          clientInuse, mustCancel, drain>>

Draining == drain # "idle"

(***************************************************************************)
(* Who holds a worker: a lease not yet released, or a grant whose task has *)
(* not resumed yet.  inflight counts exactly these (AccountingExact).      *)
(***************************************************************************)
Holders == {r \in Requests : fut[r] = "granted" /\ pc[r] \in {"waiting", "leased"}}

InPool(S, p)   == {r \in S : job[r].pool = p}
OfClient(S, c) == {r \in S : job[r].client = c}

-----------------------------------------------------------------------------
(* _Waiter's order: priority (a smaller number is better), then arrival. *)
Before(s, v, w) ==
    \/ job[v].priority < job[w].priority
    \/ job[v].priority = job[w].priority /\ s[v] < s[w]

Ahead(s, S, w) == {v \in S : Before(s, v, w)}

\* Tested with <= instead of <: one too many gets in.
EligibleOver(r, P, C) ==
    /\ job[r].pool \in DOMAIN PoolCaps => P[job[r].pool] <= PoolCaps[job[r].pool]
    /\ C[job[r].client] <= job[r].concurrency

(* _eligible, for usage counters P (by pool) and C (by client). *)
Eligible(r, P, C) ==
    /\ job[r].pool \in DOMAIN PoolCaps => P[job[r].pool] < PoolCaps[job[r].pool]
    /\ C[job[r].client] < job[r].concurrency

(* The counters once every request of S has been granted a worker. *)
PoolsWith(P, S)   == [p \in Pools |-> P[p] + Cardinality(InPool(S, p))]
ClientsWith(C, S) == [c \in Clients |-> C[c] + Cardinality(OfClient(S, c))]

\* The loop stops at the first blocked waiter instead of skipping it.
IsGrantInLine(G, L, s, F, P, C) ==
    \A w \in L :
        LET A == Ahead(s, L, w)
        IN  w \in G <=> /\ A \subseteq G /\ Cardinality(A) < Len(F)
                        /\ Eligible(w, PoolsWith(P, A), ClientsWith(C, A))
\* The heap is served from the wrong end.
IsGrantReversed(G, L, s, F, P, C) ==
    \A w \in L :
        LET A == {v \in G : Before(s, w, v)}
        IN  w \in G <=> /\ Cardinality(A) < Len(F)
                        /\ Eligible(w, PoolsWith(P, A), ClientsWith(C, A))

(***************************************************************************)
(* G is what the loop of _dispatch grants when it runs over the live       *)
(* waiters L with free list F and counters P and C: a waiter is granted    *)
(* exactly when, at its turn, the waiters granted before it leave a worker *)
(* and leave it eligible.  DispatchLoop runs the loop itself and checks    *)
(* that it ends with such a G, and that there is only one.                 *)
(***************************************************************************)
IsGrant(G, L, s, F, P, C) ==
    \A w \in L :
        LET A == Ahead(s, G, w)
        IN  w \in G <=> /\ Cardinality(A) < Len(F)
                        /\ Eligible(w, PoolsWith(P, A), ClientsWith(C, A))

\* The skipped waiters are not pushed back.
DiscardedSkipped(G, W, L, s, F) ==
    {w \in W : F # <<>> /\ (Cardinality(G) < Len(F) \/ \E g \in G : Before(s, w, g))}

(***************************************************************************)
(* The waiters the loop pops and throws away because their future is       *)
(* already done: all of them, or those ahead of the last grant when the    *)
(* workers ran out.                                                        *)
(***************************************************************************)
Discarded(G, W, L, s, F) ==
    {w \in W \ L : Cardinality(G) < Len(F) \/ \E g \in G : Before(s, w, g)}

(***************************************************************************)
(* _dispatch over heap W, futures f, arrival numbers s, free list F and    *)
(* counters P and C, all as its caller left them.                          *)
(***************************************************************************)
Dispatch(W, f, s, F, P, C) ==
    LET L == {w \in W : f[w] = "pending"}
    IN  \E G \in SUBSET L :
          /\ IsGrant(G, L, s, F, P, C)
          /\ waiting' = W \ (G \cup Discarded(G, W, L, s, F))
          /\ free' = SubSeq(F, Cardinality(G) + 1, Len(F))
          /\ poolInuse' = PoolsWith(P, G)
          /\ clientInuse' = ClientsWith(C, G)
          /\ fut' = [r \in Requests |-> IF r \in G THEN "granted" ELSE f[r]]
          /\ slot' = [r \in Requests |-> IF r \in G
                                         THEN F[Cardinality(Ahead(s, G, r)) + 1]
                                         ELSE slot[r]]

\* The caller's counter is left as it was; the worker is not named; nobody is
\* woken; the worker is lost.
GiveBackUncounted(r) ==
    Dispatch(waiting, fut, seq, Append(free, slot[r]),
             [poolInuse EXCEPT ![job[r].pool] = @ - 1], clientInuse)
GiveBackNameless(r) ==
    Dispatch(waiting, fut, seq, Append(free, NoWorker),
             [poolInuse EXCEPT ![job[r].pool] = @ - 1],
             [clientInuse EXCEPT ![job[r].client] = @ - 1])
GiveBackQuietly(r) ==
    /\ free' = Append(free, slot[r])
    /\ poolInuse' = [poolInuse EXCEPT ![job[r].pool] = @ - 1]
    /\ clientInuse' = [clientInuse EXCEPT ![job[r].client] = @ - 1]
    /\ UNCHANGED <<fut, slot, waiting>>
GiveBackLost(r) == UNCHANGED <<fut, slot, waiting, free, poolInuse, clientInuse>>

(* _release(slot[r], job[r]): the worker goes to the back of the free list. *)
GiveBack(r) ==
    Dispatch(waiting, fut, seq, Append(free, slot[r]),
             [poolInuse EXCEPT ![job[r].pool] = @ - 1],
             [clientInuse EXCEPT ![job[r].client] = @ - 1])

-----------------------------------------------------------------------------
Init ==
    /\ job \in [Requests -> Jobs]
    /\ pc = [r \in Requests |-> "new"]
    /\ fut = [r \in Requests |-> "none"]
    /\ slot = [r \in Requests |-> NoWorker]
    /\ seq = [r \in Requests |-> 0]
    /\ nextSeq = 0
    /\ waiting = {}
    /\ free \in {F \in [1 .. Cardinality(Workers) -> Workers] :
                    \A i, j \in DOMAIN F : F[i] = F[j] => i = j}
    /\ poolInuse = [p \in Pools |-> 0]
    /\ clientInuse = [c \in Clients |-> 0]
    /\ mustCancel = {}
    /\ drain = "idle"

(* acquire() refuses at once: draining first, then a full queue. *)
Refuse(r) ==
    /\ pc[r] = "new"
    /\ Draining \/ Cardinality(waiting) >= MaxQueue
    /\ pc' = [pc EXCEPT ![r] = IF Draining THEN "draining" ELSE "full"]
    /\ UNCHANGED <<job, fut, slot, seq, nextSeq, waiting, free, poolInuse,
                   clientInuse, mustCancel, drain>>

(* The waiter goes on the heap and _dispatch runs over it. *)
Enqueue(r) ==
    /\ seq' = [seq EXCEPT ![r] = nextSeq]
    /\ nextSeq' = nextSeq + 1
    /\ Dispatch(waiting \cup {r}, [fut EXCEPT ![r] = "pending"], seq',
                free, poolInuse, clientInuse)
    /\ pc' = [pc EXCEPT ![r] = IF fut'[r] = "granted" THEN "leased" ELSE "waiting"]
    /\ UNCHANGED <<job, mustCancel, drain>>

\* acquire() does not look at draining.
AcquireWhileDraining(r) ==
    pc[r] = "new" /\ Cardinality(waiting) < MaxQueue /\ Enqueue(r)

(***************************************************************************)
(* acquire() queues the waiter and dispatches.  A request granted by its   *)
(* own dispatch has its lease without being suspended.                     *)
(***************************************************************************)
Acquire(r) ==
    /\ pc[r] = "new"
    /\ ~Draining
    /\ Cardinality(waiting) < MaxQueue
    /\ Enqueue(r)

(***************************************************************************)
(* The timer of wait_for, or a cancellation of the task, strikes while r   *)
(* is suspended.  A pending future is cancelled (r stays in the heap until *)
(* its task runs); a future already done cannot be, and the task will see  *)
(* the cancellation instead of the result.                                 *)
(***************************************************************************)
GiveUp(r) ==
    /\ pc[r] = "waiting"
    /\ r \notin mustCancel
    /\ \/ /\ fut[r] = "pending"
          /\ fut' = [fut EXCEPT ![r] = "cancelled"]
          /\ UNCHANGED mustCancel
       \/ /\ fut[r] \in {"granted", "draining"}
          /\ mustCancel' = mustCancel \cup {r}
          /\ UNCHANGED fut
    /\ UNCHANGED <<job, pc, slot, seq, nextSeq, waiting, free, poolInuse,
                   clientInuse, drain>>

(* The task of r resumes with its grant: acquire() returns the lease. *)
TakeLease(r) ==
    /\ pc[r] = "waiting"
    /\ fut[r] = "granted"
    /\ r \notin mustCancel
    /\ pc' = [pc EXCEPT ![r] = "leased"]
    /\ UNCHANGED <<job, fut, slot, seq, nextSeq, waiting, free, poolInuse,
                   clientInuse, mustCancel, drain>>

\* The task that gave up does not notice that it had been granted a worker.
HandBackLost(r) ==
    /\ pc[r] = "waiting"
    /\ fut[r] = "granted"
    /\ r \in mustCancel
    /\ pc' = [pc EXCEPT ![r] = "timeout"]
    /\ UNCHANGED <<job, fut, slot, seq, nextSeq, waiting, free, poolInuse,
                   clientInuse, mustCancel, drain>>
(* Granted in the same tick it gave up: it hands the worker straight back. *)
HandBack(r) ==
    /\ pc[r] = "waiting"
    /\ fut[r] = "granted"
    /\ r \in mustCancel
    /\ GiveBack(r)
    /\ pc' = [pc EXCEPT ![r] = "timeout"]
    /\ UNCHANGED <<job, seq, nextSeq, mustCancel, drain>>

(* _forget: the task of a cancelled future removes its waiter, if still there. *)
Forget(r) ==
    /\ pc[r] = "waiting"
    /\ fut[r] = "cancelled"
    /\ waiting' = waiting \ {r}
    /\ pc' = [pc EXCEPT ![r] = "timeout"]
    /\ UNCHANGED <<job, fut, slot, seq, nextSeq, free, poolInuse, clientInuse,
                   mustCancel, drain>>

(***************************************************************************)
(* The future drain() failed raises Draining, cancelled meanwhile or not;  *)
(* drain() emptied the heap, so _forget would find nothing to remove.      *)
(***************************************************************************)
FailDraining(r) ==
    /\ pc[r] = "waiting"
    /\ fut[r] = "draining"
    /\ pc' = [pc EXCEPT ![r] = "draining"]
    /\ UNCHANGED <<job, fut, slot, seq, nextSeq, waiting, free, poolInuse, clientInuse,
                   mustCancel, drain>>

Resume(r) == TakeLease(r) \/ HandBack(r) \/ Forget(r) \/ FailDraining(r)

(* Lease.release, the first time; a second one finds _released set: no step. *)
Release(r) ==
    /\ pc[r] = "leased"
    /\ GiveBack(r)
    /\ pc' = [pc EXCEPT ![r] = "released"]
    /\ UNCHANGED <<job, seq, nextSeq, mustCancel, drain>>

(* inflight, and what the loop of drain() does on finding that many. *)
Inflight == Cardinality(Workers) - Len(free)

\* Off by one: drain() returns with a run still in flight.
DrainLookEarly ==
    \/ Inflight <= 1 /\ drain' = "clear"
    \/ Inflight > 0 /\ drain' \in {"polling", "expired"}

DrainLook ==
    \/ Inflight = 0 /\ drain' = "clear"
    \/ Inflight > 0 /\ drain' \in {"polling", "expired"}

(***************************************************************************)
(* drain(): refuse new work, fail every waiter whose future is not done,   *)
(* empty the heap, and look at inflight for the first time.                *)
(***************************************************************************)
DrainStart ==
    /\ drain = "idle"
    /\ fut' = [r \in Requests |-> IF r \in waiting /\ fut[r] = "pending"
                                  THEN "draining" ELSE fut[r]]
    /\ waiting' = {}
    /\ DrainLook
    /\ UNCHANGED <<job, pc, slot, seq, nextSeq, free, poolInuse, clientInuse,
                   mustCancel>>

(* drain() wakes from its sleep: the runs are over, or the deadline passed. *)
DrainReturn ==
    /\ drain = "polling"
    /\ DrainLook
    /\ drain' # "polling"
    /\ UNCHANGED <<job, pc, fut, slot, seq, nextSeq, waiting, free, poolInuse,
                   clientInuse, mustCancel>>

Next ==
    \/ \E r \in Requests :
          Refuse(r) \/ Acquire(r) \/ GiveUp(r) \/ Resume(r) \/ Release(r)
    \/ DrainStart
    \/ DrainReturn

Spec == Init /\ [][Next]_vars

(***************************************************************************)
(* The event loop runs every ready task, every lease is released (each run *)
(* ends), and drain() keeps polling.  Nothing forces a timer to fire, a    *)
(* caller to give up or the deadline to pass: liveness does not lean on    *)
(* them.                                                                   *)
(***************************************************************************)
Fairness ==
    /\ \A r \in Requests : WF_vars(Resume(r)) /\ WF_vars(Release(r))
    /\ WF_vars(DrainReturn /\ drain' = "clear")

FairSpec == Spec /\ Fairness

-----------------------------------------------------------------------------
(* Every variable has its type; the heap and the set of holders stay finite. *)
TypeOK ==
    /\ job \in [Requests -> Jobs]
    /\ pc \in [Requests -> {"new", "waiting", "leased", "released", "timeout",
                            "draining", "full"}]
    /\ fut \in [Requests -> {"none", "pending", "granted", "cancelled", "draining"}]
    /\ slot \in [Requests -> Workers \cup {NoWorker}]
    /\ seq \in [Requests -> Nat]
    /\ nextSeq \in Nat
    /\ waiting \in SUBSET Requests /\ IsFiniteSet(waiting)
    /\ free \in Seq(Workers)
    /\ poolInuse \in [Pools -> Int]
    /\ clientInuse \in [Clients -> Int]
    /\ mustCancel \in SUBSET Requests
    /\ drain \in {"idle", "polling", "clear", "expired"}

(***************************************************************************)
(* One engine call per worker at a time: a worker is idle or held by one   *)
(* request, never both or twice, and none leaks -- although a grant may be *)
(* handed back by a task that gave up in the same tick (scheduler.py:115). *)
(***************************************************************************)
Exclusive(F, sl, H) ==
    /\ \A i, j \in DOMAIN F : F[i] = F[j] => i = j
    /\ \A h \in H : sl[h] \in Workers
    /\ \A h, k \in H : sl[h] = sl[k] => h = k
    /\ \A h \in H : \A i \in DOMAIN F : sl[h] # F[i]
    /\ IsFiniteSet(H)
    /\ Len(F) + Cardinality(H) = Cardinality(Workers)

WorkerExclusive == Exclusive(free, slot, Holders)

(* The counters _eligible reads are the holders they stand for (lines 141-151). *)
Exact(P, C, H) ==
    /\ \A p \in Pools : P[p] = Cardinality(InPool(H, p))
    /\ \A c \in Clients : C[c] = Cardinality(OfClient(H, c))

AccountingExact == Exact(poolInuse, clientInuse, Holders)

(* A capped pool as a whole holds at most its cap of workers (lines 7-8). *)
WithinCaps(H) ==
    \A p \in Pools \cap DOMAIN PoolCaps : Cardinality(InPool(H, p)) <= PoolCaps[p]

PoolCapRespected == WithinCaps(Holders)

(***************************************************************************)
(* A caller's limit may change between two of its requests (a new plan),   *)
(* so the limit holds as it was applied: among any holders of one caller,  *)
(* the last to be granted saw no more of them than its own limit allows.   *)
(***************************************************************************)
WithinLimits(H) ==
    \A c \in Clients : \A S \in SUBSET OfClient(H, c) :
        S # {} => \E h \in S : Cardinality(S) <= job[h].concurrency

ConcurrencyRespected == WithinLimits(Holders)

(***************************************************************************)
(* A waiter blocked by a policy is skipped, not queued behind (lines       *)
(* 11-13): whenever a worker is idle, nobody who could run is waiting.     *)
(***************************************************************************)
NoIdleWorker ==
    free # <<>> =>
        \A w \in waiting : fut[w] = "pending" => ~Eligible(w, poolInuse, clientInuse)

(***************************************************************************)
(* A waiter the loop pops and skips is pushed back (lines 139-146), and a  *)
(* task that gave up is out of the heap once it has resumed: the heap      *)
(* holds every unanswered waiter, and nobody who is gone.                  *)
(***************************************************************************)
HeapExact ==
    /\ \A r \in Requests : fut[r] = "pending" => r \in waiting
    /\ \A w \in waiting : pc[w] = "waiting" /\ fut[w] \in {"pending", "cancelled"}

(* Arrival numbers of the waiters are their own, and below the counter. *)
ArrivalsOK ==
    /\ \A v, w \in waiting : seq[v] = seq[w] => v = w
    /\ \A w \in waiting : seq[w] < nextSeq

(* A new request has no future yet; a lease comes from a granted one. *)
PhasesOK ==
    \A r \in Requests : /\ pc[r] = "new" => fut[r] = "none"
                        /\ pc[r] = "leased" => fut[r] = "granted"

(* drain() returns 0 only when no run is left, and nobody waits behind it. *)
DrainExact ==
    /\ drain = "clear" => Holders = {}
    /\ Draining => waiting = {} /\ \A r \in Requests : fut[r] # "pending"

(* The inductive invariant that SchedulerProofs proves. *)
IInv ==
    /\ TypeOK
    /\ PhasesOK
    /\ ArrivalsOK
    /\ HeapExact
    /\ WorkerExclusive
    /\ AccountingExact
    /\ PoolCapRespected
    /\ ConcurrencyRespected
    /\ NoIdleWorker
    /\ DrainExact

GrantedNow(g) == g \in Holders' /\ g \notin Holders

InOrder ==
    \A g \in Requests : GrantedNow(g) =>
        LET P == [poolInuse' EXCEPT ![job[g].pool] = @ - 1]
            C == [clientInuse' EXCEPT ![job[g].client] = @ - 1]
        IN  \A w \in waiting' :
               fut'[w] = "pending" /\ Before(seq', w, g) => ~Eligible(w, P, C)

(***************************************************************************)
(* Priority, then arrival: nobody is granted a worker in the place of a    *)
(* waiter ahead of it that could have run there.  A step that grants g     *)
(* leaves no live waiter ahead of g that would be eligible had g not been  *)
(* granted (lines 134-146).                                                *)
(***************************************************************************)
NoOvertaking == [][InOrder]_vars

AdmitsNothing == Draining => \A r \in Requests : ~GrantedNow(r)

(***************************************************************************)
(* Once the gateway drains, workers are given back and never granted, not  *)
(* even by the dispatch that a release runs (lines 163-175).               *)
(***************************************************************************)
DrainAdmitsNothing == [][AdmitsNothing]_vars

(***************************************************************************)
(* Every request that waits is answered, on the workers' progress alone:   *)
(* no wakeup is lost, even if no timer fires.  A hand-back in the middle   *)
(* of someone else's wait must dispatch again (line 117).                  *)
(***************************************************************************)
NoLostWakeup == \A r \in Requests : pc[r] = "waiting" ~> pc[r] # "waiting"

(* drain() sees the last run end, if its deadline does not come first. *)
DrainTerminates == drain = "polling" ~> drain \in {"clear", "expired"}

(***************************************************************************)
(* What the module doc says of the pool cap: "guest traffic as a whole may *)
(* hold at most N workers, so a signed-in caller always finds one" (lines  *)
(* 7-8).  A request of a pool without a cap is not turned away while a     *)
(* worker is idle and its caller is within its limit.                      *)
(***************************************************************************)
UncappedFindsWorker ==
    [][\A r \in Requests :
          /\ pc[r] = "new" /\ pc'[r] = "full"
          /\ job[r].pool \notin DOMAIN PoolCaps
          => free = <<>> \/ ~Eligible(r, poolInuse, clientInuse)]_vars
=============================================================================
