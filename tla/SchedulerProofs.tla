--------------------------- MODULE SchedulerProofs ---------------------------
(***************************************************************************)
(* IInv is an inductive invariant of the scheduler, for any finite set of  *)
(* workers and any set of requests, jobs and caps; the invariants that     *)
(* MCScheduler checks follow from it, and NoOvertaking and                 *)
(* DrainAdmitsNothing from it and one step.                                *)
(***************************************************************************)
EXTENDS SchedulerLemmas

(* The parts of IInv about the holders, carried over to the next state. *)
LEMMA HoldersNext ==
    ASSUME job' = job,
           Exclusive(free', slot', Holders'), Exact(poolInuse', clientInuse', Holders'),
           WithinCaps(Holders'), WithinLimits(Holders')
    PROVE  /\ WorkerExclusive' /\ AccountingExact'
           /\ PoolCapRespected' /\ ConcurrencyRespected'
<1>1. WorkerExclusive'
    BY DEF WorkerExclusive, Exclusive
<1>2. AccountingExact'
    BY DEF AccountingExact, Exact, InPool, OfClient
<1>3. PoolCapRespected'
    BY DEF PoolCapRespected, WithinCaps, InPool
<1>4. ConcurrencyRespected'
    BY DEF ConcurrencyRespected, WithinLimits, OfClient
<1> QED  BY <1>1, <1>2, <1>3, <1>4

(* A step that touches neither workers nor counters nor who holds what. *)
LEMMA HoldersSame ==
    ASSUME IInv, job' = job, free' = free, slot' = slot, poolInuse' = poolInuse,
           clientInuse' = clientInuse, Holders' = Holders,
           waiting' \in SUBSET waiting,
           \A w \in waiting' : fut'[w] = "pending" => fut[w] = "pending"
    PROVE  /\ WorkerExclusive' /\ AccountingExact'
           /\ PoolCapRespected' /\ ConcurrencyRespected'
           /\ NoIdleWorker'
<1>1. /\ Exclusive(free', slot', Holders') /\ Exact(poolInuse', clientInuse', Holders')
      /\ WithinCaps(Holders') /\ WithinLimits(Holders')
    BY DEF IInv, WorkerExclusive, AccountingExact, PoolCapRespected, ConcurrencyRespected
<1>2. NoIdleWorker'
    BY DEF IInv, NoIdleWorker, Eligible
<1> QED  BY <1>1, <1>2, HoldersNext

LEMMA InitIInv == Init => IInv
<1> SUFFICES ASSUME Init PROVE IInv
    OBVIOUS
<1>1. Holders = {}
    BY DEF Init, Holders
<1>2. \A i, j \in DOMAIN free : free[i] = free[j] => i = j
    BY DEF Init
<1>3. Cardinality(Workers) \in Nat
    BY WorkersAssumption, FS_CardinalityType
<1>4. free \in Seq(Workers) /\ Len(free) = Cardinality(Workers)
    BY <1>3 DEF Init
<1>5. TypeOK
  <2>1. IsFiniteSet(waiting)
      BY FS_EmptySet DEF Init
  <2> QED  BY <1>4, <2>1 DEF Init, TypeOK
<1>6. WorkerExclusive
    BY <1>1, <1>2, <1>3, <1>4, FS_EmptySet DEF WorkerExclusive, Exclusive
<1>7. \A p, c : InPool({}, p) = {} /\ OfClient({}, c) = {}
    BY DEF InPool, OfClient
<1>8. AccountingExact
    BY <1>1, <1>7, FS_EmptySet DEF Init, AccountingExact, Exact
<1>9. PoolCapRespected
    BY <1>1, <1>7, FS_EmptySet, CapsAssumption DEF PoolCapRespected, WithinCaps
<1>10. ConcurrencyRespected
    BY <1>1, <1>7 DEF ConcurrencyRespected, WithinLimits
<1>11. PhasesOK /\ ArrivalsOK /\ HeapExact /\ NoIdleWorker /\ DrainExact
    BY DEF Init, PhasesOK, ArrivalsOK, HeapExact, NoIdleWorker, DrainExact, Draining
<1> QED  BY <1>5, <1>6, <1>8, <1>9, <1>10, <1>11 DEF IInv

-----------------------------------------------------------------------------
(* acquire() that is granted or queued. *)
LEMMA AcquireDispatch ==
    ASSUME IInv, NEW r \in Requests, Acquire(r)
    PROVE  \E G : Dispatched(G, waiting \cup {r}, [fut EXCEPT ![r] = "pending"],
                             seq', Holders)
<1> DEFINE W == waiting \cup {r}
           f == [fut EXCEPT ![r] = "pending"]
<1>1. Dispatch(W, f, seq', free, poolInuse, clientInuse)
    BY DEF Acquire, Enqueue
<1>2. /\ job \in [Requests -> Jobs] /\ slot \in [Requests -> Workers \cup {NoWorker}]
      /\ free \in Seq(Workers)
      /\ poolInuse \in [Pools -> Int] /\ clientInuse \in [Clients -> Int]
      /\ waiting \in SUBSET Requests /\ IsFiniteSet(waiting)
      /\ seq \in [Requests -> Nat] /\ nextSeq \in Nat
      /\ fut \in [Requests -> FutStates] /\ pc[r] = "new" /\ fut[r] = "none"
    BY DEF IInv, TypeOK, PhasesOK, FutStates, Acquire, Enqueue
<1>3. W \in SUBSET Requests /\ IsFiniteSet(W)
    BY <1>2, FS_AddElement
<1>4. f \in [Requests -> FutStates] /\ \A q \in Requests : f[q] = IF q = r THEN "pending" ELSE fut[q]
    BY <1>2 DEF FutStates
<1>5. seq' \in [Requests -> Nat] /\ Ordered(seq', W)
  <2>1. r \notin waiting
      BY <1>2 DEF IInv, HeapExact
  <2> QED  BY <1>2, <2>1 DEF Acquire, Enqueue, Ordered, IInv, ArrivalsOK
<1>6. Holders \in SUBSET Requests /\ \A h \in Holders : f[h] # "pending"
    BY <1>2, <1>4 DEF Holders
<1>7. /\ Exclusive(free, slot, Holders) /\ Exact(poolInuse, clientInuse, Holders)
      /\ WithinCaps(Holders) /\ WithinLimits(Holders)
    BY DEF IInv, WorkerExclusive, AccountingExact, PoolCapRespected, ConcurrencyRespected
<1> HIDE DEF f, W
<1>8. \E G : Dispatched(G, W, f, seq', Holders)
    BY <1>1, <1>2, <1>3, <1>4, <1>5, <1>6, <1>7, DispatchStep
<1> QED  BY <1>8 DEF f, W

(* A worker given back, by a lease or by a task that gave up. *)
LEMMA GiveBackDispatch ==
    ASSUME IInv, NEW r \in Holders, GiveBack(r)
    PROVE  \E G : Dispatched(G, waiting, fut, seq, Holders \ {r})
<1> DEFINE F == Append(free, slot[r])
           P == [poolInuse EXCEPT ![job[r].pool] = @ - 1]
           C == [clientInuse EXCEPT ![job[r].client] = @ - 1]
           H == Holders \ {r}
<1>1. Dispatch(waiting, fut, seq, F, P, C)
    BY DEF GiveBack
<1>2. /\ job \in [Requests -> Jobs] /\ slot \in [Requests -> Workers \cup {NoWorker}]
      /\ free \in Seq(Workers)
      /\ poolInuse \in [Pools -> Int] /\ clientInuse \in [Clients -> Int]
      /\ waiting \in SUBSET Requests /\ IsFiniteSet(waiting)
      /\ seq \in [Requests -> Nat] /\ Ordered(seq, waiting)
      /\ fut \in [Requests -> FutStates]
    BY DEF IInv, TypeOK, ArrivalsOK, FutStates, Ordered
<1>3. Holders \in SUBSET Requests /\ \A h \in H : fut[h] # "pending"
    BY DEF Holders
<1>4. /\ Exclusive(free, slot, Holders) /\ Exact(poolInuse, clientInuse, Holders)
      /\ WithinCaps(Holders) /\ WithinLimits(Holders)
    BY DEF IInv, WorkerExclusive, AccountingExact, PoolCapRespected, ConcurrencyRespected
<1>5. /\ F \in Seq(Workers) /\ P \in [Pools -> Int] /\ C \in [Clients -> Int]
      /\ Exclusive(F, slot, H) /\ Exact(P, C, H) /\ WithinCaps(H) /\ WithinLimits(H)
    BY <1>2, <1>3, <1>4, GiveBackFacts
<1>6. H \in SUBSET Requests
    BY <1>3
<1> HIDE DEF F, P, C, H
<1>7. \E G : Dispatched(G, waiting, fut, seq, H)
    BY <1>1, <1>2, <1>3, <1>5, <1>6, DispatchStep
<1> QED  BY <1>7 DEF H

(* The parts of IInv that a dispatch re-establishes, whoever called it. *)
LEMMA DispatchedNext ==
    ASSUME NEW G, NEW W, NEW f, NEW H, Dispatched(G, W, f, seq', H),
           W \in SUBSET Requests, job' = job, Holders' = H \cup G
    PROVE  /\ WorkerExclusive' /\ AccountingExact'
           /\ PoolCapRespected' /\ ConcurrencyRespected'
           /\ NoIdleWorker'
<1>1. /\ Exclusive(free', slot', Holders') /\ Exact(poolInuse', clientInuse', Holders')
      /\ WithinCaps(Holders') /\ WithinLimits(Holders')
    BY DEF Dispatched
<1>2. ASSUME free' # <<>>, NEW w \in waiting', fut'[w] = "pending"
      PROVE  ~Eligible(w, poolInuse', clientInuse')
  <2>1. w \in W \ G /\ w \in Requests
      BY <1>2 DEF Dispatched
  <2>2. f[w] = "pending"
      BY <1>2, <2>1 DEF Dispatched
  <2> QED  BY <1>2, <2>1, <2>2 DEF Dispatched
<1>3. NoIdleWorker'
    BY <1>2 DEF NoIdleWorker, Eligible
<1> QED  BY <1>1, <1>3, HoldersNext

-----------------------------------------------------------------------------
LEMMA AcquireIInv ==
    ASSUME IInv, NEW r \in Requests, Acquire(r)
    PROVE  IInv'
<1> DEFINE W == waiting \cup {r}
           f == [fut EXCEPT ![r] = "pending"]
<1>1. PICK G : Dispatched(G, W, f, seq', Holders)
    BY AcquireDispatch
<1>2. /\ pc[r] = "new" /\ fut[r] = "none" /\ r \notin waiting /\ ~Draining
      /\ W \in SUBSET Requests /\ r \notin Holders
      /\ fut \in [Requests -> FutStates]
    BY DEF Acquire, Enqueue, IInv, TypeOK, PhasesOK, HeapExact, Holders, FutStates
<1>3. \A q \in Requests : f[q] = IF q = r THEN "pending" ELSE fut[q]
    BY <1>2
<1> HIDE DEF f
<1>4. \A q \in Requests : fut'[q] = IF q \in G THEN "granted"
                                    ELSE IF q = r THEN "pending" ELSE fut[q]
    BY <1>1, <1>3 DEF Dispatched
<1>5. \A q \in Requests : pc'[q] = IF q # r THEN pc[q]
                                   ELSE IF r \in G THEN "leased" ELSE "waiting"
  <2>1. pc' = [pc EXCEPT ![r] = IF fut'[r] = "granted" THEN "leased" ELSE "waiting"]
      BY DEF Acquire, Enqueue
  <2>2. fut'[r] = "granted" <=> r \in G
      BY <1>4
  <2> QED  BY <2>1, <2>2 DEF IInv, TypeOK
<1>6. /\ G \in SUBSET W /\ \A g \in G : g = r \/ (fut[g] = "pending" /\ pc[g] = "waiting")
    BY <1>1, <1>2, <1>3 DEF Dispatched, IInv, HeapExact
<1>7. Holders' = Holders \cup G
  <2>1. \A q \in Requests : q \in Holders' <=> q \in Holders \/ q \in G
      BY <1>2, <1>4, <1>5, <1>6 DEF Holders
  <2> QED  BY <1>2, <1>6, <2>1 DEF Holders
<1>8. job' = job /\ mustCancel' = mustCancel /\ drain' = drain
    BY DEF Acquire, Enqueue
<1>9. /\ WorkerExclusive' /\ AccountingExact' /\ PoolCapRespected'
      /\ ConcurrencyRespected' /\ NoIdleWorker'
    BY <1>1, <1>2, <1>7, <1>8, DispatchedNext
<1>10. \A q \in Requests : seq'[q] = IF q = r THEN nextSeq ELSE seq[q]
    BY DEF Acquire, Enqueue, IInv, TypeOK
<1>11. TypeOK'
  <2>1. pc' \in [Requests -> {"new", "waiting", "leased", "released", "timeout",
                              "draining", "full"}]
      BY DEF Acquire, Enqueue, IInv, TypeOK
  <2>2. fut' \in [Requests -> {"none", "pending", "granted", "cancelled", "draining"}]
      BY <1>1, <1>2, <1>3 DEF Dispatched, FutStates
  <2>3. seq' \in [Requests -> Nat] /\ nextSeq' \in Nat
      BY DEF Acquire, Enqueue, IInv, TypeOK
  <2>4. waiting' \in SUBSET Requests
      BY <1>1, <1>2 DEF Dispatched
  <2> QED  BY <1>1, <1>8, <2>1, <2>2, <2>3, <2>4 DEF Dispatched, IInv, TypeOK
<1>12. PhasesOK'
    BY <1>2, <1>4, <1>5, <1>6 DEF IInv, PhasesOK
<1>13. \A w \in waiting' : w \in W /\ w \notin G
    BY <1>1 DEF Dispatched
<1>14. ArrivalsOK'
  <2>1. nextSeq' = nextSeq + 1 /\ nextSeq \in Nat /\ \A w \in waiting : seq[w] \in Nat
      BY DEF Acquire, Enqueue, IInv, TypeOK
  <2> QED  BY <1>2, <1>10, <1>13, <2>1 DEF IInv, ArrivalsOK
<1>15. HeapExact'
  <2>1. ASSUME NEW q \in Requests, fut'[q] = "pending"
        PROVE  q \in waiting'
    <3>1. q \notin G /\ q \in W /\ f[q] = "pending"
        BY <1>3, <1>4, <2>1 DEF IInv, HeapExact
    <3> QED  BY <1>1, <3>1 DEF Dispatched
  <2>2. ASSUME NEW w \in waiting'
        PROVE  pc'[w] = "waiting" /\ fut'[w] \in {"pending", "cancelled"}
      BY <1>2, <1>4, <1>5, <1>13 DEF IInv, HeapExact
  <2> QED  BY <2>1, <2>2 DEF HeapExact
<1>16. DrainExact'
    BY <1>2, <1>8 DEF DrainExact, Draining
<1> QED  BY <1>9, <1>11, <1>12, <1>14, <1>15, <1>16 DEF IInv

(***************************************************************************)
(* Giving a worker back, for Release (where the task goes on to            *)
(* "released") and for HandBack (where it goes on to "timeout").           *)
(***************************************************************************)
LEMMA GiveBackIInv ==
    ASSUME IInv, NEW r \in Holders, GiveBack(r),
           NEW to \in {"released", "timeout"}, pc' = [pc EXCEPT ![r] = to],
           UNCHANGED <<job, seq, nextSeq, mustCancel, drain>>
    PROVE  IInv'
<1> DEFINE H == Holders \ {r}
<1>1. PICK G : Dispatched(G, waiting, fut, seq, H)
    BY GiveBackDispatch
<1>2. /\ r \in Requests /\ fut[r] = "granted" /\ waiting \in SUBSET Requests
      /\ fut \in [Requests -> FutStates]
    BY DEF Holders, IInv, TypeOK, FutStates
<1>3. \A q \in Requests : fut'[q] = IF q \in G THEN "granted" ELSE fut[q]
    BY <1>1 DEF Dispatched
<1>4. \A q \in Requests : pc'[q] = IF q = r THEN to ELSE pc[q]
    BY DEF IInv, TypeOK
<1>5. G \in SUBSET waiting /\ \A g \in G : fut[g] = "pending" /\ pc[g] = "waiting" /\ g # r
    BY <1>1, <1>2 DEF Dispatched, IInv, HeapExact
<1>6. Holders' = H \cup G
  <2>1. \A q \in Requests : q \in Holders' <=> q \in H \/ q \in G
      BY <1>2, <1>3, <1>4, <1>5 DEF Holders
  <2> QED  BY <1>2, <1>5, <2>1 DEF Holders
<1>7. seq' = seq /\ job' = job /\ drain' = drain
    OBVIOUS
<1>8. /\ WorkerExclusive' /\ AccountingExact' /\ PoolCapRespected'
      /\ ConcurrencyRespected' /\ NoIdleWorker'
  <2>1. Dispatched(G, waiting, fut, seq', H)
      BY <1>1, <1>7
  <2> HIDE DEF H
  <2> QED  BY <1>2, <1>6, <1>7, <2>1, DispatchedNext
<1>9. TypeOK'
  <2>1. pc' \in [Requests -> {"new", "waiting", "leased", "released", "timeout",
                              "draining", "full"}]
      BY DEF IInv, TypeOK
  <2>2. fut' \in [Requests -> {"none", "pending", "granted", "cancelled", "draining"}]
      BY <1>1, <1>2 DEF Dispatched, FutStates
  <2>3. waiting' \in SUBSET Requests
      BY <1>1, <1>2 DEF Dispatched
  <2> QED  BY <1>1, <2>1, <2>2, <2>3 DEF Dispatched, IInv, TypeOK
<1>10. PhasesOK'
    BY <1>2, <1>3, <1>4, <1>5 DEF IInv, PhasesOK
<1>11. \A w \in waiting' : w \in waiting /\ w \notin G
    BY <1>1 DEF Dispatched
<1>12. ArrivalsOK'
    BY <1>7, <1>11 DEF IInv, ArrivalsOK
<1>13. HeapExact'
  <2>1. ASSUME NEW q \in Requests, fut'[q] = "pending"
        PROVE  q \in waiting'
    <3>1. q \notin G /\ q \in waiting /\ fut[q] = "pending"
        BY <1>3, <2>1 DEF IInv, HeapExact
    <3> QED  BY <1>1, <3>1 DEF Dispatched
  <2>2. ASSUME NEW w \in waiting'
        PROVE  pc'[w] = "waiting" /\ fut'[w] \in {"pending", "cancelled"}
      BY <1>2, <1>3, <1>4, <1>11 DEF IInv, HeapExact
  <2> QED  BY <2>1, <2>2 DEF HeapExact
<1>14. DrainExact'
  <2>1. drain' = "clear" => Holders' = {}
    <3>1. drain # "clear"
        BY <1>2 DEF IInv, DrainExact
    <3> QED  BY <1>7, <3>1
  <2>2. Draining => waiting' = {} /\ \A q \in Requests : fut'[q] # "pending"
      BY <1>3, <1>11 DEF IInv, DrainExact
  <2> QED  BY <1>7, <2>1, <2>2 DEF DrainExact, Draining
<1> QED  BY <1>8, <1>9, <1>10, <1>12, <1>13, <1>14 DEF IInv

LEMMA RefuseIInv ==
    ASSUME IInv, NEW r \in Requests, Refuse(r)
    PROVE  IInv'
<1>1. /\ pc[r] = "new" /\ UNCHANGED <<job, fut, slot, seq, nextSeq, waiting, free,
                                      poolInuse, clientInuse, mustCancel, drain>>
      /\ \A q \in Requests : pc'[q] \in IF q = r THEN {"draining", "full"} ELSE {pc[q]}
    BY DEF Refuse, IInv, TypeOK
<1>2. r \notin waiting
    BY <1>1 DEF IInv, HeapExact
<1>3. Holders' = Holders
    BY <1>1 DEF Holders
<1>4. TypeOK'
    BY <1>1 DEF Refuse, IInv, TypeOK
<1>5. PhasesOK' /\ ArrivalsOK'
    BY <1>1 DEF IInv, PhasesOK, ArrivalsOK
<1>6. HeapExact'
    BY <1>1, <1>2 DEF IInv, TypeOK, HeapExact
<1>7. DrainExact'
    BY <1>1, <1>3 DEF IInv, DrainExact, Draining
<1> QED  BY <1>1, <1>3, <1>4, <1>5, <1>6, <1>7, HoldersSame DEF IInv

LEMMA GiveUpIInv ==
    ASSUME IInv, NEW r \in Requests, GiveUp(r)
    PROVE  IInv'
<1>1. /\ pc[r] = "waiting"
      /\ UNCHANGED <<job, pc, slot, seq, nextSeq, waiting, free, poolInuse,
                     clientInuse, drain>>
      /\ \/ /\ fut[r] = "pending"
            /\ \A q \in Requests : fut'[q] = IF q = r THEN "cancelled" ELSE fut[q]
            /\ mustCancel' = mustCancel
         \/ mustCancel' = mustCancel \cup {r} /\ fut' = fut
    BY DEF GiveUp, IInv, TypeOK
<1>2. Holders' = Holders
    BY <1>1 DEF Holders
<1>3. TypeOK'
    BY <1>1 DEF GiveUp, IInv, TypeOK
<1>4. PhasesOK' /\ ArrivalsOK'
    BY <1>1 DEF IInv, PhasesOK, ArrivalsOK
<1>5. HeapExact'
    BY <1>1 DEF IInv, TypeOK, HeapExact
<1>6. DrainExact'
    BY <1>1, <1>2 DEF IInv, DrainExact, Draining
<1>7. \A w \in waiting' : w \in Requests /\ (fut'[w] = "pending" => fut[w] = "pending")
    BY <1>1 DEF IInv, TypeOK
<1> QED  BY <1>1, <1>2, <1>3, <1>4, <1>5, <1>6, <1>7, HoldersSame DEF IInv

LEMMA TakeLeaseIInv ==
    ASSUME IInv, NEW r \in Requests, TakeLease(r)
    PROVE  IInv'
<1>1. /\ pc[r] = "waiting" /\ fut[r] = "granted"
      /\ UNCHANGED <<job, fut, slot, seq, nextSeq, waiting, free, poolInuse,
                     clientInuse, mustCancel, drain>>
      /\ \A q \in Requests : pc'[q] = IF q = r THEN "leased" ELSE pc[q]
    BY DEF TakeLease, IInv, TypeOK
<1>2. r \notin waiting
    BY <1>1 DEF IInv, HeapExact
<1>3. Holders' = Holders
    BY <1>1 DEF Holders
<1>4. TypeOK'
    BY <1>1 DEF TakeLease, IInv, TypeOK
<1>5. PhasesOK' /\ ArrivalsOK'
    BY <1>1 DEF IInv, PhasesOK, ArrivalsOK
<1>6. HeapExact'
    BY <1>1, <1>2 DEF IInv, TypeOK, HeapExact
<1>7. DrainExact'
    BY <1>1, <1>3 DEF IInv, DrainExact, Draining
<1> QED  BY <1>1, <1>3, <1>4, <1>5, <1>6, <1>7, HoldersSame DEF IInv

(* A task that ends without a worker: cancelled while queued, or drained. *)
LEMMA ForgetIInv ==
    ASSUME IInv, NEW r \in Requests, Forget(r) \/ FailDraining(r)
    PROVE  IInv'
<1>1. /\ pc[r] = "waiting" /\ fut[r] \in {"cancelled", "draining"}
      /\ UNCHANGED <<job, fut, slot, seq, nextSeq, free, poolInuse, clientInuse,
                     mustCancel, drain>>
      /\ \A q \in Requests : pc'[q] \in IF q = r THEN {"timeout", "draining"} ELSE {pc[q]}
      /\ waiting' = waiting \ {r}
    BY DEF Forget, FailDraining, IInv, TypeOK, HeapExact
<1>2. Holders' = Holders
    BY <1>1 DEF Holders
<1>3. TypeOK'
  <2>1. IsFiniteSet(waiting')
      BY <1>1, FS_RemoveElement DEF IInv, TypeOK
  <2> QED  BY <1>1, <2>1 DEF Forget, FailDraining, IInv, TypeOK
<1>4. PhasesOK' /\ ArrivalsOK'
    BY <1>1 DEF IInv, PhasesOK, ArrivalsOK
<1>5. HeapExact'
    BY <1>1 DEF IInv, TypeOK, HeapExact
<1>6. DrainExact'
    BY <1>1, <1>2 DEF IInv, DrainExact, Draining
<1> QED  BY <1>1, <1>2, <1>3, <1>4, <1>5, <1>6, HoldersSame DEF IInv

(* No run left in flight, as drain() counts it, is no holder left. *)
LEMMA InflightHolders ==
    ASSUME IInv
    PROVE  Inflight = 0 => Holders = {}
<1>1. /\ IsFiniteSet(Holders) /\ Len(free) + Cardinality(Holders) = Cardinality(Workers)
      /\ Len(free) \in Nat
    BY DEF IInv, TypeOK, WorkerExclusive, Exclusive
<1>2. Cardinality(Holders) \in Nat /\ Cardinality(Workers) \in Nat
    BY <1>1, FS_CardinalityType, WorkersAssumption
<1> QED  BY <1>1, <1>2, FS_EmptySet DEF Inflight

LEMMA DrainIInv ==
    ASSUME IInv, DrainStart \/ DrainReturn
    PROVE  IInv'
<1>1. /\ UNCHANGED <<job, pc, slot, seq, nextSeq, free, poolInuse, clientInuse, mustCancel>>
      /\ drain' \in {"polling", "clear", "expired"}
      /\ drain' = "clear" => Inflight = 0
    BY DEF DrainStart, DrainReturn, DrainLook
<1>2. /\ waiting' = {}
      /\ \A q \in Requests : fut'[q] = IF q \in waiting /\ fut[q] = "pending"
                                       THEN "draining" ELSE fut[q]
      /\ \A q \in Requests : fut'[q] # "pending"
  <2>1. CASE DrainStart
      BY <2>1 DEF DrainStart, IInv, HeapExact
  <2>2. CASE DrainReturn
    <3>1. waiting = {} /\ \A q \in Requests : fut[q] # "pending"
        BY <2>2 DEF DrainReturn, IInv, DrainExact, Draining
    <3> QED  BY <2>2, <3>1 DEF DrainReturn
  <2> QED  BY <2>1, <2>2
<1>3. Holders' = Holders
    BY <1>1, <1>2 DEF Holders
<1>4. TypeOK'
  <2>1. fut' \in [Requests -> {"none", "pending", "granted", "cancelled", "draining"}]
    <3>1. CASE DrainStart
        BY <3>1 DEF DrainStart, IInv, TypeOK
    <3>2. CASE DrainReturn
        BY <3>2 DEF DrainReturn, IInv, TypeOK
    <3> QED  BY <3>1, <3>2
  <2> QED  BY <1>1, <1>2, <2>1, FS_EmptySet DEF IInv, TypeOK
<1>5. PhasesOK'
  <2> SUFFICES ASSUME NEW q \in Requests
               PROVE  /\ pc'[q] = "new" => fut'[q] = "none"
                      /\ pc'[q] = "leased" => fut'[q] = "granted"
      BY DEF PhasesOK
  <2>1. /\ pc[q] = "new" => fut[q] = "none"
        /\ pc[q] = "leased" => fut[q] = "granted"
      BY DEF IInv, PhasesOK
  <2>2. fut[q] \in {"none", "granted"} => fut'[q] = fut[q]
      BY <1>2
  <2> QED  BY <1>1, <2>1, <2>2
<1>6. ArrivalsOK' /\ HeapExact'
    BY <1>2 DEF ArrivalsOK, HeapExact
<1>7. DrainExact'
    BY <1>1, <1>2, <1>3, InflightHolders DEF DrainExact, Draining
<1> QED  BY <1>1, <1>2, <1>3, <1>4, <1>5, <1>6, <1>7, HoldersSame DEF IInv

LEMMA NextIInv == IInv /\ [Next]_vars => IInv'
<1> SUFFICES ASSUME IInv, [Next]_vars PROVE IInv'
    OBVIOUS
<1>1. ASSUME NEW r \in Requests, Refuse(r) PROVE IInv'
    BY <1>1, RefuseIInv
<1>2. ASSUME NEW r \in Requests, Acquire(r) PROVE IInv'
    BY <1>2, AcquireIInv
<1>3. ASSUME NEW r \in Requests, GiveUp(r) PROVE IInv'
    BY <1>3, GiveUpIInv
<1>4. ASSUME NEW r \in Requests, TakeLease(r) PROVE IInv'
    BY <1>4, TakeLeaseIInv
<1>5. ASSUME NEW r \in Requests, HandBack(r) PROVE IInv'
    BY <1>5, GiveBackIInv DEF HandBack, Holders
<1>6. ASSUME NEW r \in Requests, Forget(r) \/ FailDraining(r) PROVE IInv'
    BY <1>6, ForgetIInv
<1>7. ASSUME NEW r \in Requests, Release(r) PROVE IInv'
  <2>1. r \in Holders
      BY <1>7 DEF Release, Holders, IInv, PhasesOK
  <2> QED  BY <1>7, <2>1, GiveBackIInv DEF Release
<1>8. CASE DrainStart \/ DrainReturn
    BY <1>8, DrainIInv
<1>9. CASE UNCHANGED vars
  <2>1. Holders' = Holders
      BY <1>9 DEF vars, Holders
  <2> QED  BY <1>9, <2>1, HoldersSame
           DEF vars, IInv, TypeOK, PhasesOK, ArrivalsOK, HeapExact, DrainExact, Draining
<1> QED  BY <1>1, <1>2, <1>3, <1>4, <1>5, <1>6, <1>7, <1>8, <1>9 DEF Next, Resume

(***************************************************************************)
(* The inductive invariant holds in every behavior.                        *)
(***************************************************************************)
THEOREM Invariance == Spec => []IInv
<1>1. Init => IInv
    BY InitIInv
<1>2. IInv /\ [Next]_vars => IInv'
    BY NextIInv
<1> QED  BY <1>1, <1>2, PTL DEF Spec

(* Every variable keeps its type. *)
THEOREM TypeCorrect == Spec => []TypeOK
<1>1. IInv => TypeOK
    BY DEF IInv
<1> QED  BY <1>1, Invariance, PTL

(* A worker is idle or held by one request: one engine call at a time, none lost. *)
THEOREM Exclusion == Spec => []WorkerExclusive
<1>1. IInv => WorkerExclusive
    BY DEF IInv
<1> QED  BY <1>1, Invariance, PTL

(* _pool_inuse and _client_inuse count the holders, whoever gives up when. *)
THEOREM Accounting == Spec => []AccountingExact
<1>1. IInv => AccountingExact
    BY DEF IInv
<1> QED  BY <1>1, Invariance, PTL

(* No capped pool ever holds more workers than its cap. *)
THEOREM PoolCapsHold == Spec => []PoolCapRespected
<1>1. IInv => PoolCapRespected
    BY DEF IInv
<1> QED  BY <1>1, Invariance, PTL

(* A caller's limit held when each of its requests was granted. *)
THEOREM ConcurrencyHolds == Spec => []ConcurrencyRespected
<1>1. IInv => ConcurrencyRespected
    BY DEF IInv
<1> QED  BY <1>1, Invariance, PTL

(* While a worker is idle nobody who could run is waiting. *)
THEOREM NoIdleWorkerHolds == Spec => []NoIdleWorker
<1>1. IInv => NoIdleWorker
    BY DEF IInv
<1> QED  BY <1>1, Invariance, PTL

(* The heap holds exactly the unanswered waiters. *)
THEOREM HeapExactHolds == Spec => []HeapExact
<1>1. IInv => HeapExact
    BY DEF IInv
<1> QED  BY <1>1, Invariance, PTL

(* drain() returns 0 only when every worker was given back. *)
THEOREM DrainExactHolds == Spec => []DrainExact
<1>1. IInv => DrainExact
    BY DEF IInv
<1> QED  BY <1>1, Invariance, PTL

-----------------------------------------------------------------------------
(* A dispatch grants its waiters in order. *)
LEMMA DispatchedInOrder ==
    ASSUME NEW G, NEW W, NEW f, NEW H, Dispatched(G, W, f, seq', H),
           W \in SUBSET Requests, \A q \in Requests : GrantedNow(q) => q \in G
    PROVE  InOrder
<1> SUFFICES ASSUME NEW g \in Requests, GrantedNow(g),
                    NEW w \in waiting', fut'[w] = "pending", Before(seq', w, g)
             PROVE  ~Eligible(w, [poolInuse' EXCEPT ![job[g].pool] = @ - 1],
                                 [clientInuse' EXCEPT ![job[g].client] = @ - 1])
    BY DEF InOrder
<1>1. g \in G /\ w \in W \ G /\ w \in Requests
    BY DEF Dispatched
<1>2. f[w] = "pending"
    BY <1>1 DEF Dispatched
<1> QED  BY <1>1, <1>2 DEF Dispatched

(* Only a dispatch grants, and only to waiters of the heap it runs over. *)
LEMMA StepInOrder == IInv /\ [Next]_vars => InOrder /\ AdmitsNothing
<1> SUFFICES ASSUME IInv, [Next]_vars PROVE InOrder /\ AdmitsNothing
    OBVIOUS
<1>1. CASE \A q \in Requests : ~GrantedNow(q)
    BY <1>1 DEF InOrder, AdmitsNothing
<1>2. ASSUME NEW r \in Requests, Acquire(r)
      PROVE  InOrder /\ AdmitsNothing
  <2>1. PICK G : Dispatched(G, waiting \cup {r}, [fut EXCEPT ![r] = "pending"],
                           seq', Holders)
      BY <1>2, AcquireDispatch
  <2>2. /\ pc[r] = "new" /\ fut \in [Requests -> FutStates] /\ ~Draining
        /\ waiting \cup {r} \in SUBSET Requests
      BY <1>2 DEF Acquire, Enqueue, IInv, TypeOK, FutStates
  <2>3. ASSUME NEW q \in Requests, GrantedNow(q)
        PROVE  q \in G
    <3>1. /\ fut'[q] = "granted" /\ pc'[q] \in {"waiting", "leased"}
          /\ fut[q] # "granted" \/ pc[q] \notin {"waiting", "leased"}
        BY <2>3 DEF GrantedNow, Holders
    <3>2. q # r => pc'[q] = pc[q]
        BY <1>2 DEF Acquire, Enqueue, IInv, TypeOK
    <3>3. fut'[q] = IF q \in G THEN "granted" ELSE IF q = r THEN "pending" ELSE fut[q]
        BY <2>1, <2>2 DEF Dispatched
    <3> QED  BY <3>1, <3>2, <3>3
  <2>4. InOrder
      BY <2>1, <2>2, <2>3, DispatchedInOrder
  <2> QED  BY <2>2, <2>4 DEF AdmitsNothing
<1>3. ASSUME NEW r \in Holders, GiveBack(r), seq' = seq, drain' = drain,
             \A q \in Requests : q # r => pc'[q] = pc[q]
      PROVE  InOrder /\ AdmitsNothing
  <2>1. PICK G : Dispatched(G, waiting, fut, seq, Holders \ {r})
      BY <1>3, GiveBackDispatch
  <2>2. waiting \in SUBSET Requests /\ Dispatched(G, waiting, fut, seq', Holders \ {r})
      BY <1>3, <2>1 DEF IInv, TypeOK
  <2>3. ASSUME NEW q \in Requests, GrantedNow(q)
        PROVE  q \in G
    <3>1. q # r /\ fut'[q] = "granted" /\ pc'[q] \in {"waiting", "leased"}
        BY <1>3, <2>3 DEF GrantedNow, Holders
    <3>2. fut[q] # "granted"
        BY <1>3, <2>3, <3>1 DEF GrantedNow, Holders
    <3> QED  BY <2>1, <3>1, <3>2 DEF Dispatched
  <2>4. InOrder
      BY <2>2, <2>3, DispatchedInOrder
  <2>5. Draining => G = {}
      BY <2>1 DEF Dispatched, IInv, DrainExact
  <2> QED  BY <2>3, <2>4, <2>5 DEF AdmitsNothing
<1>4. CASE UNCHANGED <<pc, fut>>
    BY <1>1, <1>4 DEF GrantedNow, Holders
<1>5. ASSUME NEW r \in Requests,
             Refuse(r) \/ GiveUp(r) \/ TakeLease(r) \/ Forget(r) \/ FailDraining(r)
      PROVE  \A q \in Requests : ~GrantedNow(q)
    BY <1>5 DEF Refuse, GiveUp, TakeLease, Forget, FailDraining, GrantedNow, Holders,
                IInv, TypeOK
<1>6. ASSUME NEW r \in Requests, HandBack(r) \/ Release(r)
      PROVE  InOrder /\ AdmitsNothing
  <2>1. r \in Holders
      BY <1>6 DEF HandBack, Release, Holders, IInv, PhasesOK
  <2>2. /\ GiveBack(r) /\ seq' = seq /\ drain' = drain
        /\ \A q \in Requests : q # r => pc'[q] = pc[q]
      BY <1>6 DEF HandBack, Release, IInv, TypeOK
  <2> QED  BY <1>3, <2>1, <2>2
<1>7. CASE DrainStart \/ DrainReturn
  <2>1. pc' = pc /\ \A q \in Requests : fut'[q] = "granted" => fut[q] = "granted"
      BY <1>7 DEF DrainStart, DrainReturn, IInv, TypeOK
  <2>2. \A q \in Requests : ~GrantedNow(q)
      BY <2>1 DEF GrantedNow, Holders
  <2> QED  BY <1>1, <2>2
<1>8. CASE UNCHANGED vars
    BY <1>4, <1>8 DEF vars
<1> QED  BY <1>1, <1>2, <1>5, <1>6, <1>7, <1>8 DEF Next, Resume

(* Workers are granted in order of priority, then arrival. *)
THEOREM Order == Spec => NoOvertaking
<1>1. IInv /\ [Next]_vars => [InOrder]_vars
    BY StepInOrder
<1> QED  BY <1>1, Invariance, PTL DEF Spec, NoOvertaking

(* A draining gateway grants nothing. *)
THEOREM DrainAdmits == Spec => DrainAdmitsNothing
<1>1. IInv /\ [Next]_vars => [AdmitsNothing]_vars
    BY StepInOrder
<1> QED  BY <1>1, Invariance, PTL DEF Spec, DrainAdmitsNothing
=============================================================================
