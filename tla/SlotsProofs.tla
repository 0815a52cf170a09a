----------------------------- MODULE SlotsProofs -----------------------------
(***************************************************************************)
(* The scheduler implements WorkerSlots, for any workers and requests: a   *)
(* step that dispatches is a Serve or a Return, the start of drain() is a  *)
(* Close, and every other step leaves the abstract state alone.            *)
(***************************************************************************)
EXTENDS SchedulerProofs, SchedulerSlots

(* Whoever holds a worker has it, and no two have the same. *)
LEMMA HoldersHave ==
    ASSUME WorkerExclusive, Holders \in SUBSET Requests
    PROVE  Slots!Having(WorkerOf) = Holders /\ Slots!OneEach(WorkerOf)
<1>1. \A r \in Requests : WorkerOf[r] = IF r \in Holders THEN slot[r] ELSE NoWorker
    BY DEF WorkerOf
<1>2. \A h \in Holders : slot[h] \in Workers /\ slot[h] # NoWorker
    BY WorkersAssumption DEF WorkerExclusive, Exclusive
<1>3. Slots!Having(WorkerOf) = Holders
    BY <1>1, <1>2 DEF Slots!Having
<1>4. \A h, k \in Holders : slot[h] = slot[k] => h = k
    BY DEF WorkerExclusive, Exclusive
<1>5. Slots!OneEach(WorkerOf)
    BY <1>1, <1>3, <1>4 DEF Slots!OneEach
<1> QED  BY <1>3, <1>5

(* The same after a step. *)
LEMMA HoldersHaveNext ==
    ASSUME WorkerExclusive', Holders' \in SUBSET Requests
    PROVE  Slots!OneEach(WorkerOf')
<1>1. \A r \in Requests : WorkerOf'[r] = IF r \in Holders' THEN slot'[r] ELSE NoWorker
    BY DEF WorkerOf
<1>2. \A h \in Holders' : slot'[h] \in Workers /\ slot'[h] # NoWorker
    BY WorkersAssumption DEF WorkerExclusive, Exclusive
<1>3. Slots!Having(WorkerOf') = Holders'
    BY <1>1, <1>2 DEF Slots!Having
<1>4. \A h, k \in Holders' : slot'[h] = slot'[k] => h = k
    BY DEF WorkerExclusive, Exclusive
<1> QED  BY <1>1, <1>3, <1>4 DEF Slots!OneEach

(***************************************************************************)
(* A step in which back gives workers back and G is granted, with the      *)
(* slots of all others as they were, moves workers as WorkerSlots says.    *)
(***************************************************************************)
LEMMA Moves ==
    ASSUME IInv, IInv', NEW back \in SUBSET Holders, NEW G \in SUBSET Requests,
           G \cap Granted = {}, Granted' = Granted \cup G,
           Holders' = (Holders \ back) \cup G,
           \A r \in Requests \ G : slot'[r] = slot[r], drain' = drain
    PROVE  Slots!Move(back, G)
<1>1. Holders \in SUBSET Requests /\ Holders' \in SUBSET Requests
    BY DEF Holders
<1>2. WorkerExclusive /\ WorkerExclusive'
    BY DEF IInv
<1>3. Slots!Having(WorkerOf) = Holders /\ Slots!OneEach(WorkerOf')
    BY <1>1, <1>2, HoldersHave, HoldersHaveNext
<1>4. Holders \subseteq Granted
    BY DEF Holders, Granted
<1> DEFINE to == [g \in G |-> slot'[g]]
<1>5. to \in [G -> Workers]
    BY <1>2 DEF WorkerExclusive, Exclusive
<1>6. WorkerOf' = [r \in Requests |-> IF r \in G THEN to[r]
                                      ELSE IF r \in back THEN NoWorker ELSE WorkerOf[r]]
    BY DEF WorkerOf
<1>7. Draining' = Draining
    BY DEF Draining
<1> HIDE DEF to
<1> QED  BY <1>3, <1>5, <1>6, <1>7 DEF Slots!Move

(* An arrival: nobody gives back, and its dispatch serves. *)
LEMMA AcquireServes ==
    ASSUME IInv, IInv', NEW r \in Requests, Acquire(r)
    PROVE  Slots!SlotsNext
<1> DEFINE f == [fut EXCEPT ![r] = "pending"]
<1>1. PICK G : Dispatched(G, waiting \cup {r}, f, seq', Holders)
    BY AcquireDispatch
<1>2. /\ fut \in [Requests -> FutStates] /\ waiting \cup {r} \in SUBSET Requests
      /\ pc \in [Requests -> {"new", "waiting", "leased", "released", "timeout",
                              "draining", "full"}]
      /\ pc[r] = "new" /\ fut[r] = "none" /\ ~Draining /\ drain' = drain
      /\ pc' = [pc EXCEPT ![r] = IF fut'[r] = "granted" THEN "leased" ELSE "waiting"]
      /\ \A w \in waiting : pc[w] = "waiting"
    BY DEF Acquire, Enqueue, IInv, TypeOK, PhasesOK, HeapExact, FutStates
<1>3. G \in SUBSET Requests /\ G \subseteq waiting \cup {r}
    BY <1>1, <1>2 DEF Dispatched
<1>4. \A q \in Requests : fut'[q] = IF q \in G THEN "granted"
                                    ELSE IF q = r THEN "pending" ELSE fut[q]
    BY <1>1, <1>2 DEF Dispatched
<1>5. \A g \in G : fut[g] # "granted"
    BY <1>1, <1>2, <1>3 DEF Dispatched
<1>6. G \cap Granted = {} /\ Granted' = Granted \cup G
    BY <1>2, <1>3, <1>4, <1>5 DEF Granted
<1>7. Holders' = (Holders \ {}) \cup G
    BY <1>2, <1>3, <1>4, <1>5 DEF Holders
<1>8. \A q \in Requests \ G : slot'[q] = slot[q]
    BY <1>1 DEF Dispatched
<1>9. {} \in SUBSET Holders
    OBVIOUS
<1>10. Slots!Move({}, G)
    BY <1>2, <1>3, <1>6, <1>7, <1>8, <1>9, Moves
<1>11. (\A a, b \in {} : a = b) /\ {} \in SUBSET Requests
    OBVIOUS
<1> QED  BY <1>2, <1>3, <1>10, <1>11 DEF Slots!Serve, Slots!SlotsNext

(* A worker given back: the dispatch serves, or nobody once draining. *)
LEMMA GiveBackMoves ==
    ASSUME IInv, IInv', NEW r \in Holders, GiveBack(r), drain' = drain,
           NEW to \in {"released", "timeout"}, pc' = [pc EXCEPT ![r] = to]
    PROVE  Slots!SlotsNext
<1>1. PICK G : Dispatched(G, waiting, fut, seq, Holders \ {r})
    BY GiveBackDispatch
<1>2. /\ r \in Requests /\ waiting \in SUBSET Requests
      /\ pc \in [Requests -> {"new", "waiting", "leased", "released", "timeout",
                              "draining", "full"}]
      /\ \A w \in waiting : pc[w] = "waiting"
    BY DEF Holders, IInv, TypeOK, HeapExact
<1>3. G \in SUBSET Requests /\ G \subseteq waiting /\ \A g \in G : fut[g] # "granted"
    BY <1>1, <1>2 DEF Dispatched
<1>4. \A q \in Requests : fut'[q] = IF q \in G THEN "granted" ELSE fut[q]
    BY <1>1 DEF Dispatched
<1>5. G \cap Granted = {} /\ Granted' = Granted \cup G
    BY <1>3, <1>4 DEF Granted
<1>6. Holders' = (Holders \ {r}) \cup G
  <2>1. r \notin G
      BY <1>3 DEF Holders
  <2> QED  BY <1>2, <1>3, <1>4, <2>1 DEF Holders
<1>7. \A q \in Requests \ G : slot'[q] = slot[q]
    BY <1>1 DEF Dispatched
<1>8. {r} \in SUBSET Holders
    OBVIOUS
<1>9. Slots!Move({r}, G)
    BY <1>3, <1>5, <1>6, <1>7, <1>8, Moves
<1>10. CASE Draining
  <2>1. G = {}
      BY <1>3, <1>10 DEF IInv, DrainExact
  <2> QED  BY <1>2, <1>9, <1>10, <2>1 DEF Slots!Return, Slots!SlotsNext
<1>11. CASE ~Draining
  <2>1. (\A a, b \in {r} : a = b) /\ {r} \in SUBSET Requests
      BY <1>2
  <2> QED  BY <1>3, <1>9, <1>11, <2>1 DEF Slots!Serve, Slots!SlotsNext
<1> QED  BY <1>10, <1>11

(* A step that changes neither holders, slots nor grants is a stutter. *)
LEMMA Stutters ==
    ASSUME Holders' = Holders, Granted' = Granted, slot' = slot, drain' = drain
    PROVE  UNCHANGED Slots!slotVars
<1>1. WorkerOf' = WorkerOf
    BY DEF WorkerOf
<1>2. Draining' = Draining
    BY DEF Draining
<1> QED  BY <1>1, <1>2 DEF Slots!slotVars

LEMMA StepMaps ==
    ASSUME IInv, IInv', [Next]_vars
    PROVE  [Slots!SlotsNext]_(Slots!slotVars)
<1>1. ASSUME NEW r \in Requests, Acquire(r) PROVE Slots!SlotsNext
    BY <1>1, AcquireServes
<1>2. ASSUME NEW r \in Requests, HandBack(r) \/ Release(r) PROVE Slots!SlotsNext
  <2>1. r \in Holders
      BY <1>2 DEF HandBack, Release, Holders, IInv, PhasesOK
  <2> QED  BY <1>2, <2>1, GiveBackMoves DEF HandBack, Release
<1>3. ASSUME NEW r \in Requests,
             Refuse(r) \/ GiveUp(r) \/ TakeLease(r) \/ Forget(r) \/ FailDraining(r)
      PROVE  UNCHANGED Slots!slotVars
  <2>1. Holders' = Holders /\ Granted' = Granted
      BY <1>3 DEF Refuse, GiveUp, TakeLease, Forget, FailDraining, Holders, Granted,
                  IInv, TypeOK, PhasesOK
  <2>2. slot' = slot /\ drain' = drain
      BY <1>3 DEF Refuse, GiveUp, TakeLease, Forget, FailDraining
  <2> QED  BY <2>1, <2>2, Stutters
<1>4. CASE DrainStart \/ DrainReturn
  <2>1. \A q \in Requests : fut'[q] = "granted" <=> fut[q] = "granted"
      BY <1>4 DEF DrainStart, DrainReturn, IInv, TypeOK
  <2>2. Holders' = Holders /\ Granted' = Granted
      BY <1>4, <2>1 DEF DrainStart, DrainReturn, Holders, Granted
  <2>3. WorkerOf' = WorkerOf
      BY <1>4, <2>2 DEF DrainStart, DrainReturn, WorkerOf
  <2>4. Draining' = TRUE
      BY <1>4 DEF DrainStart, DrainReturn, DrainLook, Draining
  <2> QED  BY <2>2, <2>3, <2>4 DEF Slots!Close, Slots!SlotsNext
<1>5. CASE UNCHANGED vars
  <2>1. Holders' = Holders /\ Granted' = Granted /\ slot' = slot /\ drain' = drain
      BY <1>5 DEF vars, Holders, Granted
  <2> QED  BY <2>1, Stutters
<1> QED  BY <1>1, <1>2, <1>3, <1>4, <1>5 DEF Next, Resume

LEMMA InitMaps == Init => Slots!SlotsInit
<1> SUFFICES ASSUME Init PROVE Slots!SlotsInit
    OBVIOUS
<1>1. Holders = {} /\ Granted = {} /\ Draining = FALSE
    BY DEF Init, Holders, Granted, Draining
<1> QED  BY <1>1 DEF Slots!SlotsInit, WorkerOf

(***************************************************************************)
(* Every behavior of the scheduler is one of WorkerSlots: whatever tasks,  *)
(* timers and cancellations do, workers go round one request at a time.    *)
(***************************************************************************)
THEOREM Implementation == Spec => ImplementsSlots
<1>1. Init => Slots!SlotsInit
    BY InitMaps
<1>2. IInv /\ IInv' /\ [Next]_vars => [Slots!SlotsNext]_(Slots!slotVars)
    BY StepMaps
<1> QED  BY <1>1, <1>2, Invariance, PTL DEF Spec, ImplementsSlots, Slots!SlotsSpec
=============================================================================
