---------------------------- MODULE DispatchLoop ----------------------------
(***************************************************************************)
(* The loop of Scheduler._dispatch (scheduler.py:130-146), one iteration   *)
(* per step, over the variables of Scheduler.  No other task runs between  *)
(* two iterations, so nothing is interleaved here: the module shows that   *)
(* the loop, started on any heap, ends with the one result that Scheduler  *)
(* takes for a dispatch.                                                   *)
(***************************************************************************)
EXTENDS Scheduler

VARIABLES
    at,       \* "loop" while the loop runs, "done" once skipped is pushed back
    skipped,  \* the local list of waiters that were not eligible
    was       \* the heap, free list and counters the loop started from

loopVars == <<at, skipped, was>>

LoopInit ==
    /\ job \in [Requests -> Jobs]
    /\ fut \in [Requests -> {"none", "pending", "cancelled", "granted"}]
    /\ pc = [r \in Requests |-> IF fut[r] = "none" THEN "new"
                                ELSE IF fut[r] = "granted" THEN "leased" ELSE "waiting"]
    /\ WithinCaps(Holders) /\ WithinLimits(Holders)
    /\ waiting = {r \in Requests : pc[r] = "waiting"}
    /\ seq \in {s \in [Requests -> 0 .. Cardinality(Requests) - 1] :
                  \A v, w \in Requests : s[v] = s[w] => v = w}
    /\ nextSeq = Cardinality(Requests)
    /\ Cardinality(Holders) <= Cardinality(Workers)
    /\ free \in {F \in [1 .. Cardinality(Workers) - Cardinality(Holders) -> Workers] :
                    \A i, j \in DOMAIN F : F[i] = F[j] => i = j}
    /\ slot = [r \in Requests |-> NoWorker]
    /\ poolInuse = [p \in Pools |-> Cardinality(InPool(Holders, p))]
    /\ clientInuse = [c \in Clients |-> Cardinality(OfClient(Holders, c))]
    /\ mustCancel = {}
    /\ drain = "idle"
    /\ at = "loop"
    /\ skipped = {}
    /\ was = [W |-> waiting, f |-> fut, F |-> free, P |-> poolInuse, C |-> clientInuse]

(* heappop: w is the waiter that comes first. *)
Pop(w) ==
    /\ at = "loop"
    /\ free # <<>>
    /\ w \in waiting
    /\ \A v \in waiting \ {w} : Before(seq, w, v)
    /\ waiting' = waiting \ {w}
    /\ UNCHANGED <<job, pc, seq, nextSeq, mustCancel, drain, at, was>>

(* Abandoned while queued: continue. *)
Drop(w) ==
    /\ Pop(w)
    /\ fut[w] # "pending"
    /\ UNCHANGED <<fut, slot, free, poolInuse, clientInuse, skipped>>

(* Not eligible: continue, and push it back later. *)
Skip(w) ==
    /\ Pop(w)
    /\ fut[w] = "pending"
    /\ ~Eligible(w, poolInuse, clientInuse)
    /\ skipped' = skipped \cup {w}
    /\ UNCHANGED <<fut, slot, free, poolInuse, clientInuse>>

\* The counters are brought up to date only after the loop.
GrantUncounted(w) ==
    /\ Pop(w)
    /\ fut[w] = "pending"
    /\ Eligible(w, poolInuse, clientInuse)
    /\ slot' = [slot EXCEPT ![w] = Head(free)]
    /\ free' = Tail(free)
    /\ fut' = [fut EXCEPT ![w] = "granted"]
    /\ UNCHANGED <<poolInuse, clientInuse, skipped>>

(* The front of the free list goes to w, and the counters count it. *)
Grant(w) ==
    /\ Pop(w)
    /\ fut[w] = "pending"
    /\ Eligible(w, poolInuse, clientInuse)
    /\ slot' = [slot EXCEPT ![w] = Head(free)]
    /\ free' = Tail(free)
    /\ poolInuse' = [poolInuse EXCEPT ![job[w].pool] = @ + 1]
    /\ clientInuse' = [clientInuse EXCEPT ![job[w].client] = @ + 1]
    /\ fut' = [fut EXCEPT ![w] = "granted"]
    /\ UNCHANGED skipped

(***************************************************************************)
(* The heap is empty or no worker is free: the skipped waiters go back.    *)
(* The early return of lines 131-132 is this with nothing skipped.         *)
(***************************************************************************)
Finish ==
    /\ at = "loop"
    /\ waiting = {} \/ free = <<>>
    /\ at' = "done"
    /\ waiting' = waiting \cup skipped
    /\ UNCHANGED <<job, pc, fut, slot, seq, nextSeq, free, poolInuse, clientInuse,
                   mustCancel, drain, skipped, was>>

LoopNext == Finish \/ \E w \in Requests : Drop(w) \/ Skip(w) \/ Grant(w)

LoopSpec == LoopInit /\ [][LoopNext]_<<vars, loopVars>>

-----------------------------------------------------------------------------
(***************************************************************************)
(* The loop ends as Dispatch says: the waiters it granted are the one set  *)
(* that IsGrant describes, and the heap, the free list, the counters and   *)
(* the slots are Dispatch's (scheduler.py:130-146).                        *)
(***************************************************************************)
LoopIsDispatch ==
    at = "done" =>
        LET L == {w \in was.W : was.f[w] = "pending"}
            G == {w \in L : fut[w] = "granted"}
        IN  /\ \A K \in SUBSET L : IsGrant(K, L, seq, was.F, was.P, was.C) <=> K = G
            /\ waiting = was.W \ (G \cup Discarded(G, was.W, L, seq, was.F))
            /\ free = SubSeq(was.F, Cardinality(G) + 1, Len(was.F))
            /\ poolInuse = PoolsWith(was.P, G)
            /\ clientInuse = ClientsWith(was.C, G)
            /\ \A r \in Requests : r \notin G => fut[r] = was.f[r]
            /\ \A g \in G : slot[g] = was.F[Cardinality(Ahead(seq, G, g)) + 1]
=============================================================================
