---------------------------- MODULE SchedulerSlots ----------------------------
(***************************************************************************)
(* The scheduler implements WorkerSlots: a request has the worker of its   *)
(* lease, or of a grant its task has not seen yet; a grant handed back     *)
(* unseen counts as served.                                                *)
(***************************************************************************)
EXTENDS Scheduler

WorkerOf == [r \in Requests |-> IF r \in Holders THEN slot[r] ELSE NoWorker]

Granted == {r \in Requests : fut[r] = "granted"}

Slots == INSTANCE WorkerSlots WITH
    with <- WorkerOf, served <- Granted, closed <- Draining

(***************************************************************************)
(* Leases come and go as WorkerSlots allows: whatever the tasks, timers    *)
(* and cancellations do, one worker is with one request, a request is      *)
(* served once, a step takes back one worker at most, and a draining       *)
(* gateway serves nobody (scheduler.py:101-175).                           *)
(***************************************************************************)
ImplementsSlots == Slots!SlotsSpec
=============================================================================
