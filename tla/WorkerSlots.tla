----------------------------- MODULE WorkerSlots -----------------------------
(***************************************************************************)
(* What the scheduler promises its callers, without its queue: "one slot   *)
(* per worker" (scheduler.py:1).  A request is given a worker at most      *)
(* once, a worker is with one request at a time, and once the service is   *)
(* closed workers only come back.  In one step at most one request gives   *)
(* its worker back, and any number may then be served.                     *)
(***************************************************************************)
CONSTANTS Workers, Requests, NoWorker

VARIABLES
    with,    \* with[r]: the worker r has, or NoWorker
    served,  \* the requests that have been given a worker, ever
    closed   \* no request is served any more

slotVars == <<with, served, closed>>

SlotsInit ==
    /\ with = [r \in Requests |-> NoWorker]
    /\ served = {}
    /\ closed = FALSE

Having(f) == {r \in Requests : f[r] # NoWorker}

(* No two requests have the same worker. *)
OneEach(f) == \A r, k \in Having(f) : f[r] = f[k] => r = k

(* The requests of back return their workers, those of S are served. *)
Move(back, S) ==
    /\ back \subseteq Having(with)
    /\ S \cap served = {}
    /\ \E to \in [S -> Workers] :
          with' = [r \in Requests |-> IF r \in S THEN to[r]
                                      ELSE IF r \in back THEN NoWorker ELSE with[r]]
    /\ OneEach(with')
    /\ served' = served \cup S
    /\ UNCHANGED closed

Serve ==
    /\ ~closed
    /\ \E back \in SUBSET Requests, S \in SUBSET Requests :
          /\ \A a, b \in back : a = b
          /\ Move(back, S)

Return ==
    /\ closed
    /\ \E r \in Requests : Move({r}, {})

Close ==
    /\ closed' = TRUE
    /\ UNCHANGED <<with, served>>

SlotsNext == Serve \/ Return \/ Close

SlotsSpec == SlotsInit /\ [][SlotsNext]_slotVars
=============================================================================
