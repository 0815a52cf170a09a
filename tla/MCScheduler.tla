----------------------------- MODULE MCScheduler -----------------------------
(***************************************************************************)
(* The scheduler on a small instance: guest addresses, whose pool is       *)
(* capped, and one member, who may bring jobs of two plans.                *)
(***************************************************************************)
EXTENDS SchedulerSlots, TLC

Job(c, p, prio, conc) ==
    [client |-> c, pool |-> p, priority |-> prio, concurrency |-> conc]

\* A guest address, and a second one with the same pool and priority.
GuestA == Job("ipA", "guest", 2, 1)
GuestB == Job("ipB", "guest", 2, 2)
\* A member before and after an upgrade: a better priority, a higher limit.
Free   == Job("user", "member", 1, 1)
Pro    == Job("user", "member", 0, 2)

MCJobs     == {GuestA, GuestB, Free, Pro}
MCFewJobs  == {GuestA, Free, Pro}
MCPoolCaps == [p \in {"guest"} |-> 1]

MCSymmetry == Permutations(Requests) \cup Permutations(Workers)
=============================================================================
