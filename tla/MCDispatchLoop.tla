--------------------------- MODULE MCDispatchLoop ---------------------------
(***************************************************************************)
(* The dispatch loop from every start with four requests: queued, already  *)
(* cancelled, holding a worker or absent, in every order of arrival.       *)
(***************************************************************************)
EXTENDS DispatchLoop, TLC

Job(c, p, prio, conc) ==
    [client |-> c, pool |-> p, priority |-> prio, concurrency |-> conc]

MCJobs     == {Job("ip", "guest", 1, 2), Job("user", "member", 1, 1),
               Job("user", "member", 0, 2)}
MCPoolCaps == [p \in {"guest"} |-> 1]

MCSymmetry == Permutations(Requests) \cup Permutations(Workers)
=============================================================================
