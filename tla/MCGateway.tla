------------------------------ MODULE MCGateway ------------------------------
(***************************************************************************)
(* The proxy on a small instance: a guest address whose pool is capped and *)
(* whose budget is one run, and a member without a budget.                 *)
(***************************************************************************)
EXTENDS GatewayMeter, TLC

Job(c, p, prio, conc) ==
    [client |-> c, pool |-> p, priority |-> prio, concurrency |-> conc]

MCJobs     == {Job("ip", "guest", 1, 1), Job("user", "member", 0, 2)}
MCOneJob   == {Job("ip", "guest", 1, 2)}
MCPoolCaps == [p \in {"guest"} |-> 1]
MCBudget   == [c \in {"ip"} |-> 1]

MCSymmetry == Permutations(Requests) \cup Permutations(Workers)
=============================================================================
