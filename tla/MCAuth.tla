------------------------------- MODULE MCAuth -------------------------------
(***************************************************************************)
(* Sign-in on small instances.  A quota bounds what may happen in a case,  *)
(* and the cases are explored side by side: many links over a long time,   *)
(* links and a restart, two flows with refreshed and revoked sessions, two *)
(* flows and a restart, a link beside a flow, and the methods of one user. *)
(***************************************************************************)
EXTENDS AuthSessions, TLC

\* Clock, links, flows, refreshes in flight, bumps, moves, disabled, restarts.
Quota(c, l, f, r, b, m, d, s) ==
    [clock |-> c, links |-> l, flows |-> f, requests |-> r,
     bumps |-> b, moves |-> m, disabled |-> d, starts |-> s]

ManyLinks    == Quota(3, 3, 0, 0, 0, 0, 0, 0)
LinksRestart == Quota(3, 2, 0, 0, 0, 0, 0, 1)
TwoFlows     == Quota(2, 0, 2, 1, 1, 1, 0, 0)
FlowsRestart == Quota(1, 0, 2, 1, 1, 0, 0, 1)
LinkAndFlow  == Quota(2, 1, 1, 1, 1, 0, 1, 1)
Methods      == Quota(0, 1, 2, 0, 0, 1, 0, 0)

MCQuotas     == {ManyLinks, LinksRestart, TwoFlows, FlowsRestart, LinkAndFlow, Methods}
MCOneQuota   == {Methods}

MCSymmetry == Permutations(Emails) \cup Permutations(Browsers) \cup Permutations(Clients)
                  \cup Permutations(Providers)
=============================================================================
