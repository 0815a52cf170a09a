------------------------------ MODULE MCBilling ------------------------------
(***************************************************************************)
(* Two users, two checkouts and a handful of Stripe events: many of them   *)
(* when nothing goes wrong, fewer when everything may, or everything but a *)
(* failed question and a crash.  MCDeferred has a failed question for its  *)
(* only fault.                                                             *)
(***************************************************************************)
EXTENDS Billing, TLC

Failures    == {"stripe_error", "crash"}

MCMaxEvents == [F \in {{}, FaultKinds \ Failures, FaultKinds} |-> IF F = {} THEN 8 ELSE 4]
MCDeferred  == [F \in {{"stripe_error"}} |-> 5]

MCSymmetry == Permutations(Users) \cup Permutations(Subs)
=============================================================================
