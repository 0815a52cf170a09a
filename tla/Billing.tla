------------------------------- MODULE Billing -------------------------------
(***************************************************************************)
(* Plans and payments (billing.py and the /billing routes of app.py): what *)
(* the gateway records of a Stripe subscription and the plan it gives the  *)
(* user, against what Stripe knows.  Stripe is the environment: it keeps   *)
(* the subscriptions, emits an event for each change, delivers events      *)
(* until they are acknowledged and answers questions with what is true at  *)
(* that moment.  A handler is suspended while it asks Stripe, and other    *)
(* handlers run meanwhile.                                                 *)
(***************************************************************************)
EXTENDS Integers, Sequences, FiniteSets

CONSTANTS
    Users,      \* the accounts
    Subs,       \* the checkouts, each of which may become a subscription
    MaxEvents,  \* the cases, by what may go wrong: bounds on the events Stripe emits
    None        \* no value

FaultKinds ==
    {"reorder",       \* an event is delivered before an earlier one is acknowledged
     "retry",         \* an event is delivered again while it is being handled
     "stripe_error",  \* a question to Stripe fails
     "crash",         \* the process dies and is started again
     "page",          \* the success page is visited
     "delayed",       \* a payment completes after its checkout
     "second"}        \* a user pays for a second subscription beside a live one

(* A checkout that was opened may become a subscription; active, unpaid and *)
(* incomplete stand for the statuses that are Pro, not Pro, and not yet.   *)
Statuses == {"none", "open", "incomplete", "active", "unpaid", "canceled"}

ASSUME BillingAssumption ==
    /\ DOMAIN MaxEvents \subseteq SUBSET FaultKinds
    /\ \A F \in DOMAIN MaxEvents : MaxEvents[F] \in Nat
    /\ None \notin Users \cup Subs \cup Statuses
    /\ None \notin [customer : Subs, sub : Subs, status : Statuses]

VARIABLES
    faults,    \* what may go wrong, chosen at the start
    stat,      \* Stripe: the status of each checkout, then subscription
    owner,     \* Stripe: client_reference_id, the user who opened the checkout
    customer,  \* Stripe: its customer, named by the first checkout made for it
    paid,      \* Stripe: the checkouts whose payment_status is "paid"
    log,       \* Stripe: the events, in the order they happened
    acked,     \* Stripe: the events answered with 200
    recorded,  \* stripe_events: the ids seen
    row,       \* subscriptions: a user's row, or None
    plan,      \* users.plan
    handlers,  \* the handlers suspended on a question to Stripe
    visited,   \* the success pages already visited
    times,     \* history: how often each event was applied to a user
    torn       \* history: the users whose row a crash left without its plan

stripeVars == <<stat, owner, customer, paid, log>>
billVars == <<faults, stripeVars, acked, recorded, row, plan, handlers, visited, times, torn>>

\* Only a cancelled subscription loses the plan.
PlanForLenient(st) == IF st \notin {"none", "canceled"} THEN "pro" ELSE "free"

(* plan_for: active stands for all of PRO_STATUSES. *)
PlanFor(st) == IF st = "active" THEN "pro" ELSE "free"

Live(s) == stat[s] \in {"incomplete", "active", "unpaid"}

BillInit ==
    /\ faults \in DOMAIN MaxEvents
    /\ stat = [s \in Subs |-> "none"]
    /\ owner = [s \in Subs |-> None]
    /\ customer = [s \in Subs |-> None]
    /\ paid = {}
    /\ log = <<>>
    /\ acked = {}
    /\ recorded = {}
    /\ row = [u \in Users |-> None]
    /\ plan = [u \in Users |-> "free"]
    /\ handlers = {}
    /\ visited = {}
    /\ times = [n \in 1 .. MaxEvents[faults] |-> 0]
    /\ torn = {}

-----------------------------------------------------------------------------
(* create_checkout: it names the user, and the customer if there is one. *)
CreateCheckout(u, c, s) ==
    /\ stat' = [stat EXCEPT ![s] = "open"]
    /\ owner' = [owner EXCEPT ![s] = u]
    /\ customer' = [customer EXCEPT ![s] = IF c = None THEN s ELSE c]

(* /billing/checkout: refused to a Pro; the customer of the row is used again. *)
OpenCheckout(u, s) ==
    /\ stat[s] = "none"
    /\ plan[u] # "pro"
    /\ CreateCheckout(u, IF row[u] = None THEN None ELSE row[u].customer, s)
    /\ UNCHANGED <<paid, log, acked, recorded, row, plan, handlers, visited, times, torn>>

Event(kind, s, st) == [kind |-> kind, sub |-> s, st |-> st]

Emit(es) == Len(log) + Len(es) <= MaxEvents[faults] /\ log' = log \o es

(* Stripe: the checkout completes; the payment may still be on its way. *)
Pay(s) ==
    /\ stat[s] = "open"
    /\ "second" \in faults \/ \A t \in Subs : owner[t] = owner[s] => ~Live(t)
    /\ \E st \in {"active"} \cup (IF "delayed" \in faults THEN {"incomplete"} ELSE {}) :
          /\ stat' = [stat EXCEPT ![s] = st]
          /\ paid' = IF st = "active" THEN paid \cup {s} ELSE paid
          /\ Emit(<<Event("subscription", s, st), Event("checkout", s, st)>>)
    /\ UNCHANGED <<owner, customer, acked, recorded, row, plan, handlers, visited, times, torn>>

(* Stripe: the subscription is renewed, runs into debt or ends. *)
Change(s) ==
    /\ Live(s)
    /\ \E st \in {"active", "unpaid", "canceled"} \ {stat[s]} :
          /\ stat[s] = "incomplete" => st # "unpaid"
          /\ stat' = [stat EXCEPT ![s] = st]
          /\ paid' = IF st = "active" THEN paid \cup {s} ELSE paid
          /\ Emit(<<Event("subscription", s, st)>>)
    /\ UNCHANGED <<owner, customer, acked, recorded, row, plan, handlers, visited, times, torn>>

-----------------------------------------------------------------------------
(* by_customer: the users whose row names this customer (at most one). *)
Knows(c) == {u \in Users : row[u] # None /\ row[u].customer = c}

Row(s, st) == [customer |-> customer[s], sub |-> s, status |-> st]

(* apply_subscription: the row, then the plan. *)
ApplySubscription(u, s, st) ==
    /\ row' = [row EXCEPT ![u] = Row(s, st)]
    /\ plan' = [plan EXCEPT ![u] = PlanFor(st)]
    /\ torn' = torn \ {u}

(* The event is applied, not merely taken note of. *)
Took(n) == times' = [times EXCEPT ![n] = @ + 1]

(* Stripe may deliver n now: it is unacknowledged, and not out of turn. *)
Due(n) ==
    /\ n \in DOMAIN log \ acked
    /\ "reorder" \in faults \/ 1 .. n - 1 \subseteq acked
    /\ "retry" \in faults \/ \A h \in handlers : h.n # n

(* record_event says False: a redelivery is acknowledged and nothing more. *)
Redelivered(n) ==
    /\ Due(n)
    /\ n \in recorded
    /\ acked' = acked \cup {n}
    /\ UNCHANGED <<stripeVars, recorded, row, plan, handlers, visited, times, torn>>

Fresh(n, kind) == Due(n) /\ n \notin recorded /\ log[n].kind = kind

\* The event is recorded once it has been applied.
WebhookCheckoutLate(n) ==
    /\ Fresh(n, "checkout")
    /\ handlers' = handlers \cup {[n |-> n, sub |-> log[n].sub, snap |-> None]}
    /\ UNCHANGED <<stripeVars, recorded, acked, row, plan, visited, times, torn>>

(***************************************************************************)
(* checkout.session.completed: recorded; an unpaid one is acknowledged and *)
(* dropped, a paid one asks Stripe for the subscription.                   *)
(***************************************************************************)
WebhookCheckout(n) ==
    /\ Fresh(n, "checkout")
    /\ recorded' = recorded \cup {n}
    /\ \/ /\ log[n].st = "active"
          /\ handlers' = handlers \cup {[n |-> n, sub |-> log[n].sub, snap |-> None]}
          /\ UNCHANGED acked
       \/ /\ log[n].st # "active"
          /\ acked' = acked \cup {n}
          /\ UNCHANGED handlers
    /\ UNCHANGED <<stripeVars, row, plan, visited, times, torn>>

\* A cancellation leaves the row and the plan alone.
WebhookSubscriptionKeeps(n) ==
    /\ Fresh(n, "subscription")
    /\ recorded' = recorded \cup {n}
    /\ acked' = acked \cup {n}
    /\ LET e == log[n] IN
       \/ /\ Knows(customer[e.sub]) = {} \/ e.st = "canceled"
          /\ UNCHANGED <<row, plan, times, torn>>
       \/ /\ e.st # "canceled"
          /\ Took(n)
          /\ \E u \in Knows(customer[e.sub]) : ApplySubscription(u, e.sub, e.st)
    /\ UNCHANGED <<stripeVars, handlers, visited>>

(***************************************************************************)
(* customer.subscription.*: recorded, and applied as the event tells it to *)
(* the user its customer is known to be, all without a suspension; that of *)
(* a customer in no row is dropped, and acknowledged like the others.      *)
(***************************************************************************)
WebhookSubscription(n) ==
    /\ Fresh(n, "subscription")
    /\ recorded' = recorded \cup {n}
    /\ acked' = acked \cup {n}
    /\ LET e == log[n] IN
       \/ Knows(customer[e.sub]) = {} /\ UNCHANGED <<row, plan, times, torn>>
       \/ Took(n) /\ \E u \in Knows(customer[e.sub]) : ApplySubscription(u, e.sub, e.st)
    /\ UNCHANGED <<stripeVars, handlers, visited>>

(* /billing/success, for the user's own paid session: it asks Stripe too. *)
VisitPage(s) ==
    /\ "page" \in faults
    /\ s \in paid \ visited
    /\ visited' = visited \cup {s}
    /\ handlers' = handlers \cup {[n |-> 0, sub |-> s, snap |-> None]}
    /\ UNCHANGED <<stripeVars, acked, recorded, row, plan, times, torn>>

\* It is asked for a subscription of the customer, not for this one.
AnswerByCustomer(h) ==
    /\ h.snap = None
    /\ \E t \in {s \in Subs : Live(s) \/ stat[s] = "canceled"} :
          /\ customer[t] = customer[h.sub]
          /\ handlers' = (handlers \ {h}) \cup {[h EXCEPT !.snap = stat[t]]}
    /\ UNCHANGED <<stripeVars, acked, recorded, row, plan, visited, times, torn>>

(* Stripe answers with the subscription as it is now. *)
Answer(h) ==
    /\ h.snap = None
    /\ handlers' = (handlers \ {h}) \cup {[h EXCEPT !.snap = stat[h.sub]]}
    /\ UNCHANGED <<stripeVars, acked, recorded, row, plan, visited, times, torn>>

\* An event that failed is acknowledged all the same.
FinishUnapplied(h) ==
    /\ h.snap # None
    /\ handlers' = handlers \ {h}
    /\ IF h.n = 0 THEN UNCHANGED acked ELSE acked' = acked \cup {h.n}
    /\ UNCHANGED <<stripeVars, recorded, row, plan, visited, times, torn>>

(* apply_checkout_session resumes: the answer is applied to the referenced user. *)
Finish(h) ==
    /\ h.snap # None
    /\ handlers' = handlers \ {h}
    /\ ApplySubscription(owner[h.sub], h.sub, h.snap)
    /\ IF h.n = 0 THEN UNCHANGED <<acked, times>>
       ELSE acked' = acked \cup {h.n} /\ Took(h.n)
    /\ UNCHANGED <<stripeVars, recorded, visited>>

(* StripeError: the webhook answers 503, the page says "almost there". *)
Fail(h) ==
    /\ "stripe_error" \in faults
    /\ h.snap = None
    /\ handlers' = handlers \ {h}
    /\ UNCHANGED <<stripeVars, acked, recorded, row, plan, visited, times, torn>>

(* The row of apply_subscription, without the plan. *)
Tear(u, s, st) ==
    /\ row' = [row EXCEPT ![u] = Row(s, st)]
    /\ torn' = torn \cup {u}

(***************************************************************************)
(* The process dies: handlers are gone.  It may have been between two      *)
(* commits: an event just recorded, or a row just written for one.         *)
(***************************************************************************)
Crash ==
    /\ "crash" \in faults
    /\ handlers' = {}
    /\ \/ UNCHANGED <<recorded, row, torn>>
       \/ /\ \E n \in DOMAIN log : Due(n) /\ recorded' = recorded \cup {n}
          /\ UNCHANGED <<row, torn>>
       \/ \E n \in DOMAIN log :
             /\ Fresh(n, "subscription")
             /\ recorded' = recorded \cup {n}
             /\ \E u \in Knows(customer[log[n].sub]) : Tear(u, log[n].sub, log[n].st)
       \/ /\ \E h \in handlers : h.snap # None /\ Tear(owner[h.sub], h.sub, h.snap)
          /\ UNCHANGED recorded
    /\ UNCHANGED <<stripeVars, acked, plan, visited, times>>

Webhook(n) == Redelivered(n) \/ WebhookCheckout(n) \/ WebhookSubscription(n)

BillNext ==
    /\ \/ \E s \in Subs : Pay(s) \/ Change(s) \/ VisitPage(s) \/ \E u \in Users : OpenCheckout(u, s)
       \/ \E n \in DOMAIN log : Webhook(n)
       \/ \E h \in handlers : Answer(h) \/ Finish(h) \/ Fail(h)
       \/ Crash
    /\ UNCHANGED faults

BillSpec == BillInit /\ [][BillNext]_billVars

-----------------------------------------------------------------------------
(* Every variable has its type, and no two rows share a customer. *)
BillTypeOK ==
    /\ stat \in [Subs -> Statuses]
    /\ owner \in [Subs -> Users \cup {None}]
    /\ customer \in [Subs -> Subs \cup {None}]
    /\ paid \subseteq Subs /\ visited \subseteq Subs /\ torn \subseteq Users
    /\ \A n \in DOMAIN log : log[n].sub \in Subs /\ stat[log[n].sub] # "none"
    /\ acked \subseteq recorded /\ recorded \subseteq DOMAIN log
    /\ plan \in [Users -> {"free", "pro"}]
    /\ \A h \in handlers : h.n \in DOMAIN log \cup {0} /\ owner[h.sub] \in Users
    /\ \A c \in Subs : Cardinality(Knows(c)) <= 1

(***************************************************************************)
(* A redelivered event is applied at most once, even if it comes while the *)
(* first delivery is suspended, or after a crash (billing.py:17, store.py  *)
(* record_event).                                                          *)
(***************************************************************************)
AppliedOnce == \A n \in DOMAIN times : times[n] <= 1

(***************************************************************************)
(* Pro is paid for: whoever is Pro has a row, of a subscription of their   *)
(* own, that has been paid for -- whatever the order of events, answers    *)
(* and pages (billing.py:166-203).  A crash between the two commits of     *)
(* ApplySubscription leaves the row of a later subscription beside the     *)
(* plan of an earlier one; even then one of theirs has been paid for.      *)
(***************************************************************************)
ProIsPaid ==
    \A u \in Users : plan[u] = "pro" =>
        /\ row[u] # None /\ owner[row[u].sub] = u
        /\ \E s \in paid : owner[s] = u /\ (u \in torn \/ s = row[u].sub)

Reported(s, st) == \E n \in DOMAIN log : log[n] = Event("subscription", s, st)

(***************************************************************************)
(* A row shows what Stripe has once said of that very subscription, never  *)
(* a status of another or a mix of two, and "the plan is derived from      *)
(* status" (store.py:234): in any order of events, answers and pages, only *)
(* a row that a crash has torn from its plan differs from it.              *)
(***************************************************************************)
RowIsReported ==
    \A u \in Users :
        /\ row[u] = None => plan[u] = "free"
        /\ row[u] # None => Reported(row[u].sub, row[u].status)
        /\ row[u] # None /\ u \notin torn => plan[u] = PlanFor(row[u].status)

InHand(n) == \E h \in handlers : h.n = n

PaidCheckout(n) == log[n].kind = "checkout" /\ log[n].st = "active"

(***************************************************************************)
(* "Every event id is recorded so a redelivered event is applied once"     *)
(* (billing.py:17): a paid checkout that Stripe will not deliver again has *)
(* been applied to its user, or is being applied.                          *)
(***************************************************************************)
AcknowledgedIsApplied == \A n \in acked : PaidCheckout(n) => times[n] = 1 \/ InHand(n)

(***************************************************************************)
(* The same, as long as no question to Stripe fails and no process dies: a *)
(* paid checkout delivered out of order, delivered again while its handler *)
(* is suspended, or met by the success page is not lost.  It is this event *)
(* alone that makes the customer known; those of a subscription may be     *)
(* dropped (see OrderlyIsApplied and PlansAgree).                          *)
(***************************************************************************)
PaidIsApplied == faults \cap {"stripe_error", "crash"} = {} => AcknowledgedIsApplied

(***************************************************************************)
(* Without faults apply_event drops no event but the one that announces a  *)
(* subscription before the checkout that makes its customer known: every   *)
(* acknowledged event has been applied, or the checkout of its own         *)
(* subscription comes after it (billing.py:215-224).                       *)
(***************************************************************************)
OrderlyIsApplied ==
    faults = {} => \A n \in acked :
        times[n] = 1 \/ \E m \in n + 1 .. Len(log) : PaidCheckout(m) /\ log[m].sub = log[n].sub

Quiet == acked = DOMAIN log /\ handlers = {}

(***************************************************************************)
(* "The user's plan follows the subscription status" (README.md:84): once  *)
(* every event is acknowledged and no handler is left, a user is Pro       *)
(* exactly when one of their subscriptions is.  The code loses this in     *)
(* several ways: a cancellation that comes while the checkout's handler    *)
(* has its answer in hand is dropped, as of an unknown customer, and the   *)
(* stale answer applied after it; an older event that comes late overrides *)
(* a newer one; a payment that completes after its checkout is dropped.    *)
(***************************************************************************)
PlansAgree ==
    Quiet => \A u \in Users :
        plan[u] = "pro" <=> \E s \in Subs : owner[s] = u /\ PlanFor(stat[s]) = "pro"

(***************************************************************************)
(* With orderly delivery and no other fault the plans do agree: the event  *)
(* dropped before its customer is known is made good by the checkout's     *)
(* answer, later events find the customer, and the last word stands.       *)
(***************************************************************************)
PlanFollows == faults = {} => PlansAgree
=============================================================================
