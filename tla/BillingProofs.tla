--------------------------- MODULE BillingProofs ---------------------------
(***************************************************************************)
(* Theorems about billing, for all users, checkouts, faults and bounds on  *)
(* events.  BillInv is their common inductive invariant: a part on what    *)
(* Stripe keeps, one on rows and plans, one on the suspended handlers, and *)
(* one on the effects of events.                                           *)
(***************************************************************************)
EXTENDS Billing, FiniteSetTheorems, TLAPS

EventRecord == [kind : {"subscription", "checkout"}, sub : Subs, st : Statuses]
RowRecord   == [customer : Subs, sub : Subs, status : Statuses]
Handler     == [n : Nat, sub : Subs, snap : Statuses \cup {None}]

(* A checkout that was opened is of a user, and so is its customer. *)
StripeInv ==
    /\ faults \in DOMAIN MaxEvents
    /\ stat \in [Subs -> Statuses]
    /\ owner \in [Subs -> Users \cup {None}]
    /\ customer \in [Subs -> Subs \cup {None}]
    /\ paid \subseteq Subs /\ \A s \in paid : stat[s] # "none"
    /\ \A s \in Subs : stat[s] # "none" =>
          /\ owner[s] \in Users /\ customer[s] \in Subs
          /\ stat[customer[s]] # "none" /\ owner[customer[s]] = owner[s]
    /\ \A s \in Subs : stat[s] = "none" => owner[s] = None
    /\ \A s \in Subs : stat[s] = "active" => s \in paid

(* The events tell of opened checkouts, and none is Pro that was not paid. *)
LogInv ==
    /\ log \in Seq(EventRecord)
    /\ Len(log) <= MaxEvents[faults]
    /\ \A n \in 1 .. Len(log) :
          /\ stat[log[n].sub] # "none"
          /\ log[n].st = "active" => log[n].sub \in paid

(* A row is of its user's subscription and of that subscription's customer. *)
RowsInv ==
    /\ row \in [Users -> RowRecord \cup {None}]
    /\ plan \in [Users -> {"free", "pro"}]
    /\ torn \subseteq Users
    /\ \A u \in Users : row[u] # None =>
          /\ stat[row[u].sub] # "none" /\ owner[row[u].sub] = u
          /\ row[u].customer = customer[row[u].sub]
    /\ ProIsPaid

(* No two handlers are at work on one event. *)
HandlersInv ==
    /\ handlers \subseteq Handler
    /\ visited \subseteq Subs
    /\ \A h \in handlers :
          /\ h.n = 0 \/ h.n \in recorded
          /\ stat[h.sub] # "none"
          /\ h.snap = "active" => h.sub \in paid
    /\ \A g, h \in handlers : g.n = h.n /\ g.n # 0 => g = h

(* An event is applied once: not before it is recorded, and not while a    *)
(* handler is at work on it.  A paid checkout is, unless something fails.  *)
EffectsInv ==
    /\ acked \subseteq recorded
    /\ recorded \subseteq 1 .. Len(log)
    /\ times \in [1 .. MaxEvents[faults] -> Nat]
    /\ \A n \in 1 .. MaxEvents[faults] : times[n] <= 1
    /\ \A n \in 1 .. MaxEvents[faults] : n \notin recorded => times[n] = 0
    /\ \A h \in handlers : h.n # 0 => times[h.n] = 0
    /\ faults \cap {"stripe_error", "crash"} = {} =>
          \A n \in recorded : PaidCheckout(n) => times[n] = 1 \/ InHand(n)

BillInv == StripeInv /\ LogInv /\ RowsInv /\ HandlersInv /\ EffectsInv

LEMMA BillStart == BillInit => BillInv
<1> SUFFICES ASSUME BillInit PROVE BillInv
    OBVIOUS
<1>1. MaxEvents[faults] \in Nat /\ faults \in DOMAIN MaxEvents
    BY BillingAssumption DEF BillInit
<1>2. StripeInv
    BY <1>1 DEF BillInit, StripeInv, Statuses
<1>3. LogInv
    BY <1>1 DEF BillInit, LogInv
<1>4. RowsInv
    BY DEF BillInit, RowsInv, ProIsPaid
<1>5. HandlersInv
    BY DEF BillInit, HandlersInv
<1>6. EffectsInv
    BY <1>1 DEF BillInit, EffectsInv
<1> QED BY <1>2, <1>3, <1>4, <1>5, <1>6 DEF BillInv

-----------------------------------------------------------------------------
(* Stripe's steps: what it keeps only grows. *)

StripeGrows ==
    /\ faults' = faults
    /\ \A s \in Subs : stat[s] # "none" =>
          stat'[s] # "none" /\ owner'[s] = owner[s] /\ customer'[s] = customer[s]
    /\ paid \subseteq paid'
    /\ Len(log) <= Len(log')
    /\ \A n \in 1 .. Len(log) : log'[n] = log[n]

LEMMA EmitLog ==
    ASSUME StripeInv, LogInv, NEW es \in Seq(EventRecord), Emit(es), faults' = faults,
           \A s \in Subs : stat[s] # "none" => stat'[s] # "none",
           paid \subseteq paid',
           \A i \in 1 .. Len(es) :
              stat'[es[i].sub] # "none" /\ (es[i].st = "active" => es[i].sub \in paid')
    PROVE  LogInv' /\ Len(log) <= Len(log') /\ \A n \in 1 .. Len(log) : log'[n] = log[n]
<1>1. log' = log \o es /\ Len(log) + Len(es) <= MaxEvents[faults]
    BY DEF Emit
<1>2. log \in Seq(EventRecord) /\ Len(log) \in Nat /\ Len(es) \in Nat
    BY DEF LogInv
<1>3. log' \in Seq(EventRecord) /\ Len(log') = Len(log) + Len(es)
      /\ \A n \in 1 .. Len(log') : log'[n] = IF n <= Len(log) THEN log[n] ELSE es[n - Len(log)]
    BY <1>1, <1>2
<1>4. ASSUME NEW n \in 1 .. Len(log')
      PROVE  stat'[log'[n].sub] # "none" /\ (log'[n].st = "active" => log'[n].sub \in paid')
    <2>1. CASE n <= Len(log)
        <3>1. log'[n] = log[n] /\ n \in 1 .. Len(log)
            BY <1>2, <1>3, <2>1
        <3>2. log[n] \in EventRecord
            BY <1>2, <3>1
        <3>3. log[n].sub \in Subs
            BY <3>2 DEF EventRecord
        <3> QED BY <3>1, <3>3 DEF LogInv
    <2>2. CASE ~ (n <= Len(log))
        <3>1. log'[n] = es[n - Len(log)] /\ n - Len(log) \in 1 .. Len(es)
            BY <1>2, <1>3, <2>2
        <3> QED BY <3>1
    <2> QED BY <2>1, <2>2
<1>5. Len(log') <= MaxEvents[faults']
    BY <1>1, <1>3
<1>6. Len(log) <= Len(log') /\ \A n \in 1 .. Len(log) : log'[n] = log[n]
    BY <1>2, <1>3
<1> QED BY <1>3, <1>4, <1>5, <1>6 DEF LogInv

LEMMA EventType ==
    ASSUME NEW kind \in {"subscription", "checkout"}, NEW s \in Subs, NEW st \in Statuses
    PROVE  Event(kind, s, st) \in EventRecord /\ Event(kind, s, st).sub = s
           /\ Event(kind, s, st).st = st
BY DEF Event, EventRecord

LEMMA StripeAside ==
    ASSUME BillInv, StripeInv', LogInv', StripeGrows,
           UNCHANGED <<acked, recorded, row, plan, handlers, visited, times, torn>>
    PROVE  BillInv'
<1>1. StripeInv /\ LogInv /\ RowsInv /\ HandlersInv /\ EffectsInv
    BY DEF BillInv
<1>2. Len(log) \in Nat /\ Len(log') \in Nat
    BY <1>1 DEF LogInv
<1>3. RowsInv'
    <2>1. /\ row' \in [Users -> RowRecord \cup {None}]
          /\ plan' \in [Users -> {"free", "pro"}] /\ torn' \subseteq Users
        BY <1>1 DEF RowsInv
    <2>2. ASSUME NEW u \in Users, row[u] # None
          PROVE  /\ row[u].sub \in Subs
                 /\ stat'[row[u].sub] # "none" /\ owner'[row[u].sub] = u
                 /\ row[u].customer = customer'[row[u].sub]
        <3>1. row[u] \in RowRecord
            BY <1>1, <2>2 DEF RowsInv
        <3>2. row[u].sub \in Subs
            BY <3>1 DEF RowRecord
        <3> QED BY <1>1, <2>2, <3>2 DEF RowsInv, StripeGrows
    <2>3. ProIsPaid'
        <3> SUFFICES ASSUME NEW u \in Users, plan[u] = "pro"
                     PROVE  /\ row[u] # None /\ owner'[row[u].sub] = u
                            /\ \E s \in paid' : owner'[s] = u /\ (u \in torn \/ s = row[u].sub)
            BY DEF ProIsPaid
        <3>1. row[u] # None
            BY <1>1 DEF RowsInv, ProIsPaid
        <3>2. PICK s \in paid : owner[s] = u /\ (u \in torn \/ s = row[u].sub)
            BY <1>1 DEF RowsInv, ProIsPaid
        <3>3. s \in Subs /\ owner[s] # None
            BY <1>1, <3>2, BillingAssumption DEF StripeInv
        <3>4. s \in paid'
            BY <3>2 DEF StripeGrows
        <3>5. owner'[s] = u
            <4>1. stat[s] # "none"
                BY <1>1, <3>2, <3>3 DEF StripeInv
            <4> QED BY <3>2, <3>3, <4>1 DEF StripeGrows
        <3> QED BY <2>2, <3>1, <3>2, <3>4, <3>5
    <2> QED BY <2>1, <2>2, <2>3 DEF RowsInv
<1>4. HandlersInv'
    <2>1. \A h \in handlers : h.sub \in Subs
        BY <1>1 DEF HandlersInv, Handler
    <2> QED BY <1>1, <2>1 DEF HandlersInv, StripeGrows
<1>5. EffectsInv'
    <2>1. faults' = faults /\ recorded \subseteq 1 .. Len(log) /\ Len(log) <= Len(log')
        BY <1>1 DEF EffectsInv, StripeGrows
    <2>2. \A n \in recorded : (PaidCheckout(n)' <=> PaidCheckout(n)) /\ (InHand(n)' <=> InHand(n))
        BY <2>1 DEF StripeGrows, PaidCheckout, InHand
    <2> QED BY <1>1, <1>2, <2>1, <2>2 DEF EffectsInv
<1> QED BY <1>3, <1>4, <1>5 DEF BillInv

LEMMA OpenCheckoutInv ==
    ASSUME BillInv, NEW u \in Users, NEW s \in Subs, OpenCheckout(u, s), faults' = faults
    PROVE  BillInv'
<1>1. StripeInv /\ LogInv /\ RowsInv
    BY DEF BillInv
<1> DEFINE known == IF row[u] = None THEN None ELSE row[u].customer
           c == IF known = None THEN s ELSE known
<1>2. /\ stat[s] = "none"
      /\ stat' = [stat EXCEPT ![s] = "open"]
      /\ owner' = [owner EXCEPT ![s] = u]
      /\ customer' = [customer EXCEPT ![s] = c]
      /\ UNCHANGED <<paid, log, acked, recorded, row, plan, handlers, visited, times, torn>>
    BY DEF OpenCheckout, CreateCheckout
<1>3. None \notin Users /\ None \notin Subs
    BY BillingAssumption
<1>4. c = s \/ (c \in Subs /\ stat[c] # "none" /\ owner[c] = u)
    <2>1. CASE row[u] = None
        BY <2>1
    <2>2. CASE row[u] # None
        <3>1. row[u] \in RowRecord
            BY <1>1, <2>2 DEF RowsInv
        <3>2. row[u].sub \in Subs /\ row[u].customer \in Subs
            BY <3>1 DEF RowRecord
        <3>3. /\ stat[row[u].sub] # "none" /\ owner[row[u].sub] = u
              /\ row[u].customer = customer[row[u].sub]
            BY <1>1, <2>2 DEF RowsInv
        <3>4. stat[row[u].customer] # "none" /\ owner[row[u].customer] = u
            BY <1>1, <3>2, <3>3 DEF StripeInv
        <3> QED BY <1>3, <2>2, <3>2, <3>4
    <2> QED BY <2>1, <2>2
<1> HIDE DEF known, c
<1>5. /\ stat' \in [Subs -> Statuses] /\ owner' \in [Subs -> Users \cup {None}]
      /\ customer' \in [Subs -> Subs \cup {None}]
      /\ stat'[s] = "open" /\ owner'[s] = u /\ customer'[s] = c
      /\ \A t \in Subs : t # s =>
            stat'[t] = stat[t] /\ owner'[t] = owner[t] /\ customer'[t] = customer[t]
    BY <1>1, <1>2, <1>4 DEF StripeInv, Statuses
<1>6. \A t \in Subs : stat'[t] # "none" =>
          /\ owner'[t] \in Users /\ customer'[t] \in Subs
          /\ stat'[customer'[t]] # "none" /\ owner'[customer'[t]] = owner'[t]
    <2>1. ASSUME NEW t \in Subs, t # s, stat'[t] # "none"
          PROVE  /\ owner'[t] \in Users /\ customer'[t] \in Subs
                 /\ stat'[customer'[t]] # "none" /\ owner'[customer'[t]] = owner'[t]
        <3>1. /\ owner[t] \in Users /\ customer[t] \in Subs
              /\ stat[customer[t]] # "none" /\ owner[customer[t]] = owner[t]
            BY <1>1, <1>5, <2>1 DEF StripeInv
        <3>2. customer[t] # s
            BY <1>2, <3>1
        <3> QED BY <1>5, <2>1, <3>1, <3>2
    <2>2. /\ customer'[s] \in Subs /\ stat'[customer'[s]] # "none" /\ owner'[customer'[s]] = u
        BY <1>2, <1>4, <1>5
    <2> QED BY <1>5, <2>1, <2>2
<1>7. /\ \A t \in Subs : stat'[t] = "none" => owner'[t] = None
      /\ \A t \in Subs : stat'[t] = "active" => t \in paid'
    BY <1>1, <1>2, <1>5 DEF StripeInv
<1>8. StripeInv'
    BY <1>1, <1>2, <1>5, <1>6, <1>7 DEF StripeInv
<1>9. StripeGrows
    BY <1>1, <1>2, <1>5 DEF StripeGrows, LogInv
<1>10. LogInv'
    <2>1. \A n \in 1 .. Len(log) : log[n].sub \in Subs
        <3>1. \A n \in 1 .. Len(log) : log[n] \in EventRecord
            BY <1>1 DEF LogInv
        <3> QED BY <3>1 DEF EventRecord
    <2> QED BY <1>1, <1>2, <1>9, <2>1 DEF LogInv, StripeGrows
<1> QED BY <1>2, <1>8, <1>9, <1>10, StripeAside

(* A change of one opened checkout to a status that is no longer "none". *)
LEMMA StatusChange ==
    ASSUME BillInv, NEW s \in Subs, stat[s] # "none",
           NEW st \in Statuses \ {"none"}, stat' = [stat EXCEPT ![s] = st],
           paid' = IF st = "active" THEN paid \cup {s} ELSE paid,
           UNCHANGED <<faults, owner, customer>>
    PROVE  /\ StripeInv' /\ paid \subseteq paid'
           /\ \A t \in Subs : stat[t] # "none" => stat'[t] # "none"
           /\ stat'[s] # "none" /\ (st = "active" => s \in paid')
<1>1. StripeInv
    BY DEF BillInv
<1>2. /\ stat' \in [Subs -> Statuses] /\ stat'[s] = st
      /\ \A t \in Subs : t # s => stat'[t] = stat[t]
    BY <1>1 DEF StripeInv
<1>3. paid \subseteq paid' /\ paid' \subseteq Subs /\ (st = "active" => s \in paid')
    BY <1>1 DEF StripeInv
<1>4. \A t \in Subs : stat[t] # "none" <=> stat'[t] # "none"
    BY <1>2
<1>5. \A t \in Subs : stat'[t] = "active" => t \in paid'
    BY <1>1, <1>2, <1>3 DEF StripeInv
<1>6. StripeInv'
    BY <1>1, <1>2, <1>3, <1>4, <1>5 DEF StripeInv
<1> QED BY <1>2, <1>3, <1>4, <1>6

LEMMA PayInv ==
    ASSUME BillInv, NEW s \in Subs, Pay(s), faults' = faults
    PROVE  BillInv'
<1>1. PICK st \in {"active", "incomplete"} :
          /\ stat' = [stat EXCEPT ![s] = st]
          /\ paid' = IF st = "active" THEN paid \cup {s} ELSE paid
          /\ Emit(<<Event("subscription", s, st), Event("checkout", s, st)>>)
    BY DEF Pay
<1>2. /\ stat[s] = "open"
      /\ UNCHANGED <<owner, customer, acked, recorded, row, plan, handlers, visited, times, torn>>
    BY DEF Pay
<1> DEFINE d == Event("subscription", s, st)
           e == Event("checkout", s, st)
<1>3. st \in Statuses \ {"none"} /\ st \in Statuses
    BY DEF Statuses
<1>4. /\ StripeInv' /\ paid \subseteq paid'
      /\ \A t \in Subs : stat[t] # "none" => stat'[t] # "none"
      /\ stat'[s] # "none" /\ (st = "active" => s \in paid')
    BY <1>1, <1>2, <1>3, StatusChange
<1>5. d \in EventRecord /\ e \in EventRecord /\ d.sub = s /\ e.sub = s /\ d.st = st /\ e.st = st
    BY <1>3, EventType
<1> HIDE DEF d, e
<1>6. Emit(<<d, e>>)
    BY <1>1 DEF d, e
<1>7. LogInv' /\ Len(log) <= Len(log') /\ \A n \in 1 .. Len(log) : log'[n] = log[n]
    <2>1. <<d, e>> \in Seq(EventRecord) /\ Len(<<d, e>>) = 2
        BY <1>5
    <2>2. \A i \in 1 .. Len(<<d, e>>) :
              /\ stat'[<<d, e>>[i].sub] # "none"
              /\ <<d, e>>[i].st = "active" => <<d, e>>[i].sub \in paid'
        BY <1>4, <1>5, <2>1
    <2> QED BY <1>4, <1>6, <2>1, <2>2, EmitLog DEF BillInv
<1>8. StripeGrows
    BY <1>2, <1>4, <1>7 DEF StripeGrows
<1> QED BY <1>2, <1>4, <1>7, <1>8, StripeAside

LEMMA ChangeInv ==
    ASSUME BillInv, NEW s \in Subs, Change(s), faults' = faults
    PROVE  BillInv'
<1>1. PICK st \in {"active", "unpaid", "canceled"} :
          /\ stat' = [stat EXCEPT ![s] = st]
          /\ paid' = IF st = "active" THEN paid \cup {s} ELSE paid
          /\ Emit(<<Event("subscription", s, st)>>)
    BY DEF Change
<1>2. /\ stat[s] # "none"
      /\ UNCHANGED <<owner, customer, acked, recorded, row, plan, handlers, visited, times, torn>>
    BY DEF Change, Live
<1> DEFINE d == Event("subscription", s, st)
<1>3. st \in Statuses \ {"none"} /\ st \in Statuses
    BY DEF Statuses
<1>4. /\ StripeInv' /\ paid \subseteq paid'
      /\ \A t \in Subs : stat[t] # "none" => stat'[t] # "none"
      /\ stat'[s] # "none" /\ (st = "active" => s \in paid')
    BY <1>1, <1>2, <1>3, StatusChange
<1>5. d \in EventRecord /\ d.sub = s /\ d.st = st
    BY <1>3, EventType
<1> HIDE DEF d
<1>6. Emit(<<d>>)
    BY <1>1 DEF d
<1>7. LogInv' /\ Len(log) <= Len(log') /\ \A n \in 1 .. Len(log) : log'[n] = log[n]
    <2>1. <<d>> \in Seq(EventRecord) /\ Len(<<d>>) = 1
        BY <1>5
    <2>2. \A i \in 1 .. Len(<<d>>) :
              stat'[<<d>>[i].sub] # "none" /\ (<<d>>[i].st = "active" => <<d>>[i].sub \in paid')
        BY <1>4, <1>5, <2>1
    <2> QED BY <1>4, <1>6, <2>1, <2>2, EmitLog DEF BillInv
<1>8. StripeGrows
    BY <1>2, <1>4, <1>7 DEF StripeGrows
<1> QED BY <1>2, <1>4, <1>7, <1>8, StripeAside

-----------------------------------------------------------------------------
(* Rows and plans. *)

(* Whoever is known by a checkout's customer opened that checkout. *)
LEMMA KnownOwner ==
    ASSUME StripeInv, RowsInv, NEW s \in Subs, stat[s] # "none", NEW u \in Knows(customer[s])
    PROVE  u \in Users /\ owner[s] = u
<1>1. u \in Users /\ row[u] # None /\ row[u].customer = customer[s]
    BY DEF Knows
<1>2. row[u].sub \in Subs
    <2>1. row[u] \in RowRecord
        BY <1>1 DEF RowsInv
    <2> QED BY <2>1 DEF RowRecord
<1>3. /\ stat[row[u].sub] # "none" /\ owner[row[u].sub] = u
      /\ customer[row[u].sub] = customer[s]
    BY <1>1 DEF RowsInv
<1>4. owner[customer[s]] = u /\ owner[customer[s]] = owner[s]
    BY <1>2, <1>3 DEF StripeInv
<1> QED BY <1>1, <1>4

(* The row of u is written for a checkout of theirs; the plan follows it, *)
(* unless a crash comes between.                                          *)
LEMMA RowWritten ==
    ASSUME StripeInv, RowsInv, UNCHANGED stripeVars,
           NEW s \in Subs, NEW u \in Users, NEW st \in Statuses,
           stat[s] # "none", owner[s] = u, st = "active" => s \in paid,
           ApplySubscription(u, s, st) \/ (Tear(u, s, st) /\ UNCHANGED plan)
    PROVE  RowsInv'
<1> DEFINE v == Row(s, st)
<1>1. customer[s] \in Subs
    BY DEF StripeInv
<1>2. v \in RowRecord /\ v.sub = s /\ v.customer = customer[s]
    BY <1>1 DEF Row, RowRecord
<1>3. v # None
    BY <1>2, BillingAssumption DEF RowRecord
<1>4. row' = [row EXCEPT ![u] = v]
    BY DEF ApplySubscription, Tear
<1> HIDE DEF v
<1>5. row' \in [Users -> RowRecord \cup {None}] /\ row'[u] = v
      /\ \A w \in Users : w # u => row'[w] = row[w]
    BY <1>2, <1>4 DEF RowsInv
<1>6. UNCHANGED <<stat, owner, customer, paid>>
    BY DEF stripeVars
<1>7. /\ plan' \in [Users -> {"free", "pro"}] /\ torn' \subseteq Users
      /\ \A w \in Users : w # u => plan'[w] = plan[w] /\ (w \in torn <=> w \in torn')
      /\ \/ plan'[u] = "pro" => st = "active"
         \/ plan'[u] = plan[u] /\ u \in torn'
    <2>1. CASE ApplySubscription(u, s, st)
        <3>1. plan' = [plan EXCEPT ![u] = PlanFor(st)] /\ torn' = torn \ {u}
            BY <2>1 DEF ApplySubscription
        <3>2. PlanFor(st) \in {"free", "pro"} /\ (PlanFor(st) = "pro" => st = "active")
            BY DEF PlanFor
        <3> QED BY <3>1, <3>2 DEF RowsInv
    <2>2. CASE Tear(u, s, st) /\ UNCHANGED plan
        BY <2>2 DEF Tear, RowsInv
    <2> QED BY <2>1, <2>2
<1>8. \A w \in Users : row'[w] # None =>
          /\ stat'[row'[w].sub] # "none" /\ owner'[row'[w].sub] = w
          /\ row'[w].customer = customer'[row'[w].sub]
    BY <1>2, <1>5, <1>6 DEF RowsInv
<1>9. ProIsPaid'
    <2> SUFFICES ASSUME NEW w \in Users, plan'[w] = "pro"
                 PROVE  /\ row'[w] # None /\ owner'[row'[w].sub] = w
                        /\ \E t \in paid' : owner'[t] = w /\ (w \in torn' \/ t = row'[w].sub)
        BY DEF ProIsPaid
    <2>1. CASE w # u
        BY <1>5, <1>6, <1>7, <2>1 DEF RowsInv, ProIsPaid
    <2>2. CASE w = u
        <3>1. row'[u] # None /\ row'[u].sub = s /\ owner'[s] = u
            BY <1>2, <1>3, <1>5, <1>6
        <3>2. CASE plan'[u] = "pro" => st = "active"
            <4>1. plan'[u] = "pro"
                BY <2>2
            <4>2. s \in paid'
                BY <1>6, <3>2, <4>1
            <4> QED BY <2>2, <3>1, <4>2
        <3>3. CASE plan'[u] = plan[u] /\ u \in torn'
            <4>1. \E t \in paid : owner[t] = u
                BY <2>2, <3>3 DEF RowsInv, ProIsPaid
            <4> QED BY <1>6, <2>2, <3>1, <3>3, <4>1
        <3> QED BY <1>7, <3>2, <3>3
    <2> QED BY <2>1, <2>2
<1> QED BY <1>5, <1>7, <1>8, <1>9 DEF RowsInv

LEMMA RowsSame ==
    ASSUME RowsInv, UNCHANGED <<stripeVars, row, plan, torn>>
    PROVE  RowsInv'
BY DEF RowsInv, ProIsPaid, stripeVars

-----------------------------------------------------------------------------
(* The gateway's steps: Stripe's side stays as it is. *)

LEMMA StripeSame ==
    ASSUME BillInv, UNCHANGED stripeVars, faults' = faults
    PROVE  StripeInv' /\ LogInv'
BY DEF BillInv, StripeInv, LogInv, stripeVars

(* What an event in the log is about. *)
LEMMA LogFacts ==
    ASSUME BillInv, NEW n \in DOMAIN log
    PROVE  /\ n \in 1 .. Len(log) /\ n \in 1 .. MaxEvents[faults] /\ n \in Nat /\ n # 0
           /\ log[n].sub \in Subs /\ log[n].st \in Statuses
           /\ stat[log[n].sub] # "none"
           /\ log[n].st = "active" => log[n].sub \in paid
<1>1. LogInv /\ faults \in DOMAIN MaxEvents
    BY DEF BillInv, StripeInv
<1>2. MaxEvents[faults] \in Nat
    BY <1>1, BillingAssumption
<1>3. n \in 1 .. Len(log) /\ log[n] \in EventRecord /\ Len(log) <= MaxEvents[faults]
      /\ Len(log) \in Nat
    BY <1>1 DEF LogInv
<1>4. log[n].sub \in Subs /\ log[n].st \in Statuses
    BY <1>3 DEF EventRecord
<1>5. n \in 1 .. MaxEvents[faults] /\ n \in Nat /\ n # 0
    BY <1>2, <1>3
<1> QED BY <1>1, <1>3, <1>4, <1>5 DEF LogInv

LEMMA TookOnce ==
    ASSUME BillInv, NEW n \in DOMAIN log, times[n] = 0, Took(n)
    PROVE  /\ times' \in [1 .. MaxEvents[faults] -> Nat]
           /\ times'[n] = 1
           /\ \A m \in 1 .. MaxEvents[faults] : m # n => times'[m] = times[m]
<1>1. times \in [1 .. MaxEvents[faults] -> Nat] /\ n \in 1 .. MaxEvents[faults]
    BY LogFacts DEF BillInv, EffectsInv
<1>2. times' = [times EXCEPT ![n] = @ + 1]
    BY DEF Took
<1> QED BY <1>1, <1>2

(* A handler begins: on an event that was not recorded, or on none. *)
LEMMA HandlerBegins ==
    ASSUME BillInv, UNCHANGED stripeVars, faults' = faults,
           NEW h \in Handler, handlers' = handlers \cup {h},
           h.n = 0 \/ (h.n \in DOMAIN log /\ h.n \notin recorded),
           stat[h.sub] # "none", h.snap = None,
           recorded' = recorded \cup ({h.n} \ {0}),
           visited' \subseteq Subs, UNCHANGED <<acked, row, plan, times, torn>>
    PROVE  BillInv'
<1>1. StripeInv' /\ LogInv' /\ RowsInv'
    BY StripeSame, RowsSame DEF BillInv
<1>2. HandlersInv /\ EffectsInv /\ UNCHANGED <<stat, owner, customer, paid, log>>
    BY DEF BillInv, stripeVars
<1>3. h.snap # "active" /\ h.n \notin recorded \ {0}
    BY BillingAssumption DEF Statuses
<1>4. \A g \in handlers : g.n # 0 => g.n \in recorded
    BY <1>2 DEF HandlersInv
<1>5. HandlersInv'
    <2>1. handlers' \subseteq Handler
        BY <1>2 DEF HandlersInv
    <2>2. \A g \in handlers' :
              /\ g.n = 0 \/ g.n \in recorded'
              /\ stat'[g.sub] # "none"
              /\ g.snap = "active" => g.sub \in paid'
        BY <1>2, <1>3 DEF HandlersInv
    <2>3. \A f, g \in handlers' : f.n = g.n /\ f.n # 0 => f = g
        BY <1>2, <1>3, <1>4 DEF HandlersInv
    <2> QED BY <2>1, <2>2, <2>3 DEF HandlersInv
<1>6. EffectsInv'
    <2>1. \A g \in handlers' : g.n # 0 => times[g.n] = 0
        <3>1. h.n # 0 => times[h.n] = 0
            BY <1>2, LogFacts DEF EffectsInv
        <3> QED BY <1>2, <3>1 DEF EffectsInv
    <2>2. acked' \subseteq recorded' /\ recorded' \subseteq 1 .. Len(log')
        BY <1>2, LogFacts DEF EffectsInv
    <2>3. \A n \in 1 .. MaxEvents[faults] : n \notin recorded' => times[n] = 0
        BY <1>2 DEF EffectsInv
    <2>4. faults \cap {"stripe_error", "crash"} = {} =>
              \A n \in recorded' : PaidCheckout(n)' => times[n] = 1 \/ InHand(n)'
        BY <1>2 DEF EffectsInv, PaidCheckout, InHand
    <2> QED BY <1>2, <2>1, <2>2, <2>3, <2>4 DEF EffectsInv
<1> QED BY <1>1, <1>5, <1>6 DEF BillInv

(* An event is applied at once, with no question to Stripe. *)
LEMMA AppliedAtOnce ==
    ASSUME BillInv, UNCHANGED stripeVars, faults' = faults, RowsInv',
           NEW n \in DOMAIN log, n \notin recorded, Took(n),
           recorded' = recorded \cup {n}, acked' = acked \cup {n},
           UNCHANGED <<handlers, visited>>
    PROVE  BillInv'
<1>1. StripeInv' /\ LogInv'
    BY StripeSame
<1>2. HandlersInv /\ EffectsInv /\ UNCHANGED <<stat, owner, customer, paid, log>>
    BY DEF BillInv, stripeVars
<1>3. n \in 1 .. Len(log) /\ n \in 1 .. MaxEvents[faults] /\ n # 0
    BY LogFacts
<1>4. times[n] = 0
    BY <1>2, <1>3 DEF EffectsInv
<1>5. /\ times' \in [1 .. MaxEvents[faults] -> Nat] /\ times'[n] = 1
      /\ \A m \in 1 .. MaxEvents[faults] : m # n => times'[m] = times[m]
    BY <1>4, TookOnce
<1>6. HandlersInv'
    BY <1>2 DEF HandlersInv
<1>7. EffectsInv'
    <2>1. acked' \subseteq recorded' /\ recorded' \subseteq 1 .. Len(log')
        BY <1>2, <1>3 DEF EffectsInv
    <2>2. \A m \in 1 .. MaxEvents[faults] : times'[m] <= 1
        BY <1>2, <1>5 DEF EffectsInv
    <2>3. \A m \in 1 .. MaxEvents[faults] : m \notin recorded' => times'[m] = 0
        BY <1>2, <1>5 DEF EffectsInv
    <2>4. recorded \subseteq 1 .. MaxEvents[faults]
        BY <1>2, LogFacts DEF EffectsInv, BillInv, LogInv
    <2>5. \A h \in handlers' : h.n # 0 => times'[h.n] = 0
        <3>1. \A h \in handlers : h.n # 0 => h.n \in recorded /\ h.n # n
            BY <1>2 DEF HandlersInv
        <3> QED BY <1>2, <1>5, <2>4, <3>1 DEF EffectsInv
    <2>6. faults \cap {"stripe_error", "crash"} = {} =>
              \A m \in recorded' : PaidCheckout(m)' => times'[m] = 1 \/ InHand(m)'
        BY <1>2, <1>5, <2>4 DEF EffectsInv, PaidCheckout, InHand
    <2> QED BY <1>5, <2>1, <2>2, <2>3, <2>5, <2>6 DEF EffectsInv
<1> QED BY <1>1, <1>6, <1>7 DEF BillInv

(* An event is dropped: one of an unpaid checkout, or of a subscription of *)
(* a customer that no row has.                                             *)
LEMMA DroppedAtOnce ==
    ASSUME BillInv, UNCHANGED stripeVars, faults' = faults, RowsInv',
           NEW n \in DOMAIN log, n \notin recorded, ~PaidCheckout(n),
           recorded' = recorded \cup {n}, acked' = acked \cup {n},
           UNCHANGED <<handlers, visited, times>>
    PROVE  BillInv'
<1>1. StripeInv' /\ LogInv'
    BY StripeSame
<1>2. HandlersInv /\ EffectsInv /\ UNCHANGED <<stat, owner, customer, paid, log>>
    BY DEF BillInv, stripeVars
<1>3. HandlersInv'
    BY <1>2 DEF HandlersInv
<1>4. EffectsInv'
    <2>1. acked' \subseteq recorded' /\ recorded' \subseteq 1 .. Len(log')
        BY <1>2, LogFacts DEF EffectsInv
    <2>2. \A m \in 1 .. MaxEvents[faults] : m \notin recorded' => times[m] = 0
        BY <1>2 DEF EffectsInv
    <2>3. faults \cap {"stripe_error", "crash"} = {} =>
              \A m \in recorded' : PaidCheckout(m)' => times[m] = 1 \/ InHand(m)'
        BY <1>2 DEF EffectsInv, PaidCheckout, InHand
    <2> QED BY <1>2, <2>1, <2>2, <2>3 DEF EffectsInv
<1> QED BY <1>1, <1>3, <1>4 DEF BillInv

LEMMA WebhookInv ==
    ASSUME BillInv, NEW n \in DOMAIN log, Webhook(n), faults' = faults
    PROVE  BillInv'
<1>1. /\ n \in 1 .. Len(log) /\ n \in Nat /\ n # 0
      /\ log[n].sub \in Subs /\ log[n].st \in Statuses
      /\ stat[log[n].sub] # "none"
      /\ log[n].st = "active" => log[n].sub \in paid
    BY LogFacts
<1>2. StripeInv /\ RowsInv /\ HandlersInv /\ EffectsInv
    BY DEF BillInv
<1>3. CASE Redelivered(n)
    <2>1. /\ n \in recorded /\ acked' = acked \cup {n}
          /\ UNCHANGED <<stripeVars, recorded, row, plan, handlers, visited, times, torn>>
        BY <1>3 DEF Redelivered
    <2>2. StripeInv' /\ LogInv' /\ RowsInv'
        BY <1>2, <2>1, StripeSame, RowsSame
    <2>3. HandlersInv'
        BY <1>2, <2>1 DEF HandlersInv, stripeVars
    <2>4. EffectsInv'
        BY <1>2, <2>1 DEF EffectsInv, stripeVars, PaidCheckout, InHand
    <2> QED BY <2>2, <2>3, <2>4 DEF BillInv
<1>4. CASE WebhookCheckout(n)
    <2> DEFINE h == [n |-> n, sub |-> log[n].sub, snap |-> None]
    <2>1. /\ n \notin recorded /\ recorded' = recorded \cup {n}
          /\ UNCHANGED <<stripeVars, row, plan, visited, times, torn>>
          /\ \/ handlers' = handlers \cup {h} /\ UNCHANGED acked
             \/ /\ acked' = acked \cup {n} /\ UNCHANGED handlers
                /\ ~PaidCheckout(n)
        BY <1>4 DEF WebhookCheckout, Fresh, PaidCheckout
    <2>2. h \in Handler /\ h.n = n /\ h.sub = log[n].sub /\ h.snap = None
        BY <1>1 DEF Handler
    <2> HIDE DEF h
    <2>3. RowsInv'
        BY <1>2, <2>1, RowsSame
    <2>4. visited' \subseteq Subs
        BY <1>2, <2>1 DEF HandlersInv
    <2>5. CASE handlers' = handlers \cup {h} /\ UNCHANGED acked
        <3>1. recorded' = recorded \cup ({h.n} \ {0})
            BY <1>1, <2>1, <2>2
        <3> QED BY <1>1, <2>1, <2>2, <2>4, <2>5, <3>1, HandlerBegins
    <2>6. CASE acked' = acked \cup {n} /\ UNCHANGED handlers /\ ~PaidCheckout(n)
        BY <2>1, <2>3, <2>6, DroppedAtOnce
    <2> QED BY <2>1, <2>5, <2>6
<1>5. CASE WebhookSubscription(n)
    <2>1. /\ n \notin recorded /\ recorded' = recorded \cup {n}
          /\ acked' = acked \cup {n}
          /\ UNCHANGED <<stripeVars, handlers, visited>>
        BY <1>5 DEF WebhookSubscription, Fresh
    <2>2. CASE UNCHANGED <<row, plan, times, torn>>
        <3>1. RowsInv'
            BY <1>2, <2>1, <2>2, RowsSame
        <3>2. ~PaidCheckout(n)
            BY <1>5 DEF WebhookSubscription, Fresh, PaidCheckout
        <3> QED BY <2>1, <2>2, <3>1, <3>2, DroppedAtOnce
    <2>3. CASE Took(n) /\ \E u \in Knows(customer[log[n].sub]) :
                              ApplySubscription(u, log[n].sub, log[n].st)
        <3>1. PICK u \in Knows(customer[log[n].sub]) :
                   ApplySubscription(u, log[n].sub, log[n].st)
            BY <2>3
        <3>2. u \in Users /\ owner[log[n].sub] = u
            BY <1>1, <1>2, <3>1, KnownOwner
        <3>3. RowsInv'
            BY <1>1, <1>2, <2>1, <3>1, <3>2, RowWritten
        <3> QED BY <2>1, <2>3, <3>3, AppliedAtOnce
    <2> QED BY <1>5, <2>2, <2>3 DEF WebhookSubscription
<1> QED BY <1>3, <1>4, <1>5 DEF Webhook

LEMMA VisitPageInv ==
    ASSUME BillInv, NEW s \in Subs, VisitPage(s), faults' = faults
    PROVE  BillInv'
<1> DEFINE h == [n |-> 0, sub |-> s, snap |-> None]
<1>1. /\ s \in paid /\ visited' = visited \cup {s} /\ handlers' = handlers \cup {h}
      /\ UNCHANGED <<stripeVars, acked, recorded, row, plan, times, torn>>
    BY DEF VisitPage
<1>2. h \in Handler /\ h.n = 0 /\ h.sub = s /\ h.snap = None
    BY DEF Handler
<1> HIDE DEF h
<1>3. stat[s] # "none"
    BY <1>1 DEF BillInv, StripeInv
<1>4. visited' \subseteq Subs /\ recorded' = recorded \cup ({h.n} \ {0})
    BY <1>1, <1>2 DEF BillInv, HandlersInv
<1> QED BY <1>1, <1>2, <1>3, <1>4, HandlerBegins

(* What a handler at work is about. *)
LEMMA HandlerFacts ==
    ASSUME BillInv, NEW h \in handlers
    PROVE  /\ h \in Handler /\ h.n \in Nat /\ h.sub \in Subs /\ h.snap \in Statuses \cup {None}
           /\ stat[h.sub] # "none" /\ owner[h.sub] \in Users
           /\ h.snap = "active" => h.sub \in paid
           /\ h.n # 0 => h.n \in recorded /\ h.n \in DOMAIN log /\ times[h.n] = 0
<1>1. StripeInv /\ LogInv /\ HandlersInv /\ EffectsInv
    BY DEF BillInv
<1>2. h \in Handler
    BY <1>1 DEF HandlersInv
<1>3. h.n \in Nat /\ h.sub \in Subs /\ h.snap \in Statuses \cup {None}
    BY <1>2 DEF Handler
<1>4. stat[h.sub] # "none" /\ (h.snap = "active" => h.sub \in paid)
    BY <1>1 DEF HandlersInv
<1>5. owner[h.sub] \in Users
    BY <1>1, <1>3, <1>4 DEF StripeInv
<1>6. h.n # 0 => h.n \in recorded /\ times[h.n] = 0
    BY <1>1 DEF HandlersInv, EffectsInv
<1>7. recorded \subseteq DOMAIN log
    BY <1>1 DEF EffectsInv, LogInv
<1> QED BY <1>2, <1>3, <1>4, <1>5, <1>6, <1>7

LEMMA AnswerInv ==
    ASSUME BillInv, NEW h \in handlers, Answer(h), faults' = faults
    PROVE  BillInv'
<1> DEFINE g == [h EXCEPT !.snap = stat[h.sub]]
<1>1. /\ handlers' = (handlers \ {h}) \cup {g}
      /\ UNCHANGED <<stripeVars, acked, recorded, row, plan, visited, times, torn>>
    BY DEF Answer
<1>2. StripeInv /\ HandlersInv /\ EffectsInv /\ UNCHANGED <<stat, owner, customer, paid, log>>
    BY <1>1 DEF BillInv, stripeVars
<1>3. /\ h \in Handler /\ h.n \in Nat /\ h.sub \in Subs /\ stat[h.sub] # "none"
      /\ h.n # 0 => h.n \in recorded /\ times[h.n] = 0
    BY HandlerFacts
<1>4. stat[h.sub] \in Statuses
    BY <1>2, <1>3 DEF StripeInv
<1>5. g \in Handler /\ g.n = h.n /\ g.sub = h.sub /\ g.snap = stat[h.sub]
    BY <1>3, <1>4 DEF Handler
<1> HIDE DEF g
<1>6. StripeInv' /\ LogInv' /\ RowsInv'
    BY <1>1, StripeSame, RowsSame DEF BillInv
<1>7. g.snap = "active" => g.sub \in paid
    BY <1>2, <1>3, <1>5 DEF StripeInv
<1>8. HandlersInv'
    <2>1. handlers' \subseteq Handler /\ visited' \subseteq Subs
        BY <1>1, <1>2, <1>5 DEF HandlersInv
    <2>2. \A f \in handlers' :
              /\ f.n = 0 \/ f.n \in recorded'
              /\ stat'[f.sub] # "none"
              /\ f.snap = "active" => f.sub \in paid'
        BY <1>1, <1>2, <1>3, <1>5, <1>7 DEF HandlersInv
    <2>3. \A e, f \in handlers' : e.n = f.n /\ e.n # 0 => e = f
        BY <1>1, <1>2, <1>5 DEF HandlersInv
    <2> QED BY <2>1, <2>2, <2>3 DEF HandlersInv
<1>9. EffectsInv'
    <2>1. \A f \in handlers' : f.n # 0 => times[f.n] = 0
        BY <1>1, <1>2, <1>3, <1>5 DEF EffectsInv
    <2>2. ASSUME NEW m \in recorded, InHand(m)
          PROVE  InHand(m)'
        <3>1. PICK f \in handlers : f.n = m
            BY <2>2 DEF InHand
        <3>2. CASE f = h
            BY <1>1, <1>5, <3>1, <3>2 DEF InHand
        <3>3. CASE f # h
            BY <1>1, <3>1, <3>3 DEF InHand
        <3> QED BY <3>2, <3>3
    <2> QED BY <1>1, <1>2, <2>1, <2>2 DEF EffectsInv, PaidCheckout
<1> QED BY <1>6, <1>8, <1>9 DEF BillInv

(* Handlers end: all the rest stays as it is, or the failures are on. *)
LEMMA HandlersEnd ==
    ASSUME BillInv, UNCHANGED <<stripeVars, acked, visited, times>>, faults' = faults, RowsInv',
           handlers' \subseteq handlers, recorded \subseteq recorded',
           recorded' \subseteq 1 .. Len(log),
           "stripe_error" \in faults \/ "crash" \in faults
    PROVE  BillInv'
<1>1. StripeInv' /\ LogInv'
    BY StripeSame
<1>2. HandlersInv /\ EffectsInv /\ UNCHANGED <<stat, owner, customer, paid, log>>
    BY DEF BillInv, stripeVars
<1>3. HandlersInv'
    BY <1>2 DEF HandlersInv
<1>4. EffectsInv'
    <2>1. faults \cap {"stripe_error", "crash"} # {}
        OBVIOUS
    <2> QED BY <1>2, <2>1 DEF EffectsInv
<1> QED BY <1>1, <1>3, <1>4 DEF BillInv

LEMMA FinishInv ==
    ASSUME BillInv, NEW h \in handlers, Finish(h), faults' = faults
    PROVE  BillInv'
<1>1. /\ h.snap # None /\ handlers' = handlers \ {h}
      /\ ApplySubscription(owner[h.sub], h.sub, h.snap)
      /\ UNCHANGED <<stripeVars, recorded, visited>>
    BY DEF Finish
<1>2. StripeInv /\ RowsInv /\ HandlersInv /\ EffectsInv
      /\ UNCHANGED <<stat, owner, customer, paid, log>>
    BY <1>1 DEF BillInv, stripeVars
<1>3. /\ h.n \in Nat /\ h.sub \in Subs /\ h.snap \in Statuses
      /\ stat[h.sub] # "none" /\ owner[h.sub] \in Users
      /\ h.snap = "active" => h.sub \in paid
      /\ h.n # 0 => h.n \in recorded /\ h.n \in DOMAIN log /\ times[h.n] = 0
    BY <1>1, HandlerFacts
<1>4. StripeInv' /\ LogInv'
    BY <1>1, StripeSame
<1>5. RowsInv'
    BY <1>1, <1>2, <1>3, RowWritten
<1>6. HandlersInv'
    BY <1>1, <1>2 DEF HandlersInv
<1>7. EffectsInv'
    <2>1. CASE h.n = 0
        <3>1. UNCHANGED <<acked, times>>
            BY <2>1 DEF Finish
        <3>2. ASSUME NEW m \in recorded, InHand(m)
              PROVE  InHand(m)'
            <4>1. m # 0
                BY <1>2 DEF EffectsInv
            <4> QED BY <1>1, <2>1, <3>2, <4>1 DEF InHand
        <3> QED BY <1>1, <1>2, <3>1, <3>2 DEF EffectsInv, PaidCheckout
    <2>2. CASE h.n # 0
        <3>1. acked' = acked \cup {h.n} /\ Took(h.n)
            BY <2>2 DEF Finish
        <3>2. /\ times' \in [1 .. MaxEvents[faults] -> Nat] /\ times'[h.n] = 1
              /\ \A m \in 1 .. MaxEvents[faults] : m # h.n => times'[m] = times[m]
            BY <1>3, <2>2, <3>1, TookOnce
        <3>3. recorded \subseteq 1 .. MaxEvents[faults]
            BY <1>2, LogFacts DEF EffectsInv, BillInv, LogInv
        <3>4. \A f \in handlers' : f.n # h.n
            BY <1>1, <1>2, <2>2 DEF HandlersInv
        <3>5. \A f \in handlers' : f.n # 0 => times'[f.n] = 0
            <4>1. \A f \in handlers' : f.n # 0 => f.n \in recorded /\ times[f.n] = 0
                BY <1>1, <1>2 DEF HandlersInv, EffectsInv
            <4> QED BY <3>2, <3>3, <3>4, <4>1
        <3>6. \A m \in 1 .. MaxEvents[faults] :
                  times'[m] <= 1 /\ (m \notin recorded => times'[m] = 0)
            BY <1>2, <1>3, <2>2, <3>2 DEF EffectsInv
        <3>7. faults \cap {"stripe_error", "crash"} = {} =>
                  \A m \in recorded : PaidCheckout(m)' => times'[m] = 1 \/ InHand(m)'
            <4> SUFFICES ASSUME faults \cap {"stripe_error", "crash"} = {}, NEW m \in recorded,
                                m # h.n, PaidCheckout(m)'
                         PROVE  times'[m] = 1 \/ InHand(m)'
                BY <3>2
            <4>1. times'[m] = times[m]
                BY <3>2, <3>3
            <4>2. times[m] = 1 \/ InHand(m)
                BY <1>2 DEF EffectsInv, PaidCheckout
            <4> QED BY <1>1, <4>1, <4>2 DEF InHand
        <3>8. acked' \subseteq recorded' /\ recorded' \subseteq 1 .. Len(log')
            BY <1>1, <1>2, <1>3, <2>2, <3>1 DEF EffectsInv
        <3> QED BY <1>1, <3>2, <3>5, <3>6, <3>7, <3>8 DEF EffectsInv
    <2> QED BY <2>1, <2>2
<1> QED BY <1>4, <1>5, <1>6, <1>7 DEF BillInv

LEMMA FailInv ==
    ASSUME BillInv, NEW h \in handlers, Fail(h), faults' = faults
    PROVE  BillInv'
<1>1. /\ "stripe_error" \in faults /\ handlers' = handlers \ {h}
      /\ UNCHANGED <<stripeVars, acked, recorded, row, plan, visited, times, torn>>
    BY DEF Fail
<1>2. RowsInv' /\ recorded' \subseteq 1 .. Len(log)
    BY <1>1, RowsSame DEF BillInv, EffectsInv
<1> QED BY <1>1, <1>2, HandlersEnd

LEMMA CrashInv ==
    ASSUME BillInv, Crash, faults' = faults
    PROVE  BillInv'
<1>1. /\ "crash" \in faults /\ handlers' = {}
      /\ UNCHANGED <<stripeVars, acked, plan, visited, times>>
    BY DEF Crash
<1>2. StripeInv /\ RowsInv /\ recorded \subseteq 1 .. Len(log)
    BY DEF BillInv, EffectsInv
<1>3. CASE UNCHANGED <<recorded, row, torn>>
    BY <1>1, <1>2, <1>3, RowsSame, HandlersEnd
<1>4. CASE /\ \E n \in DOMAIN log : Due(n) /\ recorded' = recorded \cup {n}
           /\ UNCHANGED <<row, torn>>
    <2>1. PICK n \in DOMAIN log : recorded' = recorded \cup {n}
        BY <1>4
    <2>2. n \in 1 .. Len(log)
        BY LogFacts
    <2>3. RowsInv'
        BY <1>1, <1>2, <1>4, RowsSame
    <2> QED BY <1>1, <1>2, <2>1, <2>2, <2>3, HandlersEnd
<1>5. CASE \E n \in DOMAIN log :
               /\ Fresh(n, "subscription")
               /\ recorded' = recorded \cup {n}
               /\ \E u \in Knows(customer[log[n].sub]) : Tear(u, log[n].sub, log[n].st)
    <2>1. PICK n \in DOMAIN log :
               /\ recorded' = recorded \cup {n}
               /\ \E u \in Knows(customer[log[n].sub]) : Tear(u, log[n].sub, log[n].st)
        BY <1>5
    <2>2. PICK u \in Knows(customer[log[n].sub]) : Tear(u, log[n].sub, log[n].st)
        BY <2>1
    <2>3. /\ n \in 1 .. Len(log) /\ log[n].sub \in Subs /\ log[n].st \in Statuses
          /\ stat[log[n].sub] # "none"
          /\ log[n].st = "active" => log[n].sub \in paid
        BY LogFacts
    <2>4. u \in Users /\ owner[log[n].sub] = u
        BY <1>2, <2>3, KnownOwner
    <2>5. RowsInv'
        BY <1>1, <1>2, <2>2, <2>3, <2>4, RowWritten
    <2> QED BY <1>1, <1>2, <2>1, <2>3, <2>5, HandlersEnd
<1>6. CASE /\ \E h \in handlers : h.snap # None /\ Tear(owner[h.sub], h.sub, h.snap)
           /\ UNCHANGED recorded
    <2>1. PICK h \in handlers : h.snap # None /\ Tear(owner[h.sub], h.sub, h.snap)
        BY <1>6
    <2>2. /\ h.sub \in Subs /\ h.snap \in Statuses
          /\ stat[h.sub] # "none" /\ owner[h.sub] \in Users
          /\ h.snap = "active" => h.sub \in paid
        BY <2>1, HandlerFacts
    <2>3. RowsInv'
        BY <1>1, <1>2, <2>1, <2>2, RowWritten
    <2> QED BY <1>1, <1>2, <1>6, <2>3, HandlersEnd
<1> QED BY <1>3, <1>4, <1>5, <1>6 DEF Crash

-----------------------------------------------------------------------------
(* The theorems. *)

LEMMA BillStep == BillInv /\ [BillNext]_billVars => BillInv'
<1> SUFFICES ASSUME BillInv, [BillNext]_billVars PROVE BillInv'
    OBVIOUS
<1>1. CASE BillNext
    <2>1. faults' = faults
        BY <1>1 DEF BillNext
    <2>2. CASE \E s \in Subs : Pay(s) \/ Change(s) \/ VisitPage(s)
                                 \/ \E u \in Users : OpenCheckout(u, s)
        BY <2>1, <2>2, PayInv, ChangeInv, VisitPageInv, OpenCheckoutInv
    <2>3. CASE \E n \in DOMAIN log : Webhook(n)
        BY <2>1, <2>3, WebhookInv
    <2>4. CASE \E h \in handlers : Answer(h) \/ Finish(h) \/ Fail(h)
        BY <2>1, <2>4, AnswerInv, FinishInv, FailInv
    <2>5. CASE Crash
        BY <2>1, <2>5, CrashInv
    <2> QED BY <1>1, <2>2, <2>3, <2>4, <2>5 DEF BillNext
<1>2. CASE UNCHANGED billVars
    <2>1. UNCHANGED <<faults, stripeVars, acked, recorded, row, plan, handlers, visited, times, torn>>
        BY <1>2 DEF billVars
    <2>2. StripeInv' /\ LogInv' /\ RowsInv'
        BY <2>1, StripeSame, RowsSame DEF BillInv
    <2>3. HandlersInv'
        BY <2>1 DEF BillInv, HandlersInv, stripeVars
    <2>4. EffectsInv'
        BY <2>1 DEF BillInv, EffectsInv, stripeVars, PaidCheckout, InHand
    <2> QED BY <2>2, <2>3, <2>4 DEF BillInv
<1> QED BY <1>1, <1>2

THEOREM BillInvariant == BillSpec => []BillInv
BY BillStart, BillStep, PTL DEF BillSpec

(***************************************************************************)
(* Every variable has its type, and no two rows share a customer: checkouts*)
(* under one customer are of one user (create_checkout, by_customer).      *)
(***************************************************************************)
THEOREM BillTypes == BillSpec => []BillTypeOK
<1>1. BillInv => BillTypeOK
    <2> SUFFICES ASSUME BillInv PROVE BillTypeOK
        OBVIOUS
    <2>1. StripeInv /\ LogInv /\ RowsInv /\ HandlersInv /\ EffectsInv
        BY DEF BillInv
    <2>2. \A n \in DOMAIN log : log[n].sub \in Subs /\ stat[log[n].sub] # "none"
        BY LogFacts
    <2>3. \A h \in handlers : h.n \in DOMAIN log \cup {0} /\ owner[h.sub] \in Users
        BY HandlerFacts
    <2>4. ASSUME NEW c \in Subs
          PROVE  Cardinality(Knows(c)) <= 1
        <3>1. \A u, v \in Knows(c) : u = v
            <4> SUFFICES ASSUME NEW u \in Knows(c), NEW v \in Knows(c) PROVE u = v
                OBVIOUS
            <4>1. \A w \in Knows(c) : w \in Users /\ row[w] # None /\ row[w].customer = c
                BY DEF Knows
            <4>2. \A w \in Knows(c) : row[w].sub \in Subs
                <5>1. \A w \in Knows(c) : row[w] \in RowRecord
                    BY <2>1, <4>1 DEF RowsInv
                <5> QED BY <5>1 DEF RowRecord
            <4>3. \A w \in Knows(c) : stat[row[w].sub] # "none" /\ owner[row[w].sub] = w
                                          /\ customer[row[w].sub] = c
                BY <2>1, <4>1 DEF RowsInv
            <4>4. \A w \in Knows(c) : owner[c] = w
                BY <2>1, <4>2, <4>3 DEF StripeInv
            <4> QED BY <4>4
        <3>2. Knows(c) = {} \/ \E u : Knows(c) = {u}
            BY <3>1
        <3>3. CASE Knows(c) = {}
            BY <3>3, FS_EmptySet
        <3>4. CASE \E u : Knows(c) = {u}
            <4>1. PICK u : Knows(c) = {u}
                BY <3>4
            <4>2. Cardinality({u}) = 1
                BY FS_Singleton
            <4> QED BY <4>1, <4>2
        <3> QED BY <3>2, <3>3, <3>4
    <2>5. recorded \subseteq DOMAIN log
        BY <2>1 DEF EffectsInv, LogInv
    <2> QED BY <2>1, <2>2, <2>3, <2>4, <2>5
            DEF BillTypeOK, StripeInv, RowsInv, HandlersInv, EffectsInv
<1> QED BY <1>1, BillInvariant, PTL

(***************************************************************************)
(* No event is applied twice, whatever   is delivered again, fails, or is  *)
(* cut off by a crash (record_event, apply_event).                         *)
(***************************************************************************)
THEOREM EventsAppliedOnce == BillSpec => []AppliedOnce
<1>1. BillInv => AppliedOnce
    BY DEF BillInv, EffectsInv, AppliedOnce
<1> QED BY <1>1, BillInvariant, PTL

(***************************************************************************)
(* Unless questions to Stripe fail or the process dies, an acknowledged    *)
(* event of a paid checkout has been applied to its user, or is in the     *)
(* hands of a handler that will (billing_webhook, apply_checkout_session). *)
(***************************************************************************)
THEOREM PaidApplied == BillSpec => []PaidIsApplied
<1>1. BillInv => PaidIsApplied
    BY DEF BillInv, EffectsInv, PaidIsApplied, AcknowledgedIsApplied
<1> QED BY <1>1, BillInvariant, PTL

(***************************************************************************)
(* Whoever is Pro has paid, in any order of events, answers, success pages *)
(* and crashes (apply_subscription, apply_checkout_session).               *)
(***************************************************************************)
THEOREM ProPaid == BillSpec => []ProIsPaid
<1>1. BillInv => ProIsPaid
    BY DEF BillInv, RowsInv
<1> QED BY <1>1, BillInvariant, PTL

-----------------------------------------------------------------------------
(***************************************************************************)
(* What Stripe has reported.  Every status a subscription has had is in the*)
(* log, so an answer fetched at any moment is reported when it is applied, *)
(* however late that is: ReportInv is inductive beside BillInv.            *)
(***************************************************************************)
Begun(s) == stat[s] \in {"incomplete", "active", "unpaid", "canceled"}

(* The status of every subscription is in the log, and only they are paid  *)
(* for, in the log, and asked for.                                         *)
StatusesTold ==
    /\ \A s \in Subs : Begun(s) => Reported(s, stat[s])
    /\ \A s \in paid : Begun(s)
    /\ \A n \in DOMAIN log : Begun(log[n].sub)

AnswersTold ==
    \A h \in handlers : Begun(h.sub) /\ (h.snap # None => Reported(h.sub, h.snap))

ReportInv == StatusesTold /\ AnswersTold /\ RowIsReported

(* The log only grows, so what was reported stays reported. *)
LEMMA ReportedStays ==
    ASSUME NEW es, log' = log \o es, log \in Seq(EventRecord), es \in Seq(EventRecord),
           NEW s, NEW st, Reported(s, st)
    PROVE  Reported(s, st)'
<1>1. PICK n \in DOMAIN log : log[n] = Event("subscription", s, st)
    BY DEF Reported
<1>2. n \in DOMAIN log' /\ log'[n] = log[n]
    OBVIOUS
<1> QED BY <1>1, <1>2 DEF Reported, Event

(* Stripe reports the new status of s. *)
LEMMA StripeReports ==
    ASSUME BillInv, ReportInv, NEW s \in Subs,
           NEW st \in {"incomplete", "active", "unpaid", "canceled"},
           stat' = [stat EXCEPT ![s] = st],
           paid' = IF st = "active" THEN paid \cup {s} ELSE paid,
           NEW es \in Seq(EventRecord), log' = log \o es, Len(es) >= 1,
           es[1] = Event("subscription", s, st), \A i \in 1 .. Len(es) : es[i].sub = s,
           UNCHANGED <<row, plan, torn, handlers>>
    PROVE  ReportInv'
<1>1. /\ stat \in [Subs -> Statuses] /\ log \in Seq(EventRecord) /\ paid \subseteq Subs
      /\ \A n \in DOMAIN log : log[n].sub \in Subs
      /\ \A h \in handlers : h.sub \in Subs
    BY LogFacts, HandlerFacts DEF BillInv, StripeInv, LogInv
<1>2. stat'[s] = st /\ \A t \in Subs : t # s => stat'[t] = stat[t]
    BY <1>1
<1>3. \A t \in Subs : Begun(t) => Begun(t)'
    BY <1>2 DEF Begun
<1>4. Begun(s)'
    BY <1>2 DEF Begun
<1>5. /\ Len(log') = Len(log) + Len(es) /\ DOMAIN log' = 1 .. Len(log')
      /\ \A n \in DOMAIN log' :
            \/ n \in DOMAIN log /\ log'[n] = log[n]
            \/ n - Len(log) \in 1 .. Len(es) /\ log'[n] = es[n - Len(log)]
    BY <1>1
<1>6. ASSUME NEW n \in DOMAIN log'
      PROVE  Begun(log[n].sub)'
  <2>1. CASE n \in DOMAIN log /\ log'[n] = log[n]
    <3>1. Begun(log[n].sub) /\ log[n].sub \in Subs
        BY <1>1, <2>1 DEF ReportInv, StatusesTold
    <3> QED BY <1>2, <1>4, <2>1, <3>1 DEF Begun
  <2>2. CASE n - Len(log) \in 1 .. Len(es) /\ log'[n] = es[n - Len(log)]
    <3>1. log'[n].sub = s
        BY <2>2
    <3> QED BY <1>2, <3>1 DEF Begun
  <2> QED BY <1>5, <2>1, <2>2
<1>7. Reported(s, st)'
  <2>1. Len(log) + 1 \in DOMAIN log' /\ log'[Len(log) + 1] = es[1]
      BY <1>1, <1>5
  <2> QED BY <2>1 DEF Reported, Event
<1>8. \A t, x : Reported(t, x) => Reported(t, x)'
    BY <1>1, ReportedStays
<1>9. StatusesTold'
  <2>1. ASSUME NEW t \in Subs, Begun(t)'
        PROVE  Reported(t, stat[t])'
    <3>1. CASE t = s
        BY <1>2, <1>7, <3>1 DEF Reported
    <3>2. CASE t # s
      <4>1. Begun(t) /\ stat'[t] = stat[t]
          BY <1>2, <2>1, <3>2 DEF Begun
      <4>2. Reported(t, stat[t])
          BY <4>1 DEF ReportInv, StatusesTold
      <4> QED BY <1>8, <4>1, <4>2 DEF Reported
    <3> QED BY <3>1, <3>2
  <2>2. ASSUME NEW t \in paid'
        PROVE  Begun(t)'
      BY <1>1, <1>3, <1>4, <2>2 DEF ReportInv, StatusesTold
  <2> QED BY <1>6, <2>1, <2>2 DEF StatusesTold
<1>10. AnswersTold'
    BY <1>1, <1>3, <1>8 DEF ReportInv, AnswersTold
<1>11. RowIsReported'
    BY <1>8 DEF ReportInv, RowIsReported
<1> QED BY <1>9, <1>10, <1>11 DEF ReportInv

(* The gateway's steps leave the log, and who has begun, as they are. *)
LEMMA ToldStays ==
    ASSUME StatusesTold, UNCHANGED stripeVars
    PROVE  /\ StatusesTold'
           /\ \A s : Begun(s) => Begun(s)'
           /\ \A s, st : Reported(s, st) => Reported(s, st)'
BY DEF StatusesTold, stripeVars, Begun, Reported

(* A reported status is written for u, with its plan or torn from it. *)
LEMMA ReportWritten ==
    ASSUME RowsInv, RowIsReported, UNCHANGED stripeVars, NEW u \in Users, NEW s, NEW st,
           Reported(s, st), Row(s, st) # None,
           ApplySubscription(u, s, st) \/ (Tear(u, s, st) /\ UNCHANGED plan)
    PROVE  RowIsReported'
<1> DEFINE v == Row(s, st)
<1>1. v.sub = s /\ v.status = st /\ v # None
    BY DEF Row
<1>2. row' = [row EXCEPT ![u] = v]
    BY DEF ApplySubscription, Tear
<1> HIDE DEF v
<1>3. row'[u] = v /\ \A w \in Users : w # u => row'[w] = row[w]
    BY <1>2 DEF RowsInv
<1>4. /\ \A w \in Users : w # u => plan'[w] = plan[w] /\ (w \in torn <=> w \in torn')
      /\ plan'[u] = PlanFor(st) \/ u \in torn'
    BY DEF ApplySubscription, Tear, RowsInv
<1>5. \A t, x : Reported(t, x) => Reported(t, x)'
    BY DEF stripeVars, Reported
<1>6. ASSUME NEW w \in Users
      PROVE  /\ row'[w] = None => plan'[w] = "free"
             /\ row'[w] # None => Reported(row[w].sub, row[w].status)'
             /\ row'[w] # None /\ w \notin torn' => plan'[w] = PlanFor(row'[w].status)
  <2>1. CASE w = u
    <3>1. row'[w].sub = s /\ row'[w].status = st /\ row'[w] # None
        BY <1>1, <1>3, <2>1
    <3>2. Reported(s, st)'
        BY <1>5
    <3>3. Reported(row[w].sub, row[w].status)'
        BY <3>1, <3>2 DEF Reported
    <3> QED BY <1>4, <2>1, <3>1, <3>3
  <2>2. CASE w # u
    <3>1. row'[w] = row[w] /\ plan'[w] = plan[w] /\ (w \in torn <=> w \in torn')
        BY <1>3, <1>4, <2>2
    <3>2. row[w] # None => Reported(row[w].sub, row[w].status)'
        BY <1>5, <3>1 DEF RowIsReported, Reported
    <3> QED BY <3>1, <3>2 DEF RowIsReported
  <2> QED BY <2>1, <2>2
<1> QED BY <1>6 DEF RowIsReported

(* So do steps that write nothing. *)
LEMMA ReportKept ==
    ASSUME RowIsReported, UNCHANGED <<stripeVars, row, plan, torn>>
    PROVE  RowIsReported'
BY DEF RowIsReported, Reported, stripeVars

(* A row is a record, and so is what an event or an answer has written. *)
LEMMA RowIsNotNone ==
    ASSUME BillInv, NEW s \in Subs, NEW st \in Statuses, stat[s] # "none"
    PROVE  Row(s, st) # None
<1>1. customer[s] \in Subs
    BY DEF BillInv, StripeInv
<1>2. Row(s, st) \in RowRecord
    BY <1>1 DEF Row, RowRecord
<1> QED BY <1>2, BillingAssumption DEF RowRecord

LEMMA EventReports ==
    ASSUME BillInv, NEW n \in DOMAIN log, log[n].kind = "subscription"
    PROVE  Reported(log[n].sub, log[n].st)
<1>1. log[n] \in EventRecord
    BY DEF BillInv, LogInv
<1>2. log[n] = Event("subscription", log[n].sub, log[n].st)
    BY <1>1 DEF EventRecord, Event
<1> QED BY <1>2 DEF Reported

-----------------------------------------------------------------------------
LEMMA StripeReportSteps ==
    ASSUME BillInv, ReportInv, NEW s \in Subs,
           Pay(s) \/ Change(s) \/ VisitPage(s) \/ \E u \in Users : OpenCheckout(u, s)
    PROVE  ReportInv'
<1>1. CASE Pay(s)
  <2>1. PICK st \in {"active", "incomplete"} :
            /\ stat' = [stat EXCEPT ![s] = st]
            /\ paid' = IF st = "active" THEN paid \cup {s} ELSE paid
            /\ Emit(<<Event("subscription", s, st), Event("checkout", s, st)>>)
      BY <1>1 DEF Pay
  <2> DEFINE d == Event("subscription", s, st)
             e == Event("checkout", s, st)
  <2>2. d \in EventRecord /\ e \in EventRecord /\ d.sub = s /\ e.sub = s
      BY EventType DEF Statuses
  <2>3. log' = log \o <<d, e>> /\ d = Event("subscription", s, st)
      BY <2>1 DEF Emit
  <2> HIDE DEF d, e
  <2>4. /\ <<d, e>> \in Seq(EventRecord) /\ Len(<<d, e>>) >= 1 /\ <<d, e>>[1] = d
        /\ \A i \in 1 .. Len(<<d, e>>) : <<d, e>>[i].sub = s
      BY <2>2
  <2>5. UNCHANGED <<row, plan, torn, handlers>>
      BY <1>1 DEF Pay
  <2> QED BY <2>1, <2>3, <2>4, <2>5, StripeReports
<1>2. CASE Change(s)
  <2>1. PICK st \in {"active", "unpaid", "canceled"} :
            /\ stat' = [stat EXCEPT ![s] = st]
            /\ paid' = IF st = "active" THEN paid \cup {s} ELSE paid
            /\ Emit(<<Event("subscription", s, st)>>)
      BY <1>2 DEF Change
  <2> DEFINE d == Event("subscription", s, st)
  <2>2. d \in EventRecord /\ d.sub = s
      BY EventType DEF Statuses
  <2>3. log' = log \o <<d>> /\ d = Event("subscription", s, st)
      BY <2>1 DEF Emit
  <2> HIDE DEF d
  <2>4. /\ <<d>> \in Seq(EventRecord) /\ Len(<<d>>) >= 1 /\ <<d>>[1] = d
        /\ \A i \in 1 .. Len(<<d>>) : <<d>>[i].sub = s
      BY <2>2
  <2>5. UNCHANGED <<row, plan, torn, handlers>>
      BY <1>2 DEF Change
  <2> QED BY <2>1, <2>3, <2>4, <2>5, StripeReports
<1>3. CASE VisitPage(s)
  <2>1. /\ s \in paid /\ handlers' = handlers \cup {[n |-> 0, sub |-> s, snap |-> None]}
        /\ UNCHANGED <<stripeVars, row, plan, torn>>
      BY <1>3 DEF VisitPage
  <2>2. StatusesTold' /\ RowIsReported'
      BY <2>1, ToldStays, ReportKept DEF ReportInv
  <2>3. Begun(s)
      BY <2>1 DEF ReportInv, StatusesTold
  <2>4. AnswersTold'
      BY <2>1, <2>3, ToldStays DEF ReportInv, AnswersTold
  <2> QED BY <2>2, <2>4 DEF ReportInv
<1>4. CASE \E u \in Users : OpenCheckout(u, s)
  <2>1. /\ stat[s] = "none" /\ stat' = [stat EXCEPT ![s] = "open"]
        /\ UNCHANGED <<paid, log, row, plan, handlers, torn>>
      BY <1>4 DEF OpenCheckout, CreateCheckout
  <2>2. stat'[s] = "open" /\ \A t \in Subs : t # s => stat'[t] = stat[t]
      BY <2>1 DEF BillInv, StripeInv
  <2>3. \A t \in Subs : Begun(t) <=> Begun(t)'
      BY <2>1, <2>2 DEF Begun
  <2>4. \A t, x : Reported(t, x) => Reported(t, x)'
      BY <2>1 DEF Reported
  <2>5. paid \subseteq Subs /\ (\A n \in DOMAIN log : log[n].sub \in Subs)
        /\ \A h \in handlers : h.sub \in Subs
      BY LogFacts, HandlerFacts DEF BillInv, StripeInv
  <2>6. StatusesTold'
    <3>1. ASSUME NEW t \in Subs, Begun(t)'
          PROVE  Reported(t, stat[t])'
      <4>1. Begun(t) /\ t # s /\ stat'[t] = stat[t]
          BY <2>1, <2>2, <2>3, <3>1 DEF Begun
      <4>2. Reported(t, stat[t])
          BY <4>1 DEF ReportInv, StatusesTold
      <4> QED BY <2>4, <4>1, <4>2 DEF Reported
    <3>2. \A t \in paid' : Begun(t)'
        BY <2>1, <2>3, <2>5 DEF ReportInv, StatusesTold
    <3>3. ASSUME NEW n \in DOMAIN log'
          PROVE  Begun(log[n].sub)'
        BY <2>1, <2>3, <2>5, <3>3 DEF ReportInv, StatusesTold, Begun
    <3> QED BY <3>1, <3>2, <3>3 DEF StatusesTold
  <2>7. AnswersTold'
      BY <2>1, <2>3, <2>4, <2>5 DEF ReportInv, AnswersTold
  <2>8. RowIsReported'
      BY <2>1, <2>4 DEF ReportInv, RowIsReported
  <2> QED BY <2>6, <2>7, <2>8 DEF ReportInv
<1> QED BY <1>1, <1>2, <1>3, <1>4

LEMMA WebhookReports ==
    ASSUME BillInv, ReportInv, NEW n \in DOMAIN log, Webhook(n)
    PROVE  ReportInv'
<1>1. UNCHANGED stripeVars
    BY DEF Webhook, Redelivered, WebhookCheckout, WebhookSubscription
<1>2. StatusesTold'
    BY <1>1, ToldStays DEF ReportInv
<1>3. AnswersTold'
  <2>1. \/ handlers' = handlers
        \/ handlers' = handlers \cup {[n |-> n, sub |-> log[n].sub, snap |-> None]}
      BY DEF Webhook, Redelivered, WebhookCheckout, WebhookSubscription
  <2>2. Begun(log[n].sub)
      BY DEF ReportInv, StatusesTold
  <2> QED BY <1>1, <2>1, <2>2, ToldStays DEF ReportInv, AnswersTold
<1>4. CASE UNCHANGED <<row, plan, torn>>
    BY <1>1, <1>2, <1>3, <1>4, ReportKept DEF ReportInv
<1>5. ASSUME log[n].kind = "subscription", NEW u \in Knows(customer[log[n].sub]),
             ApplySubscription(u, log[n].sub, log[n].st)
      PROVE  RowIsReported'
  <2>1. /\ log[n].sub \in Subs /\ log[n].st \in Statuses /\ u \in Users
        /\ Row(log[n].sub, log[n].st) # None
      BY LogFacts, RowIsNotNone DEF Knows
  <2> QED BY <1>1, <1>5, <2>1, EventReports, ReportWritten DEF ReportInv, BillInv
<1> QED BY <1>2, <1>3, <1>4, <1>5
        DEF Webhook, Redelivered, WebhookCheckout, WebhookSubscription, Fresh, ReportInv

LEMMA HandlerReports ==
    ASSUME BillInv, ReportInv, NEW h \in handlers, Answer(h) \/ Finish(h) \/ Fail(h)
    PROVE  ReportInv'
<1>1. UNCHANGED stripeVars
    BY DEF Answer, Finish, Fail
<1>2. StatusesTold'
    BY <1>1, ToldStays DEF ReportInv
<1>3. h \in Handler /\ h.sub \in Subs /\ stat[h.sub] # "none" /\ Begun(h.sub)
    BY HandlerFacts DEF ReportInv, AnswersTold
<1>4. CASE Answer(h)
  <2> DEFINE g == [h EXCEPT !.snap = stat[h.sub]]
  <2>1. /\ handlers' = (handlers \ {h}) \cup {g} /\ g.sub = h.sub /\ g.snap = stat[h.sub]
        /\ UNCHANGED <<row, plan, torn>>
      BY <1>3, <1>4 DEF Answer, Handler
  <2>2. Reported(g.sub, g.snap) /\ Begun(g.sub)
      BY <1>3, <2>1 DEF ReportInv, StatusesTold
  <2> HIDE DEF g
  <2>3. AnswersTold'
      BY <1>1, <2>1, <2>2, ToldStays DEF ReportInv, AnswersTold
  <2> QED BY <1>1, <1>2, <2>1, <2>3, ReportKept DEF ReportInv
<1>5. CASE Finish(h)
  <2>1. /\ h.snap # None /\ handlers' = handlers \ {h}
        /\ ApplySubscription(owner[h.sub], h.sub, h.snap)
      BY <1>5 DEF Finish
  <2>2. AnswersTold'
      BY <1>1, <2>1, ToldStays DEF ReportInv, AnswersTold
  <2>3. /\ Reported(h.sub, h.snap) /\ owner[h.sub] \in Users /\ h.snap \in Statuses
      BY <2>1, HandlerFacts DEF ReportInv, AnswersTold
  <2>4. Row(h.sub, h.snap) # None
      BY <1>3, <2>3, RowIsNotNone
  <2>5. RowIsReported'
      BY <1>1, <2>1, <2>3, <2>4, ReportWritten DEF ReportInv, BillInv
  <2> QED BY <1>2, <2>2, <2>5 DEF ReportInv
<1>6. CASE Fail(h)
  <2>1. handlers' = handlers \ {h} /\ UNCHANGED <<row, plan, torn>>
      BY <1>6 DEF Fail
  <2>2. AnswersTold'
      BY <1>1, <2>1, ToldStays DEF ReportInv, AnswersTold
  <2> QED BY <1>1, <1>2, <2>1, <2>2, ReportKept DEF ReportInv
<1> QED BY <1>4, <1>5, <1>6

LEMMA CrashReports ==
    ASSUME BillInv, ReportInv, Crash
    PROVE  ReportInv'
<1>1. handlers' = {} /\ UNCHANGED <<stripeVars, plan>>
    BY DEF Crash
<1>2. StatusesTold' /\ AnswersTold'
    BY <1>1, ToldStays DEF ReportInv, AnswersTold
<1>3. CASE UNCHANGED <<row, torn>>
    BY <1>1, <1>2, <1>3, ReportKept DEF ReportInv
<1>4. ASSUME NEW u \in Users, NEW s \in Subs, NEW st \in Statuses, stat[s] # "none",
             Reported(s, st), Tear(u, s, st)
      PROVE  RowIsReported'
  <2>1. Row(s, st) # None
      BY <1>4, RowIsNotNone
  <2> QED BY <1>1, <1>4, <2>1, ReportWritten DEF ReportInv, BillInv
<1>5. ASSUME NEW n \in DOMAIN log, Fresh(n, "subscription"),
             NEW u \in Knows(customer[log[n].sub]), Tear(u, log[n].sub, log[n].st)
      PROVE  RowIsReported'
    BY <1>4, <1>5, LogFacts, EventReports DEF Fresh, Knows
<1>6. ASSUME NEW h \in handlers, h.snap # None, Tear(owner[h.sub], h.sub, h.snap)
      PROVE  RowIsReported'
  <2>1. Reported(h.sub, h.snap) /\ h.snap \in Statuses
      BY <1>6, HandlerFacts DEF ReportInv, AnswersTold
  <2> QED BY <1>4, <1>6, <2>1, HandlerFacts
<1> QED BY <1>2, <1>3, <1>5, <1>6 DEF Crash, ReportInv

LEMMA ReportStep == BillInv /\ ReportInv /\ [BillNext]_billVars => ReportInv'
<1> SUFFICES ASSUME BillInv, ReportInv, [BillNext]_billVars PROVE ReportInv'
    OBVIOUS
<1>1. CASE UNCHANGED billVars
  <2>1. UNCHANGED <<stripeVars, row, plan, torn, handlers>>
      BY <1>1 DEF billVars
  <2>2. AnswersTold'
      BY <2>1, ToldStays DEF ReportInv, AnswersTold
  <2> QED BY <2>1, <2>2, ToldStays, ReportKept DEF ReportInv
<1> QED BY <1>1, StripeReportSteps, WebhookReports, HandlerReports, CrashReports DEF BillNext

LEMMA ReportStart == BillInit => ReportInv
BY DEF BillInit, ReportInv, StatusesTold, AnswersTold, RowIsReported, Begun

(***************************************************************************)
(* A row shows a status that Stripe has reported of that subscription, and *)
(* unless a crash has torn them the plan is derived from it, in any order  *)
(* of events, answers, success pages and failures (apply_subscription).    *)
(***************************************************************************)
THEOREM RowsReported == BillSpec => []RowIsReported
<1>1. ReportInv => RowIsReported
    BY DEF ReportInv
<1> QED BY <1>1, ReportStart, ReportStep, BillInvariant, PTL DEF BillSpec
=============================================================================
