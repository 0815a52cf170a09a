----------------------------- MODULE PlanProofs -----------------------------
(***************************************************************************)
(* Without faults the plan follows the subscription, for any users,        *)
(* checkouts and number of events.  FollowInv adds to BillInv what the log *)
(* tells of the status of each subscription, that events are applied in    *)
(* turn, and what the rows and plans tell of the events applied so far.    *)
(***************************************************************************)
EXTENDS BillingProofs, WellFoundedInduction

Who(n) == owner[log[n].sub]

(* Event n is the last of its user among the events of K. *)
IsLast(n, K) == \A j \in K : j > n => Who(j) # Who(n)

(* The event of a payment: that of its checkout follows. *)
First(n) == n + 1 \in DOMAIN log /\ log[n + 1].kind = "checkout"

(* A user's last event tells the status of their only live subscription; a *)
(* change comes after an event of the same subscription.                   *)
LogTells ==
    /\ \A n \in DOMAIN log : IsLast(n, DOMAIN log) => log[n].st = stat[log[n].sub]
    /\ \A s \in Subs : Live(s) => \E n \in DOMAIN log : log[n].sub = s /\ IsLast(n, DOMAIN log)
    /\ \A n \in DOMAIN log : log[n].kind = "subscription" /\ ~First(n) =>
          \E m \in 1 .. n - 1 : /\ log[m].sub = log[n].sub
                                /\ \A j \in m + 1 .. n - 1 : Who(j) # Who(n)
    /\ \A n \in DOMAIN log : First(n) => log[n + 1].sub = log[n].sub
    /\ \A n \in DOMAIN log : log[n].kind = "checkout" => log[n].st = "active"

(* One event at a time; an answer may be ahead of its event, never behind. *)
InTurn ==
    /\ \A n \in acked : 1 .. n \subseteq acked
    /\ \A n \in recorded \ acked : \E h \in handlers : h.n = n
    /\ \A h \in handlers :
          /\ h.n \in DOMAIN log \ acked /\ 1 .. h.n - 1 \subseteq acked
          /\ log[h.n].kind = "checkout" /\ log[h.n].sub = h.sub
          /\ h.snap # None /\ IsLast(h.n, DOMAIN log) => h.snap = stat[h.sub]

(* The row is of the customer of the last event applied, but for a payment *)
(* whose checkout is to come; the plan is that of the last event of all.   *)
PlansTell ==
    /\ \A u \in Users : plan[u] = "pro" => \E n \in acked : Who(n) = u
    /\ \A n \in acked : ~First(n) /\ IsLast(n, acked) =>
          /\ row[Who(n)] # None /\ row[Who(n)].customer = customer[log[n].sub]
          /\ IsLast(n, DOMAIN log) => plan[Who(n)] = PlanFor(log[n].st)

FollowInv == BillInv /\ (faults = {} => LogTells /\ InTurn /\ PlansTell)

LEMMA EventFacts ==
    ASSUME BillInv, NEW n \in DOMAIN log
    PROVE  /\ n \in Nat /\ n >= 1 /\ n <= Len(log) /\ DOMAIN log = 1 .. Len(log) /\ Len(log) \in Nat
           /\ log[n].sub \in Subs /\ log[n].st \in Statuses /\ stat[log[n].sub] # "none"
           /\ Who(n) \in Users
<1>1. n \in 1 .. Len(log) /\ log[n].sub \in Subs /\ log[n].st \in Statuses
      /\ stat[log[n].sub] # "none"
    BY LogFacts
<1>2. log \in Seq(EventRecord)
    BY DEF BillInv, LogInv
<1>3. Who(n) \in Users
    BY <1>1 DEF BillInv, StripeInv, Who
<1> QED  BY <1>1, <1>2, <1>3

LEMMA FollowStart == BillInit => FollowInv
<1> SUFFICES ASSUME BillInit PROVE FollowInv
    OBVIOUS
<1>1. BillInv
    BY BillStart
<1>2. /\ log = <<>> /\ acked = {} /\ recorded = {} /\ handlers = {}
      /\ \A s \in Subs : stat[s] = "none"
      /\ \A u \in Users : plan[u] = "free"
    BY DEF BillInit
<1>3. LogTells
    BY <1>2 DEF LogTells, Live
<1>4. InTurn /\ PlansTell
    BY <1>2 DEF InTurn, PlansTell
<1> QED  BY <1>1, <1>3, <1>4 DEF FollowInv

-----------------------------------------------------------------------------
(* Stripe's steps. *)

LEMMA TellsAside ==
    ASSUME BillInv, InTurn, PlansTell, DOMAIN log \subseteq DOMAIN log',
           \A n \in DOMAIN log :
              /\ log'[n] = log[n]
              /\ owner'[log[n].sub] = owner[log[n].sub]
              /\ customer'[log[n].sub] = customer[log[n].sub]
              /\ IsLast(n, DOMAIN log)' => stat'[log[n].sub] = stat[log[n].sub],
           UNCHANGED <<acked, recorded, row, plan, handlers>>
    PROVE  InTurn' /\ PlansTell'
<1>1. \A n \in DOMAIN log : Who(n)' = Who(n)
    BY DEF Who
<1>2. \A n \in DOMAIN log : IsLast(n, DOMAIN log)' => IsLast(n, DOMAIN log)
    BY <1>1 DEF IsLast
<1>3. acked \subseteq DOMAIN log
  <2>1. acked \subseteq 1 .. Len(log) /\ log \in Seq(EventRecord)
      BY DEF BillInv, EffectsInv, LogInv
  <2> QED  BY <2>1
<1>4. \A n \in acked : IsLast(n, acked)' => IsLast(n, acked)
    BY <1>1, <1>3 DEF IsLast
<1>5. \A n \in DOMAIN log : First(n) => First(n)'
    BY DEF First
<1>6. InTurn'
  <2>1. ASSUME NEW h \in handlers
        PROVE  /\ h.n \in DOMAIN log' \ acked /\ 1 .. h.n - 1 \subseteq acked
               /\ log'[h.n].kind = "checkout" /\ log'[h.n].sub = h.sub
               /\ h.snap # None /\ IsLast(h.n, DOMAIN log)' => h.snap = stat'[h.sub]
    <3>1. h.n \in DOMAIN log /\ log[h.n].sub = h.sub
        BY DEF InTurn
    <3> QED  BY <1>2, <3>1 DEF InTurn
  <2> QED  BY <2>1 DEF InTurn
<1>7. PlansTell'
  <2>1. \A u \in Users : plan[u] = "pro" => \E n \in acked : Who(n)' = u
      BY <1>1, <1>3 DEF PlansTell
  <2>2. ASSUME NEW n \in acked, ~First(n)', IsLast(n, acked)'
        PROVE  /\ row[Who(n)'] # None /\ row[Who(n)'].customer = customer'[log'[n].sub]
               /\ IsLast(n, DOMAIN log)' => plan[Who(n)'] = PlanFor(log'[n].st)
    <3>1. n \in DOMAIN log /\ ~First(n) /\ IsLast(n, acked) /\ Who(n)' = Who(n)
        BY <1>1, <1>3, <1>4, <1>5, <2>2
    <3> QED  BY <1>2, <3>1 DEF PlansTell
  <2> QED  BY <2>1, <2>2 DEF PlansTell, PlanFor
<1> QED  BY <1>6, <1>7

LEMMA OpenCheckoutTells ==
    ASSUME BillInv, LogTells, InTurn, PlansTell,
           NEW u \in Users, NEW s \in Subs, OpenCheckout(u, s)
    PROVE  LogTells' /\ InTurn' /\ PlansTell'
<1>1. /\ stat[s] = "none" /\ stat' = [stat EXCEPT ![s] = "open"]
      /\ owner' = [owner EXCEPT ![s] = u]
      /\ UNCHANGED <<log, acked, recorded, row, plan, handlers>>
      /\ \A t \in Subs : t # s => customer'[t] = customer[t]
    BY DEF OpenCheckout, CreateCheckout, BillInv, StripeInv
<1>2. stat \in [Subs -> Statuses] /\ owner \in [Subs -> Users \cup {None}]
    BY DEF BillInv, StripeInv
<1>3. \A n \in DOMAIN log :
          /\ log[n].sub \in Subs /\ log[n].sub # s /\ Who(n)' = Who(n)
          /\ owner'[log[n].sub] = owner[log[n].sub] /\ stat'[log[n].sub] = stat[log[n].sub]
          /\ customer'[log[n].sub] = customer[log[n].sub]
    BY <1>1, <1>2, EventFacts DEF Who
<1>4. \A n \in DOMAIN log : IsLast(n, DOMAIN log)' <=> IsLast(n, DOMAIN log)
    BY <1>1, <1>3 DEF IsLast
<1>5. \A n \in DOMAIN log : First(n)' <=> First(n)
    BY <1>1 DEF First
<1>6. LogTells'
  <2>1. \A n \in DOMAIN log : IsLast(n, DOMAIN log)' => log[n].st = stat'[log[n].sub]
      BY <1>3, <1>4 DEF LogTells
  <2>2. ASSUME NEW t \in Subs, Live(t)'
        PROVE  \E n \in DOMAIN log : log[n].sub = t /\ IsLast(n, DOMAIN log)'
    <3>1. t # s /\ Live(t)
        BY <1>1, <1>2, <2>2 DEF Live
    <3> QED  BY <1>4, <3>1 DEF LogTells
  <2>3. ASSUME NEW n \in DOMAIN log, log[n].kind = "subscription", ~First(n)'
        PROVE  \E m \in 1 .. n - 1 : /\ log[m].sub = log[n].sub
                                     /\ \A j \in m + 1 .. n - 1 : Who(j)' # Who(n)'
    <3>1. PICK m \in 1 .. n - 1 : /\ log[m].sub = log[n].sub
                                  /\ \A j \in m + 1 .. n - 1 : Who(j) # Who(n)
        BY <1>5, <2>3 DEF LogTells
    <3>2. \A j \in m + 1 .. n - 1 : j \in DOMAIN log
        BY EventFacts
    <3> QED  BY <1>3, <3>1, <3>2
  <2> QED  BY <1>1, <1>5, <2>1, <2>2, <2>3 DEF LogTells
<1>7. InTurn' /\ PlansTell'
    BY <1>1, <1>3, TellsAside
<1> QED  BY <1>6, <1>7

(* Events of subscription s are appended: of a payment, or of a change. *)
LEMMA NewEvents ==
    ASSUME BillInv, LogTells, InTurn, PlansTell, NEW s \in Subs, NEW st \in Statuses, NEW k \in {1, 2},
           stat' = [stat EXCEPT ![s] = st], owner' = owner, customer' = customer,
           Len(log') = Len(log) + k, DOMAIN log' = 1 .. Len(log'),
           \A n \in DOMAIN log : log'[n] = log[n],
           \A n \in Len(log) + 1 .. Len(log) + k : log'[n].sub = s /\ log'[n].st = st,
           log'[Len(log) + 1].kind = "subscription",
           k = 1 => \E n \in DOMAIN log : log[n].sub = s /\ IsLast(n, DOMAIN log),
           k = 2 => st = "active" /\ log'[Len(log) + 2].kind = "checkout",
           \A t \in Subs : Live(t) /\ owner[t] = owner[s] => t = s,
           UNCHANGED <<acked, recorded, row, plan, handlers>>
    PROVE  LogTells' /\ InTurn' /\ PlansTell'
<1>0. log \in Seq(EventRecord) /\ \E N \in Nat : N = Len(log)
    BY SMTT(30) DEF BillInv, LogInv
<1>N. PICK N \in Nat : N = Len(log)
    BY <1>0
<1>1. /\ DOMAIN log = 1 .. N /\ DOMAIN log' = 1 .. N + k
      /\ \A n \in N + 1 .. N + k : log'[n].sub = s /\ log'[n].st = st
      /\ log'[N + 1].kind = "subscription"
      /\ k = 2 => log'[N + 2].kind = "checkout"
    BY <1>0, <1>N
<1>2. stat \in [Subs -> Statuses]
    BY DEF BillInv, StripeInv
<1>3. \A n \in DOMAIN log : log[n].sub \in Subs /\ Who(n)' = Who(n) /\ Who(n) = owner[log[n].sub]
    BY EventFacts DEF Who
<1>4. \A n \in N + 1 .. N + k : Who(n)' = owner[s]
    BY <1>1 DEF Who
<1>5. \A n \in DOMAIN log' : n \in DOMAIN log \/ n \in N + 1 .. N + k
    BY <1>1
<1>6. ASSUME NEW n \in DOMAIN log, IsLast(n, DOMAIN log)'
      PROVE  IsLast(n, DOMAIN log) /\ stat'[log[n].sub] = stat[log[n].sub]
  <2>1. N + 1 \in DOMAIN log' /\ N + 1 > n /\ N + 1 \in N + 1 .. N + k
      BY <1>1
  <2>2. Who(N + 1)' # Who(n)'
      BY <1>6, <2>1 DEF IsLast
  <2>3. log[n].sub # s
      BY <1>3, <1>4, <2>1, <2>2
  <2>4. DOMAIN log \subseteq DOMAIN log'
      BY <1>1
  <2>5. IsLast(n, DOMAIN log)
      BY <1>3, <1>6, <2>4 DEF IsLast
  <2> QED  BY <1>2, <1>3, <2>3, <2>5
<1>7. InTurn' /\ PlansTell'
  <2>1. DOMAIN log \subseteq DOMAIN log'
      BY <1>1
  <2> QED  BY <1>6, <2>1, TellsAside
<1>8. ASSUME NEW n \in DOMAIN log', IsLast(n, DOMAIN log)'
      PROVE  log'[n].st = stat'[log'[n].sub]
  <2>1. CASE n \in DOMAIN log
      BY <1>6, <1>8, <2>1 DEF LogTells
  <2>2. CASE n \in N + 1 .. N + k
      BY <1>1, <1>2, <2>2
  <2> QED  BY <1>5, <2>1, <2>2
<1>9. ASSUME NEW t \in Subs, Live(t)'
      PROVE  \E n \in DOMAIN log' : log'[n].sub = t /\ IsLast(n, DOMAIN log)'
  <2>1. CASE t = s
    <3>1. N + k \in DOMAIN log' /\ N + k \in N + 1 .. N + k
        BY <1>1
    <3>2. IsLast(N + k, DOMAIN log)'
        BY <1>1 DEF IsLast
    <3>3. log'[N + k].sub = s
        BY <1>1, <3>1
    <3> QED  BY <2>1, <3>1, <3>2, <3>3
  <2>2. CASE t # s
    <3>1. Live(t) /\ owner[t] # owner[s]
        BY <1>2, <1>9, <2>2 DEF Live
    <3>2. PICK n \in DOMAIN log : log[n].sub = t /\ IsLast(n, DOMAIN log)
        BY <3>1 DEF LogTells
    <3>3. Who(n)' = owner[t] /\ Who(n) = owner[t]
        BY <1>3, <3>2
    <3>4. ASSUME NEW j \in DOMAIN log', j > n
          PROVE  Who(j)' # Who(n)'
      <4>1. CASE j \in DOMAIN log
          BY <1>3, <3>2, <3>4, <4>1 DEF IsLast
      <4>2. CASE j \in N + 1 .. N + k
          BY <1>4, <3>1, <3>3, <4>2
      <4> QED  BY <1>5, <4>1, <4>2
    <3>5. IsLast(n, DOMAIN log)'
        BY <3>4 DEF IsLast
    <3> QED  BY <1>1, <3>2, <3>5
  <2> QED  BY <2>1, <2>2
<1>10. ASSUME NEW n \in DOMAIN log', log'[n].kind = "subscription", ~First(n)'
       PROVE  \E m \in 1 .. n - 1 : /\ log'[m].sub = log'[n].sub
                                    /\ \A j \in m + 1 .. n - 1 : Who(j)' # Who(n)'
  <2>1. CASE n \in DOMAIN log
    <3>1. ~First(n)
        BY <1>1, <1>10, <2>1 DEF First
    <3>2. PICK m \in 1 .. n - 1 : /\ log[m].sub = log[n].sub
                                  /\ \A j \in m + 1 .. n - 1 : Who(j) # Who(n)
        BY <1>10, <2>1, <3>1 DEF LogTells
    <3>3. m \in DOMAIN log /\ \A j \in m + 1 .. n - 1 : j \in DOMAIN log
        BY <1>1, <2>1
    <3>4. log'[m].sub = log'[n].sub
        BY <2>1, <3>2, <3>3
    <3>5. \A j \in m + 1 .. n - 1 : Who(j)' # Who(n)'
        BY <1>3, <2>1, <3>2, <3>3
    <3> QED  BY <3>4, <3>5
  <2>2. CASE n \in N + 1 .. N + k
    <3>1. CASE k = 1
      <4>1. n = N + 1 /\ log'[n].sub = s /\ Who(n)' = owner[s]
          BY <1>1, <1>4, <2>2, <3>1
      <4>2. PICK m \in DOMAIN log : log[m].sub = s /\ IsLast(m, DOMAIN log)
          BY <3>1
      <4>3. m \in 1 .. n - 1 /\ log'[m].sub = s /\ Who(m) = owner[s]
          BY <1>1, <1>3, <4>1, <4>2
      <4>4. \A j \in m + 1 .. n - 1 : j \in DOMAIN log /\ j > m
          BY <1>1, <4>1
      <4>5. \A j \in m + 1 .. n - 1 : Who(j)' # Who(n)'
          BY <1>3, <4>1, <4>2, <4>3, <4>4 DEF IsLast
      <4> QED  BY <4>1, <4>3, <4>5
    <3>2. CASE k = 2
      <4>1. n = N + 1 \/ n = N + 2
          BY <1>1, <2>2, <3>2
      <4>2. log'[N + 2].kind = "checkout" /\ N + 2 \in DOMAIN log' /\ N + 1 + 1 = N + 2
          BY <1>1, <3>2
      <4>3. First(N + 1)'
          BY <4>2 DEF First
      <4> QED  BY <1>10, <4>1, <4>2, <4>3
    <3> QED  BY <3>1, <3>2
  <2> QED  BY <1>5, <2>1, <2>2
<1>11. ASSUME NEW n \in DOMAIN log', First(n)'
       PROVE  log'[n + 1].sub = log'[n].sub
  <2>1. n + 1 \in DOMAIN log' /\ log'[n + 1].kind = "checkout" /\ n \in Nat
      BY <1>1, <1>11 DEF First
  <2>2. n + 1 # N + 1
      BY <1>1, <2>1
  <2>3. CASE n + 1 \in DOMAIN log
    <3>1. n \in DOMAIN log
        BY <1>1, <2>3, <2>1, <1>11
    <3>2. First(n)
        BY <2>1, <2>3 DEF First
    <3> QED  BY <2>3, <3>1, <3>2 DEF LogTells
  <2>4. CASE n + 1 \in N + 1 .. N + k
    <3>1. n \in N + 1 .. N + k
        BY <1>1, <2>1, <2>2, <2>4
    <3> QED  BY <1>1, <2>4, <3>1
  <2> QED  BY <1>5, <2>1, <2>3, <2>4
<1>12. ASSUME NEW n \in DOMAIN log', log'[n].kind = "checkout"
       PROVE  log'[n].st = "active"
  <2>1. CASE n \in DOMAIN log
      BY <1>12, <2>1 DEF LogTells
  <2>2. CASE n \in N + 1 .. N + k
    <3>1. n # N + 1
        BY <1>1, <1>12
    <3>2. k = 2
        BY <1>1, <2>2, <3>1
    <3> QED  BY <1>1, <2>2, <3>2
  <2> QED  BY <1>5, <2>1, <2>2
<1> QED  BY <1>7, <1>8, <1>9, <1>10, <1>11, <1>12 DEF LogTells

LEMMA PayTells ==
    ASSUME BillInv, LogTells, InTurn, PlansTell, faults = {}, NEW s \in Subs, Pay(s)
    PROVE  LogTells' /\ InTurn' /\ PlansTell'
<1> DEFINE d == Event("subscription", s, "active")
           e == Event("checkout", s, "active")
<1>1. /\ stat[s] = "open" /\ stat' = [stat EXCEPT ![s] = "active"] /\ log' = log \o <<d, e>>
      /\ \A t \in Subs : owner[t] = owner[s] => ~Live(t)
      /\ UNCHANGED <<owner, customer, acked, recorded, row, plan, handlers>>
    BY DEF Pay, Emit
<1>2. d.sub = s /\ e.sub = s /\ d.st = "active" /\ e.st = "active"
      /\ d.kind = "subscription" /\ e.kind = "checkout"
    BY DEF Event
<1>3. log \in Seq(EventRecord) /\ Len(log) \in Nat
    BY DEF BillInv, LogInv
<1>4. d \in EventRecord /\ e \in EventRecord
    BY EventType DEF Statuses
<1> HIDE DEF d, e
<1>5. /\ Len(log') = Len(log) + 2 /\ DOMAIN log' = 1 .. Len(log')
      /\ \A n \in DOMAIN log : log'[n] = log[n]
      /\ log'[Len(log) + 1] = d /\ log'[Len(log) + 2] = e
    BY <1>1, <1>3, <1>4
<1>6. \A n \in Len(log) + 1 .. Len(log) + 2 : log'[n].sub = s /\ log'[n].st = "active"
    BY <1>2, <1>3, <1>5
<1>7. "active" \in Statuses
    BY DEF Statuses
<1>8. log'[Len(log) + 1].kind = "subscription" /\ log'[Len(log) + 2].kind = "checkout"
    BY <1>2, <1>5
<1>9. \A t \in Subs : Live(t) /\ owner[t] = owner[s] => t = s
    BY <1>1
<1>10. PICK k \in {1, 2} : k = 2
    OBVIOUS
<1>11. PICK st \in Statuses : st = "active"
    BY <1>7
<1>12. /\ Len(log') = Len(log) + k
       /\ \A n \in Len(log) + 1 .. Len(log) + k : log'[n].sub = s /\ log'[n].st = st
       /\ k # 1
       /\ stat' = [stat EXCEPT ![s] = st]
    BY <1>1, <1>5, <1>6, <1>10, <1>11
<1>13. DOMAIN log' = 1 .. Len(log') /\ \A n \in DOMAIN log : log'[n] = log[n]
    BY <1>5
<1>14. UNCHANGED <<owner, customer, acked, recorded, row, plan, handlers>>
    BY <1>1
<1> QED  BY <1>8, <1>9, <1>11, <1>12, <1>13, <1>14, NewEvents, ZenonT(60)

LEMMA ChangeTells ==
    ASSUME BillInv, LogTells, InTurn, PlansTell, NEW s \in Subs, Change(s)
    PROVE  LogTells' /\ InTurn' /\ PlansTell'
<1>1. PICK st \in {"active", "unpaid", "canceled"} :
          /\ stat' = [stat EXCEPT ![s] = st]
          /\ log' = log \o <<Event("subscription", s, st)>>
    BY DEF Change, Emit
<1>2. Live(s) /\ UNCHANGED <<owner, customer, acked, recorded, row, plan, handlers>>
    BY DEF Change
<1> DEFINE d == Event("subscription", s, st)
<1>3. st \in Statuses
    BY DEF Statuses
<1>4. d \in EventRecord /\ d.sub = s /\ d.st = st /\ d.kind = "subscription"
    BY <1>3, EventType DEF Event
<1>5. log \in Seq(EventRecord) /\ Len(log) \in Nat
    BY DEF BillInv, LogInv
<1>6. log' = log \o <<d>>
    BY <1>1
<1> HIDE DEF d
<1>7. /\ Len(log') = Len(log) + 1 /\ DOMAIN log' = 1 .. Len(log')
      /\ \A n \in DOMAIN log : log'[n] = log[n]
      /\ log'[Len(log) + 1] = d
    BY <1>4, <1>5, <1>6
<1>8. \A n \in Len(log) + 1 .. Len(log) + 1 : log'[n].sub = s /\ log'[n].st = st
    BY <1>4, <1>5, <1>7
<1>9. PICK n \in DOMAIN log : log[n].sub = s /\ IsLast(n, DOMAIN log)
    BY <1>2 DEF LogTells
<1>10. ASSUME NEW t \in Subs, Live(t), owner[t] = owner[s]
       PROVE  t = s
  <2>1. PICK m \in DOMAIN log : log[m].sub = t /\ IsLast(m, DOMAIN log)
      BY <1>10 DEF LogTells
  <2>2. Who(m) = Who(n)
      BY <1>9, <1>10, <2>1 DEF Who
  <2>3. ~(m > n) /\ ~(n > m)
      BY <1>9, <2>1, <2>2 DEF IsLast
  <2>4. m \in Nat /\ n \in Nat
      BY EventFacts
  <2>5. m = n
      BY <2>3, <2>4
  <2> QED  BY <1>9, <2>1, <2>5
<1>11. /\ log'[Len(log) + 1].kind = "subscription"
       /\ \E m \in DOMAIN log : log[m].sub = s /\ IsLast(m, DOMAIN log)
       /\ \A t \in Subs : Live(t) /\ owner[t] = owner[s] => t = s
    BY <1>4, <1>7, <1>9, <1>10
<1>12. PICK k \in {1, 2} : k = 1
    OBVIOUS
<1>13. /\ Len(log') = Len(log) + k
       /\ \A m \in Len(log) + 1 .. Len(log) + k : log'[m].sub = s /\ log'[m].st = st
       /\ k # 2
    BY <1>7, <1>8, <1>12
<1>14. /\ stat' = [stat EXCEPT ![s] = st] /\ DOMAIN log' = 1 .. Len(log')
       /\ \A m \in DOMAIN log : log'[m] = log[m]
    BY <1>1, <1>7
<1> QED  BY <1>2, <1>3, <1>11, <1>13, <1>14, NewEvents

-----------------------------------------------------------------------------
(* The gateway's steps. *)

LEMMA TellsSame ==
    ASSUME LogTells, UNCHANGED stripeVars
    PROVE  LogTells'
BY DEF LogTells, stripeVars, IsLast, Who, Live, First

(* Event n, next in turn, has been applied to its user -- unless it is that *)
(* of a payment, which a user without a row does not get.                  *)
LEMMA Applied ==
    ASSUME BillInv, LogTells, InTurn, PlansTell, UNCHANGED stripeVars,
           NEW n \in DOMAIN log, n \notin acked, 1 .. n - 1 \subseteq acked,
           acked' = acked \cup {n}, NEW st \in Statuses,
           \/ UNCHANGED <<row, plan>> /\ First(n)
           \/ /\ ApplySubscription(Who(n), log[n].sub, st)
              /\ ~First(n) /\ IsLast(n, DOMAIN log) => st = log[n].st
    PROVE  PlansTell'
<1>1. /\ Who(n) \in Users /\ log[n].sub \in Subs /\ n \in Nat
      /\ acked \subseteq DOMAIN log /\ DOMAIN log = 1 .. Len(log)
    BY EventFacts DEF BillInv, EffectsInv
<1>2. UNCHANGED <<log, owner, customer, stat>>
    BY DEF stripeVars
<1>3. /\ row \in [Users -> RowRecord \cup {None}] /\ plan \in [Users -> {"free", "pro"}]
      /\ customer[log[n].sub] \in Subs
    BY EventFacts DEF BillInv, RowsInv, StripeInv
<1>4. /\ \A u \in Users : u # Who(n) => row'[u] = row[u] /\ plan'[u] = plan[u]
      /\ First(n) \/ (/\ row'[Who(n)] = Row(log[n].sub, st)
                      /\ plan'[Who(n)] = PlanFor(st)
                      /\ IsLast(n, DOMAIN log) => st = log[n].st)
    BY <1>1, <1>3 DEF ApplySubscription
<1>5. \A m \in DOMAIN log : /\ Who(m)' = Who(m) /\ (First(m)' <=> First(m))
                            /\ (IsLast(m, DOMAIN log)' <=> IsLast(m, DOMAIN log))
    BY <1>2 DEF Who, First, IsLast
<1>6. ASSUME NEW u \in Users, plan'[u] = "pro"
      PROVE  \E m \in acked' : Who(m)' = u
  <2>1. CASE u = Who(n)
      BY <1>5, <2>1
  <2>2. CASE u # Who(n)
    <3>1. PICK m \in acked : Who(m) = u
        BY <1>4, <1>6, <2>2 DEF PlansTell
    <3> QED  BY <1>1, <1>5, <3>1
  <2> QED  BY <2>1, <2>2
<1>7. ASSUME NEW m \in acked', ~First(m)', IsLast(m, acked)'
      PROVE  /\ row'[Who(m)'] # None /\ row'[Who(m)'].customer = customer'[log'[m].sub]
             /\ IsLast(m, DOMAIN log)' => plan'[Who(m)'] = PlanFor(log'[m].st)
  <2>1. m \in DOMAIN log /\ ~First(m) /\ Who(m)' = Who(m)
      BY <1>1, <1>5, <1>7
  <2>2. CASE m = n
    <3>1. Row(log[n].sub, st).customer = customer[log[n].sub]
        BY DEF Row
    <3>2. Row(log[n].sub, st) \in RowRecord /\ Row(log[n].sub, st) # None
        BY <1>1, <1>3, BillingAssumption DEF Row, RowRecord
    <3> QED  BY <1>2, <1>4, <1>5, <2>1, <2>2, <3>1, <3>2
  <2>3. CASE m # n
    <3>1. m \in acked /\ m \in Nat
        BY <1>1, <1>7, <2>1, <2>3
    <3>2. n > m
        BY <1>1, <2>3, <3>1 DEF InTurn
    <3>3. Who(n) # Who(m)
        BY <1>5, <1>7, <2>1, <3>2 DEF IsLast
    <3>4. IsLast(m, acked)
        BY <1>1, <1>5, <1>7 DEF IsLast
    <3>5. Who(m) \in Users
        BY <2>1, EventFacts
    <3> QED  BY <1>2, <1>4, <1>5, <2>1, <3>1, <3>3, <3>4, <3>5 DEF PlansTell
  <2> QED  BY <2>2, <2>3
<1> QED  BY <1>6, <1>7 DEF PlansTell, PlanFor

(* Nothing comes out of turn, twice at a time, or again. *)
LEMMA DueNext ==
    ASSUME BillInv, InTurn, faults = {}, NEW n \in DOMAIN log, Due(n)
    PROVE  n \notin acked /\ n \notin recorded /\ 1 .. n - 1 \subseteq acked
           /\ \A h \in handlers : h.n # n
BY DEF Due, InTurn

LEMMA WebhookCheckoutTells ==
    ASSUME BillInv, LogTells, InTurn, PlansTell, faults = {},
           NEW n \in DOMAIN log, WebhookCheckout(n)
    PROVE  LogTells' /\ InTurn' /\ PlansTell'
<1> DEFINE h == [n |-> n, sub |-> log[n].sub, snap |-> None]
<1>1. Due(n) /\ log[n].kind = "checkout" /\ log[n].st = "active"
    BY DEF WebhookCheckout, Fresh, LogTells
<1>2. n \notin acked /\ n \notin recorded /\ 1 .. n - 1 \subseteq acked
    BY <1>1, DueNext
<1>3. /\ recorded' = recorded \cup {n} /\ handlers' = handlers \cup {h}
      /\ UNCHANGED <<stripeVars, acked, row, plan>>
    BY <1>1 DEF WebhookCheckout
<1>4. h.n = n /\ h.sub = log[n].sub /\ h.snap = None
    OBVIOUS
<1> HIDE DEF h
<1>5. LogTells'
    BY <1>3, TellsSame
<1>6. InTurn'
  <2>1. UNCHANGED <<log, owner, stat, acked>>
      BY <1>3 DEF stripeVars
  <2>2. \A m \in recorded' \ acked' : \E g \in handlers' : g.n = m
      BY <1>3, <1>4 DEF InTurn
  <2>3. ASSUME NEW g \in handlers'
        PROVE  /\ g.n \in DOMAIN log \ acked /\ 1 .. g.n - 1 \subseteq acked
               /\ log[g.n].kind = "checkout" /\ log[g.n].sub = g.sub
               /\ g.snap # None /\ IsLast(g.n, DOMAIN log) => g.snap = stat[g.sub]
      BY <1>1, <1>2, <1>3, <1>4 DEF InTurn
  <2> QED  BY <2>1, <2>2, <2>3 DEF InTurn, IsLast, Who
<1>7. PlansTell'
    BY <1>3 DEF PlansTell, stripeVars, IsLast, Who, First
<1> QED  BY <1>5, <1>6, <1>7

(* A user has the customer of the events before: the row is found. *)
LEMMA Found ==
    ASSUME BillInv, LogTells, InTurn, PlansTell, NEW n \in DOMAIN log, log[n].kind = "subscription",
           ~First(n), n \notin acked, 1 .. n - 1 \subseteq acked
    PROVE  Who(n) \in Knows(customer[log[n].sub])
<1>1. PICK m \in 1 .. n - 1 : /\ log[m].sub = log[n].sub
                              /\ \A j \in m + 1 .. n - 1 : Who(j) # Who(n)
    BY DEF LogTells
<1>2. /\ n \in Nat /\ m \in Nat /\ m \in acked /\ m \in DOMAIN log /\ Who(m) = Who(n)
      /\ acked \subseteq DOMAIN log /\ DOMAIN log = 1 .. Len(log) /\ Len(log) \in Nat
      /\ Who(n) \in Users
    BY <1>1, EventFacts DEF Who, BillInv, EffectsInv
<1>3. ASSUME NEW j \in acked, j > m
      PROVE  Who(j) # Who(m)
  <2>1. j < n
      BY <1>2 DEF InTurn
  <2>2. j \in m + 1 .. n - 1
      BY <1>2, <1>3, <2>1
  <2> QED  BY <1>1, <1>2, <2>2
<1>4. ~First(m)
  <2> SUFFICES ASSUME First(m) PROVE FALSE
      OBVIOUS
  <2>1. m + 1 \in DOMAIN log /\ log[m + 1].kind = "checkout" /\ log[m + 1].sub = log[m].sub
      BY <1>2 DEF First, LogTells
  <2>2. m + 1 # n
      BY <2>1
  <2>3. m + 1 \in m + 1 .. n - 1
      BY <1>1, <1>2, <2>2
  <2>4. Who(m + 1) = Who(n)
      BY <1>1, <2>1 DEF Who
  <2> QED  BY <1>1, <2>3, <2>4
<1>5. IsLast(m, acked)
    BY <1>3 DEF IsLast
<1>6. row[Who(n)] # None /\ row[Who(n)].customer = customer[log[n].sub]
    BY <1>1, <1>2, <1>4, <1>5 DEF PlansTell
<1> QED  BY <1>2, <1>6 DEF Knows

LEMMA WebhookSubscriptionTells ==
    ASSUME BillInv, LogTells, InTurn, PlansTell, faults = {},
           NEW n \in DOMAIN log, WebhookSubscription(n)
    PROVE  LogTells' /\ InTurn' /\ PlansTell'
<1>1. /\ Due(n) /\ log[n].kind = "subscription"
      /\ recorded' = recorded \cup {n} /\ acked' = acked \cup {n}
      /\ UNCHANGED <<stripeVars, handlers>>
    BY DEF WebhookSubscription, Fresh
<1>2. /\ n \notin acked /\ n \notin recorded /\ 1 .. n - 1 \subseteq acked
      /\ \A h \in handlers : h.n # n
    BY <1>1, DueNext
<1>3. LogTells'
    BY <1>1, TellsSame
<1>4. n \in Nat /\ log[n].sub \in Subs /\ stat[log[n].sub] # "none" /\ log[n].st \in Statuses
    BY EventFacts
<1>5. InTurn'
  <2>1. UNCHANGED <<log, owner, stat, handlers>>
      BY <1>1 DEF stripeVars
  <2>2. \A m \in acked' : 1 .. m \subseteq acked'
      BY <1>1, <1>2, <1>4 DEF InTurn
  <2>3. \A m \in recorded' \ acked' : \E g \in handlers : g.n = m
      BY <1>1 DEF InTurn
  <2>4. ASSUME NEW g \in handlers
        PROVE  /\ g.n \in DOMAIN log \ acked' /\ 1 .. g.n - 1 \subseteq acked'
               /\ log[g.n].kind = "checkout" /\ log[g.n].sub = g.sub
               /\ g.snap # None /\ IsLast(g.n, DOMAIN log) => g.snap = stat[g.sub]
      BY <1>1, <1>2 DEF InTurn
  <2> QED  BY <2>1, <2>2, <2>3, <2>4 DEF InTurn, IsLast, Who
<1>6. CASE Knows(customer[log[n].sub]) = {} /\ UNCHANGED <<row, plan, torn>>
  <2>1. First(n)
      BY <1>1, <1>2, <1>6, Found
  <2>2. PlansTell'
      BY <1>1, <1>2, <1>4, <1>6, <2>1, Applied
  <2> QED  BY <1>3, <1>5, <2>2
<1>7. CASE \E u \in Knows(customer[log[n].sub]) : ApplySubscription(u, log[n].sub, log[n].st)
  <2>1. PICK u \in Knows(customer[log[n].sub]) : ApplySubscription(u, log[n].sub, log[n].st)
      BY <1>7
  <2>2. u = Who(n)
      BY <1>4, <2>1, KnownOwner DEF BillInv, Who
  <2>3. PICK st \in Statuses : st = log[n].st
      BY <1>4
  <2>4. ApplySubscription(Who(n), log[n].sub, st)
      BY <2>1, <2>2, <2>3
  <2>5. PlansTell'
      BY <1>1, <1>2, <2>3, <2>4, Applied
  <2> QED  BY <1>3, <1>5, <2>5
<1> QED  BY <1>6, <1>7 DEF WebhookSubscription

LEMMA AnswerTells ==
    ASSUME BillInv, LogTells, InTurn, PlansTell, NEW h \in handlers, Answer(h)
    PROVE  LogTells' /\ InTurn' /\ PlansTell'
<1> DEFINE g == [h EXCEPT !.snap = stat[h.sub]]
<1>1. /\ handlers' = (handlers \ {h}) \cup {g}
      /\ UNCHANGED <<stripeVars, acked, recorded, row, plan>>
    BY DEF Answer
<1>2. g.n = h.n /\ g.sub = h.sub /\ g.snap = stat[h.sub]
  <2>1. h \in Handler
      BY HandlerFacts
  <2> QED  BY <2>1 DEF Handler
<1> HIDE DEF g
<1>3. LogTells'
    BY <1>1, TellsSame
<1>4. InTurn'
  <2>1. UNCHANGED <<log, owner, stat, acked, recorded>>
      BY <1>1 DEF stripeVars
  <2>2. \A m \in recorded \ acked : \E f \in handlers' : f.n = m
      BY <1>1, <1>2 DEF InTurn
  <2>3. ASSUME NEW f \in handlers'
        PROVE  /\ f.n \in DOMAIN log \ acked /\ 1 .. f.n - 1 \subseteq acked
               /\ log[f.n].kind = "checkout" /\ log[f.n].sub = f.sub
               /\ f.snap # None /\ IsLast(f.n, DOMAIN log) => f.snap = stat[f.sub]
      BY <1>1, <1>2 DEF InTurn
  <2>4. \A m \in acked : 1 .. m \subseteq acked
      BY DEF InTurn
  <2> QED  BY <2>1, <2>2, <2>3, <2>4 DEF InTurn, IsLast, Who
<1>5. PlansTell'
    BY <1>1 DEF PlansTell, stripeVars, IsLast, Who, First
<1> QED  BY <1>3, <1>4, <1>5

LEMMA FinishTells ==
    ASSUME BillInv, LogTells, InTurn, PlansTell, NEW h \in handlers, Finish(h)
    PROVE  LogTells' /\ InTurn' /\ PlansTell'
<1>1. /\ h.n \in DOMAIN log /\ h.n \notin acked /\ 1 .. h.n - 1 \subseteq acked
      /\ log[h.n].kind = "checkout" /\ log[h.n].sub = h.sub
      /\ h.snap # None /\ (IsLast(h.n, DOMAIN log) => h.snap = stat[h.sub])
    BY DEF InTurn, Finish
<1>2. h.n \in Nat /\ h.n # 0 /\ h.snap \in Statuses
    BY <1>1, HandlerFacts, EventFacts
<1>3. /\ handlers' = handlers \ {h} /\ acked' = acked \cup {h.n}
      /\ ApplySubscription(owner[h.sub], h.sub, h.snap)
      /\ UNCHANGED <<stripeVars, recorded>>
    BY <1>2 DEF Finish
<1>4. LogTells'
    BY <1>3, TellsSame
<1>5. \A g \in handlers' : g.n # h.n
    BY <1>2, <1>3 DEF BillInv, HandlersInv
<1>6. InTurn'
  <2>1. UNCHANGED <<log, owner, stat>>
      BY <1>3 DEF stripeVars
  <2>2. \A m \in acked' : 1 .. m \subseteq acked'
      BY <1>1, <1>2, <1>3 DEF InTurn
  <2>3. \A m \in recorded' \ acked' : \E g \in handlers' : g.n = m
      BY <1>3 DEF InTurn
  <2>4. ASSUME NEW g \in handlers'
        PROVE  /\ g.n \in DOMAIN log \ acked' /\ 1 .. g.n - 1 \subseteq acked'
               /\ log[g.n].kind = "checkout" /\ log[g.n].sub = g.sub
               /\ g.snap # None /\ IsLast(g.n, DOMAIN log) => g.snap = stat[g.sub]
      BY <1>3, <1>5 DEF InTurn
  <2> QED  BY <2>1, <2>2, <2>3, <2>4 DEF InTurn, IsLast, Who
<1>7. PlansTell'
  <2>1. /\ Who(h.n) = owner[h.sub]
        /\ IsLast(h.n, DOMAIN log) => h.snap = log[h.n].st
      BY <1>1 DEF LogTells, Who
  <2>2. ApplySubscription(Who(h.n), log[h.n].sub, h.snap)
      BY <1>1, <1>3, <2>1
  <2> QED  BY <1>1, <1>2, <1>3, <2>1, <2>2, Applied
<1> QED  BY <1>4, <1>6, <1>7

LEMMA FollowStep == FollowInv /\ [BillNext]_billVars => FollowInv'
<1> SUFFICES ASSUME FollowInv, [BillNext]_billVars PROVE FollowInv'
    OBVIOUS
<1>1. BillInv /\ BillInv' /\ faults' = faults
    BY BillStep DEF FollowInv, BillNext, billVars
<1>2. SUFFICES ASSUME faults = {} PROVE LogTells' /\ InTurn' /\ PlansTell'
    BY <1>1 DEF FollowInv
<1>3. LogTells /\ InTurn /\ PlansTell
    BY <1>2 DEF FollowInv
<1>4. ASSUME NEW s \in Subs,
             Pay(s) \/ Change(s) \/ VisitPage(s) \/ \E u \in Users : OpenCheckout(u, s)
      PROVE  LogTells' /\ InTurn' /\ PlansTell'
    BY <1>1, <1>2, <1>3, <1>4, PayTells, ChangeTells, OpenCheckoutTells DEF VisitPage
<1>5. ASSUME NEW n \in DOMAIN log, Webhook(n)
      PROVE  LogTells' /\ InTurn' /\ PlansTell'
  <2>1. ~Redelivered(n)
      BY <1>1, <1>2, <1>3, DueNext DEF Redelivered
  <2> QED  BY <1>1, <1>2, <1>3, <1>5, <2>1, WebhookCheckoutTells, WebhookSubscriptionTells
           DEF Webhook
<1>6. ASSUME NEW h \in handlers, Answer(h) \/ Finish(h) \/ Fail(h)
      PROVE  LogTells' /\ InTurn' /\ PlansTell'
    BY <1>1, <1>2, <1>3, <1>6, AnswerTells, FinishTells DEF Fail
<1>7. CASE UNCHANGED billVars
  <2>1. UNCHANGED <<stripeVars, acked, recorded, row, plan, handlers>>
      BY <1>7 DEF billVars
  <2>2. UNCHANGED <<stat, owner, customer, log>>
      BY <2>1 DEF stripeVars
  <2>3. LogTells'
      BY <1>3, <2>1, TellsSame
  <2>4. InTurn'
      BY <1>3, <2>1, <2>2 DEF InTurn, IsLast, Who
  <2>5. PlansTell'
      BY <1>3, <2>1, <2>2 DEF PlansTell, IsLast, Who, First
  <2> QED  BY <2>3, <2>4, <2>5
<1>8. ~Crash
    BY <1>2 DEF Crash
<1> QED  BY <1>4, <1>5, <1>6, <1>7, <1>8 DEF BillNext

-----------------------------------------------------------------------------
(* A user's events have a last one. *)
LEMMA LastEvent ==
    ASSUME BillInv, NEW m \in DOMAIN log
    PROVE  \E n \in DOMAIN log : Who(n) = Who(m) /\ IsLast(n, DOMAIN log)
<1>1. DOMAIN log = 1 .. Len(log) /\ Len(log) \in Nat
    BY EventFacts
<1>2. PICK N \in Nat : N = Len(log)
    BY <1>1
<1>3. PICK S \in SUBSET Nat : S = {N - j : j \in {i \in DOMAIN log : Who(i) = Who(m)}}
  <2>1. {N - j : j \in {i \in DOMAIN log : Who(i) = Who(m)}} \in SUBSET Nat
      BY <1>1, <1>2
  <2> QED  BY <2>1
<1>4. N - m \in S
    BY <1>3
<1>5. S # {} /\ S \in SUBSET Nat
    BY <1>4
<1> DEFINE Less == {p \in Nat \X Nat : p[1] < p[2]}
<1>6. PICK k \in S : \A i \in S : k <= i
  <2>1. IsWellFoundedOn(Less, Nat)
      BY NatLessThanWellFounded DEF OpToRel
  <2> HIDE DEF Less
  <2>2. PICK k \in S : \A i \in S : <<i, k>> \notin Less
      BY <1>5, <2>1, WFMin
  <2>3. ASSUME NEW i \in S
        PROVE  k <= i
    <3>1. i \in Nat /\ k \in Nat /\ <<i, k>> \notin Less
        BY <1>5, <2>2
    <3>2. ~(i < k)
        BY <3>1 DEF Less
    <3> QED  BY <3>1, <3>2
  <2> QED  BY <2>3
<1>7. PICK n \in DOMAIN log : k = N - n /\ Who(n) = Who(m)
    BY <1>3
<1>8. ASSUME NEW j \in DOMAIN log, j > n
      PROVE  Who(j) # Who(n)
  <2> SUFFICES ASSUME Who(j) = Who(n) PROVE FALSE
      OBVIOUS
  <2>1. N - j \in S
      BY <1>3, <1>7
  <2>2. N - n <= N - j
      BY <1>6, <1>7, <2>1
  <2> QED  BY <1>1, <1>2, <1>8, <2>2
<1> QED  BY <1>7, <1>8 DEF IsLast

(***************************************************************************)
(* Without faults, once every event is acknowledged and no handler is left,*)
(* the plan is the one of the user's subscription (billing_webhook,        *)
(* apply_event).                                                           *)
(***************************************************************************)
THEOREM PlanFollowsStripe == BillSpec => []PlanFollows
<1>1. ASSUME FollowInv PROVE PlanFollows
  <2> SUFFICES ASSUME faults = {}, Quiet, NEW u \in Users
               PROVE  plan[u] = "pro" <=> \E s \in Subs : owner[s] = u /\ PlanFor(stat[s]) = "pro"
      BY DEF PlanFollows, PlansAgree
  <2>1. BillInv /\ LogTells /\ PlansTell /\ acked = DOMAIN log
      BY <1>1 DEF FollowInv, Quiet
  <2>2. ASSUME NEW n \in DOMAIN log, IsLast(n, DOMAIN log)
        PROVE  plan[Who(n)] = PlanFor(stat[log[n].sub])
    <3>1. ~First(n)
      <4> SUFFICES ASSUME First(n) PROVE FALSE
          OBVIOUS
      <4>1. n + 1 \in DOMAIN log /\ log[n + 1].sub = log[n].sub /\ n + 1 > n
          BY <2>1, EventFacts DEF First, LogTells
      <4> QED  BY <2>2, <4>1 DEF IsLast, Who
    <3> QED  BY <2>1, <2>2, <3>1 DEF LogTells, PlansTell
  <2>3. ASSUME plan[u] = "pro"
        PROVE  \E s \in Subs : owner[s] = u /\ PlanFor(stat[s]) = "pro"
    <3>1. PICK m \in DOMAIN log : Who(m) = u
        BY <2>1, <2>3 DEF PlansTell
    <3>2. PICK n \in DOMAIN log : Who(n) = u /\ IsLast(n, DOMAIN log)
        BY <2>1, <3>1, LastEvent
    <3>3. log[n].sub \in Subs
        BY <2>1, EventFacts
    <3> QED  BY <2>2, <2>3, <3>2, <3>3 DEF Who
  <2>4. ASSUME NEW s \in Subs, owner[s] = u, PlanFor(stat[s]) = "pro"
        PROVE  plan[u] = "pro"
    <3>1. Live(s)
        BY <2>4 DEF PlanFor, Live
    <3>2. PICK n \in DOMAIN log : log[n].sub = s /\ IsLast(n, DOMAIN log)
        BY <2>1, <3>1 DEF LogTells
    <3> QED  BY <2>2, <2>4, <3>2 DEF Who
  <2> QED  BY <2>3, <2>4
<1> QED  BY <1>1, FollowStart, FollowStep, PTL DEF BillSpec

-----------------------------------------------------------------------------
(* Every event acknowledged so far has been applied, but for those that    *)
(* open a subscription; their checkout is the next event.                  *)
OpeningsOnly == \A n \in acked : times[n] = 1 \/ First(n)

LEMMA TookThis ==
    ASSUME BillInv, OpeningsOnly, NEW n \in DOMAIN log, Took(n), times[n] = 0,
           acked' = acked \cup {n}, log' = log
    PROVE  OpeningsOnly'
<1>1. times'[n] = 1 /\ \A m \in 1 .. MaxEvents[faults] : m # n => times'[m] = times[m]
    BY TookOnce
<1>2. acked \subseteq 1 .. MaxEvents[faults]
  <2>1. acked \subseteq DOMAIN log
      BY DEF BillInv, EffectsInv, LogInv
  <2> QED  BY <2>1, LogFacts
<1>3. \A m \in acked : First(m)' <=> First(m)
    BY DEF First
<1> QED  BY <1>1, <1>2, <1>3 DEF OpeningsOnly

(* An event finds its user unless it opens the subscription. *)
LEMMA WebhookOpenings ==
    ASSUME BillInv, LogTells, InTurn, PlansTell, OpeningsOnly, faults = {},
           NEW n \in DOMAIN log, Webhook(n)
    PROVE  OpeningsOnly'
<1>1. CASE Redelivered(n)
    BY <1>1, DueNext DEF Redelivered
<1>2. CASE WebhookCheckout(n)
  <2>1. log[n].st = "active" /\ UNCHANGED <<log, times>>
      BY <1>2 DEF WebhookCheckout, Fresh, LogTells, stripeVars
  <2>2. acked' = acked
      BY <1>2, <2>1 DEF WebhookCheckout
  <2> QED  BY <2>1, <2>2 DEF OpeningsOnly, First
<1>3. CASE WebhookSubscription(n)
  <2>1. /\ Due(n) /\ log[n].kind = "subscription" /\ n \notin recorded
        /\ acked' = acked \cup {n} /\ log' = log
      BY <1>3 DEF WebhookSubscription, Fresh, stripeVars
  <2>2. n \notin acked /\ 1 .. n - 1 \subseteq acked
      BY <2>1, DueNext
  <2>3. CASE Knows(customer[log[n].sub]) = {} /\ UNCHANGED times
    <3>1. First(n)
        BY <2>1, <2>2, <2>3, Found
    <3> QED  BY <2>1, <2>3, <3>1 DEF OpeningsOnly, First
  <2>4. CASE Took(n)
    <3>1. times[n] = 0
        BY <2>1, LogFacts DEF BillInv, EffectsInv
    <3> QED  BY <2>1, <2>4, <3>1, TookThis
  <2> QED  BY <1>3, <2>3, <2>4 DEF WebhookSubscription
<1> QED  BY <1>1, <1>2, <1>3 DEF Webhook

LEMMA OpeningsStep ==
    ASSUME FollowInv, faults = {}, OpeningsOnly, [BillNext]_billVars
    PROVE  OpeningsOnly'
<1>1. BillInv /\ LogTells /\ InTurn /\ PlansTell
    BY DEF FollowInv
<1>2. ASSUME DOMAIN log \subseteq DOMAIN log', \A n \in DOMAIN log : log'[n] = log[n],
             UNCHANGED <<acked, times>>
      PROVE  OpeningsOnly'
  <2>1. \A n \in DOMAIN log : First(n) => First(n)'
      BY <1>2 DEF First
  <2>2. acked \subseteq DOMAIN log
      BY <1>1 DEF BillInv, EffectsInv, LogInv
  <2> QED  BY <1>2, <2>1, <2>2 DEF OpeningsOnly
<1>3. CASE \E s \in Subs : Pay(s) \/ Change(s)
  <2>1. PICK es : log' = log \o es /\ es \in Seq(EventRecord) /\ UNCHANGED <<acked, times>>
    <3>1. PICK s \in Subs : Pay(s) \/ Change(s)
        BY <1>3
    <3>2. CASE Pay(s)
      <4>1. PICK st \in {"active", "incomplete"} :
                Emit(<<Event("subscription", s, st), Event("checkout", s, st)>>)
          BY <3>2 DEF Pay
      <4>2. st \in Statuses
          BY DEF Statuses
      <4>3. <<Event("subscription", s, st), Event("checkout", s, st)>> \in Seq(EventRecord)
          BY <4>2, EventType
      <4> QED  BY <3>2, <4>1, <4>3 DEF Pay, Emit
    <3>3. CASE Change(s)
      <4>1. PICK st \in {"active", "unpaid", "canceled"} : Emit(<<Event("subscription", s, st)>>)
          BY <3>3 DEF Change
      <4>2. st \in Statuses
          BY DEF Statuses
      <4>3. <<Event("subscription", s, st)>> \in Seq(EventRecord)
          BY <4>2, EventType
      <4> QED  BY <3>3, <4>1, <4>3 DEF Change, Emit
    <3> QED  BY <3>1, <3>2, <3>3
  <2>2. log \in Seq(EventRecord)
      BY <1>1 DEF BillInv, LogInv
  <2>3. DOMAIN log \subseteq DOMAIN log' /\ \A n \in DOMAIN log : log'[n] = log[n]
      BY <2>1, <2>2
  <2> QED  BY <1>2, <2>1, <2>3
<1>4. ASSUME UNCHANGED <<log, acked, times>>
      PROVE  OpeningsOnly'
    BY <1>4 DEF OpeningsOnly, First
<1>5. CASE \E s \in Subs : VisitPage(s) \/ \E u \in Users : OpenCheckout(u, s)
    BY <1>4, <1>5 DEF VisitPage, OpenCheckout, stripeVars
<1>6. CASE \E n \in DOMAIN log : Webhook(n)
    BY <1>1, <1>6, WebhookOpenings
<1>7. CASE \E h \in handlers : Answer(h) \/ Fail(h)
    BY <1>4, <1>7 DEF Answer, Fail, stripeVars
<1>8. CASE \E h \in handlers : Finish(h)
  <2>1. PICK h \in handlers : Finish(h)
      BY <1>8
  <2>2. h.n \in DOMAIN log
      BY <1>1 DEF InTurn
  <2>3. h.n # 0 /\ times[h.n] = 0
      BY <1>1, <2>2, LogFacts DEF BillInv, EffectsInv
  <2>4. Took(h.n) /\ acked' = acked \cup {h.n} /\ log' = log
      BY <2>1, <2>3 DEF Finish, stripeVars
  <2> QED  BY <1>1, <2>2, <2>3, <2>4, TookThis
<1>9. CASE UNCHANGED billVars
    BY <1>4, <1>9 DEF billVars, stripeVars
<1>10. ~Crash
    BY DEF Crash
<1> QED  BY <1>3, <1>5, <1>6, <1>7, <1>8, <1>9, <1>10 DEF BillNext

(***************************************************************************)
(* Without faults no event is dropped but those that announce a            *)
(* subscription ahead of the checkout that makes its customer known        *)
(* (apply_event, by_customer).                                             *)
(***************************************************************************)
THEOREM OrderlyApplied == BillSpec => []OrderlyIsApplied
<1> DEFINE OrderlyInv == FollowInv /\ (faults = {} => OpeningsOnly)
<1>1. BillInit => OrderlyInv
    BY FollowStart DEF BillInit, OpeningsOnly
<1>2. OrderlyInv /\ [BillNext]_billVars => OrderlyInv'
  <2> SUFFICES ASSUME OrderlyInv, [BillNext]_billVars PROVE OrderlyInv'
      OBVIOUS
  <2>1. FollowInv' /\ faults' = faults
      BY FollowStep DEF BillNext, billVars
  <2> QED  BY <2>1, OpeningsStep
<1>3. OrderlyInv => OrderlyIsApplied
  <2> SUFFICES ASSUME FollowInv, OpeningsOnly, faults = {}, NEW n \in acked, times[n] # 1
               PROVE  \E m \in n + 1 .. Len(log) : PaidCheckout(m) /\ log[m].sub = log[n].sub
      BY DEF OrderlyIsApplied
  <2>1. BillInv /\ LogTells /\ First(n)
      BY DEF FollowInv, OpeningsOnly
  <2>2. n \in DOMAIN log
      BY <2>1 DEF BillInv, EffectsInv, LogInv
  <2>3. n + 1 \in DOMAIN log /\ PaidCheckout(n + 1) /\ log[n + 1].sub = log[n].sub
      BY <2>1, <2>2 DEF First, LogTells, PaidCheckout
  <2>4. n + 1 \in n + 1 .. Len(log)
      BY <2>1, <2>2, <2>3, EventFacts
  <2> QED  BY <2>3, <2>4
<1> QED  BY <1>1, <1>2, <1>3, PTL DEF BillSpec
=============================================================================
