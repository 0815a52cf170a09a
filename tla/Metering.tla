------------------------------- MODULE Metering -------------------------------
(***************************************************************************)
(* What the budgets promise, without routes, streams or queues.  A run is  *)
(* let in while the budget of its client is not used up, and gets a worker *)
(* once.  If it calls it, it gives it back, and in that very step it is    *)
(* charged, once, to the period whose budget let it in -- unless the ledger*)
(* has been closed (README.md:30, ledger.py:1-5).                          *)
(***************************************************************************)
EXTENDS Naturals, FiniteSets

CONSTANTS
    Runs,
    Budget   \* what a client may be charged in a period; others have no limit

VARIABLES
    today,   \* the period it is
    client,  \* client[r]: who is charged for r; fixed
    asked,   \* the runs that have asked to be let in
    since,   \* since[r]: the period in which r asked
    inside,  \* the runs let in that are not over
    held,    \* the runs that have a worker
    at,      \* the runs that have called it
    bill,    \* bill[r]: what r is charged
    ledger   \* "open" or "closed"

meterVars == <<today, client, asked, since, inside, held, at, bill, ledger>>

MeterInit ==
    /\ today = 0
    /\ asked = {} /\ inside = {} /\ held = {} /\ at = {}
    /\ since = [r \in Runs |-> 0]
    /\ bill = [r \in Runs |-> <<>>]
    /\ ledger = "open"

Item(p, s) == [period |-> p, seconds |-> s]

Charged(c) == Cardinality({r \in Runs : client[r] = c /\ bill[r] = <<Item(today, 1)>>})

UsedUp(c) == c \in DOMAIN Budget /\ Charged(c) >= Budget[c]

(* A run asks, once; a budget that is used up lets nobody in. *)
Ask(r) ==
    /\ r \notin asked
    /\ asked' = asked \cup {r}
    /\ since' = [since EXCEPT ![r] = today]
    /\ \/ inside' = inside
       \/ inside' = inside \cup {r} /\ ~UsedUp(client[r])
    /\ UNCHANGED <<today, client, held, at, bill, ledger>>

(* Runs end before they get a worker: refused, timed out, abandoned. *)
Leave ==
    /\ held \subseteq inside' /\ inside' \subseteq inside
    /\ UNCHANGED <<today, client, asked, since, held, at, bill, ledger>>

Take(r) ==
    /\ r \in inside \ held
    /\ held' = held \cup {r}
    /\ at' \in {at, at \cup {r}}
    /\ UNCHANGED <<today, client, asked, since, inside, bill, ledger>>

Call(r) ==
    /\ r \in held \ at
    /\ at' = at \cup {r}
    /\ UNCHANGED <<today, client, asked, since, inside, held, bill, ledger>>

(* The worker is given back and its run charged. *)
GiveBack(r) ==
    /\ r \in at
    /\ held' = held \ {r} /\ at' = at \ {r} /\ inside' = inside \ {r}
    /\ \/ ledger = "closed" /\ bill' = bill
       \/ /\ ledger = "open" /\ bill[r] = <<>>
          /\ \E s \in {0, 1} : bill' = [bill EXCEPT ![r] = <<Item(since[r], s)>>]
    /\ UNCHANGED <<today, client, asked, since, ledger>>

NewPeriod ==
    /\ today' = today + 1
    /\ UNCHANGED <<client, asked, since, inside, held, at, bill, ledger>>

Close ==
    /\ ledger = "open" /\ ledger' = "closed"
    /\ UNCHANGED <<today, client, asked, since, inside, held, at, bill>>

MeterNext ==
    \/ \E r \in Runs : Ask(r) \/ Take(r) \/ Call(r) \/ GiveBack(r)
    \/ Leave \/ NewPeriod \/ Close

MeterSpec == MeterInit /\ [][MeterNext]_meterVars
=============================================================================
