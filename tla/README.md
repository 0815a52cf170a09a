# A verification project for the OpenDSS designer gateway

The gateway (`src/src/opendss_gateway`) is one asyncio process that stands
between browsers and a few OpenDSS engine workers. It identifies callers, hands
out workers, meters engine seconds against a plan's budget, streams long runs,
signs people in and follows their Stripe subscriptions. This directory holds
TLA+ models of it, the TLC runs that check them on small instances, and TLAPS
proofs for every instance. File names below are relative to
`src/src/opendss_gateway` unless they say otherwise.

How to run: `tlc -config X.cfg M` for a row of the table of runs, `tlapm M.tla` for
`SchedulerLemmas`, `SchedulerProofs`, `SlotsProofs`, `LoopProofs`, `GatewayProofs`,
`BillingProofs`, `PlanProofs` and `AuthProofs`. `PROJECT.json` maps each
definition to the lines it models and lists the hazards, the findings and, for
each property, a plausible bug that would break it. Those bugs are the operators
with a `\*` comment that stand before the definition they are a variant of; no
specification uses them.

## Inventory

One event loop runs everything; SQLite is called inline. So a stretch of code
between two `await`s is atomic, and every hard behaviour is about what happens
at an `await` or a `yield`.

| component | state | operations | talks to |
| --- | --- | --- | --- |
| Scheduler (`scheduler.py`) | free list, heap of waiters, usage by pool and by client, draining flag, the futures | `acquire`, `Lease.release`, `_dispatch`, `_forget`, `drain` | called by the proxy; wakes waiters through futures |
| Proxy (`app.py` 533-747) | per call: where it is suspended, its lease, the upstream response, the acquire task of a stream | `_engine_call`, `_stream_call` and its generator, `_passthrough`, `aclose` | scheduler, workers (httpx), ledger, the browser |
| Ledger and budgets (`ledger.py`, `plans.py`) | `runs` (one row per call), `usage` (total per client and period) | `used`, `record`, `recent` | read on admission, written at the end of a run |
| Billing (`billing.py`, `app.py` 422-521) | `subscriptions`, `stripe_events`, `users.plan` | checkout, success page, portal, webhook | Stripe: questions, events, hosted pages |
| Sign-in and sessions (`auth.py`, `app.py` 154-173, 297-404) | `users`, `identities`, `magic_tokens`, session epochs, two rate windows; in the browsers, two signed cookies | magic link request and verification, OAuth start and callback, sign-out, `identify`, `finish` | mailer, GitHub, Google |
| Store (`store.py`) | one SQLite file, one lock, autocommit except `sign_in` and `record` | one method per statement | every component above |
| Pass-through, headers | a round-robin iterator | `_passthrough`, header filters | workers |
| Configuration, pages, mailer | none that changes | parsing, rendering, one delivery | - |

What is hard, by component, and what makes it correct:

- **Scheduler.** A grant is made by one task and seen later by another, and in
  between a timer or a cancellation may strike, drain may start, and others may
  be granted or released. Correct means: a worker is with one request at a time
  and none is lost; the counters that the caps and limits are tested against are
  exact; caps and limits hold; nobody is overtaken by a lower priority; no
  worker idles while someone could use it; every waiter is answered; drain
  admits nothing and reports truthfully.
- **Proxy.** An engine call may fail at any await; a stream may lose its consumer
  at any await (`CancelledError`) or at any yield (`GeneratorExit`), and its
  acquire task runs beside it. Correct means: one call per worker, also while a
  response is being closed; every run charged once; every lease given back;
  every call ends.
- **Ledger.** The budget is read before the body and before the wait, midnight may
  pass during a run, and the store may be closed under it at shutdown. Correct
  means: a run is charged to the budget that admitted it, and a new period begins
  with all of its own.
- **Billing.** Stripe retries, repeats and reorders events, the process may die
  between two commits, and an answer from Stripe is applied after a suspension.
  Correct means: no event is applied twice, a paid checkout is not lost, Pro is
  paid for, and the plan ends as Stripe has it.
- **Sign-in.** Links are mailed, lost, posted twice and purged; a restart forgets
  the rate windows but not the table; a callback is suspended while the provider
  is asked; a response brings a cookie decided long before. Correct means: links
  are rationed, work once, and work for their time; a session is in the browser
  and of the account it was opened for; a sign-out everywhere is final; an
  address has one account.

## Modules

| module | what it is |
| --- | --- |
| `Scheduler` | `scheduler.py`, one action per stretch between suspensions; the invariants and `IInv` |
| `DispatchLoop` | the loop of `_dispatch`, an iteration per step, on the scheduler's variables |
| `WorkerSlots` | the abstract promise: who has which worker, without queue, timers or futures |
| `SchedulerSlots` | the refinement of `WorkerSlots` by `Scheduler` |
| `SchedulerLemmas`, `SchedulerProofs`, `SlotsProofs` | the proofs: one dispatch, the invariants, the refinement |
| `Gateway` | EXTENDS `Scheduler`: engine calls, streams, the ledger and shutdown composed with it |
| `Metering` | the abstract promise of budgets: who is let in, has a worker, and is charged when it is given back |
| `GatewayMeter` | the refinement of `Metering` by `Gateway` |
| `Billing` | plans and payments, with Stripe as the environment |
| `MagicLinks` | sign-in links: rate windows, the table of nonces, expiry, purge, restart |
| `Auth` | EXTENDS `MagicLinks`: OAuth flows, accounts, cookies, epochs, refresh, sign-out |
| `Sessions` | the abstract promise of signing in: a credential opens one session, and sign-out everywhere ends all |
| `AuthSessions` | the refinement of `Sessions` by `Auth` |
| `LoopProofs` | the loop of `_dispatch` is `Dispatch`, for any number of waiters |
| `GatewayProofs` | `GwInv`, the five invariants that follow from it, that the gateway is a scheduler and what that gives, and that it implements `Metering` |
| `BillingProofs` | `BillInv` and the four invariants that follow from it; `ReportInv` and `RowIsReported` |
| `PlanProofs` | `FollowInv`, and that without faults the plan follows Stripe |
| `AuthProofs` | `AuthInv`, `RateInv`, the seven invariants that follow from them, and that sign-in implements `Sessions` |
| `MC...` | instances for TLC |

### Scheduler

A request `r` is one call of `acquire()` and, later, its lease. `pc[r]` says
where its task is (`new`, `waiting` on the future, `leased`, `released`, or how
`acquire` failed); `fut[r]` is the state of its future. The two differ exactly
in the gap between a grant and the resumption of the task. `waiting` is the set
of waiters in the heap, and `seq` their arrival numbers; `free`, `poolInuse` and
`clientInuse` are `_free`, `_pool_inuse` and `_client_inuse`. `mustCancel` is
what asyncio keeps on a task whose cancellation came when its future was already
done: it will see `CancelledError` in place of the result.

`_dispatch` never suspends, so it is one operator, `Dispatch`: the waiters it
grants are the set `G` in which each live waiter is granted exactly when, after
those granted before it, a worker is left and it is eligible (`IsGrant`). It
also drops the abandoned waiters that the loop pops (`Discarded`). That this is
what the loop does is not assumed: `DispatchLoop` runs it from every heap of four
waiters, and `LoopProofs` proves for any number that it ends with such a `G`, that
there is only one, and that heap, free list, counters and slots agree.

`Acquire`, `Refuse`, `Release`, `DrainStart` and `DrainReturn` are the entry
points; `TakeLease`, `HandBack`, `Forget` and `FailDraining` are the ways a
suspended `acquire` resumes; `GiveUp` is the timer of `wait_for` or a
cancellation. Time is not modelled: a timer may fire whenever it is set, which
includes every order a clock would allow.

### Gateway

`step[r]` is where the handler or the generator is suspended; `task[r]` is the
stream's acquire task; `open[r]` the upstream response. Leaving comes in four
forms, by where the generator is: `LeavePoll` (in `asyncio.wait`), `LeaveComment`
(at `: open` or `: queued`), `LeaveAwait` (at the worker), `LeaveYield` (at a chunk
or an error event). Starlette cancels the task that sends the response; if that
is inside the generator it sees `CancelledError`, and if the generator is
suspended at a `yield` it is later closed with `GeneratorExit`. Closing an open
response is itself an await (`closing`), after which lease and ledger are
settled in one step (`Settle`). Seconds are counted in runs: 1 for a run whose
seconds are reported or whose wall time is charged, 0 for one charged nothing.
A budget of one run is then enough to tell "spent" from "unspent".

A call is of one of three kinds: `engine`, `stream`, or `pass`, the pass-through,
which has no budget and takes no worker (`PassSend`, `PassEnd`). The ledger's
rows carry the period they are charged to: `day` is the clock of `period_key`,
which `Midnight` advances, and `period[r]` the value read when `r` was admitted.

`Metering` says the same without routes, steps or queues: a run asks once, is let in
unless its client's budget is used up, takes a worker once, and once it has called it
can only go on by giving it back, in a step that also charges it (or finds the ledger closed).
`GatewayMeter` gives the mapping. A request is `Inside` until it is over, and a
stream also while its acquire task has, or may yet get, a worker: a leaked worker
of `gateway_orphan` is one that is `held` for ever and never `at`.

`aclose()` is `DrainStart`, `DrainReturn`, `CloseStore`. Uvicorn waits for open
connections, for at most `drain_s + 5` seconds, before the lifespan ends and
`aclose()` runs; the model lets drain start at any time, which covers this.

### Billing

`stat`, `owner`, `customer`, `paid` and `log` are Stripe's; `recorded`, `row` and
`plan` are the tables; `handlers` are the webhooks and success pages suspended
on a question to Stripe, first without and then with an answer in hand.
`active` stands for the three statuses that are Pro; `unpaid`, `incomplete` and
`canceled` for the others that matter. `faults` is the set of things that may go
wrong in a behavior, chosen at the start, so that a property can be conditional
on their absence and each set has its own bound on events. `times` and `torn` are
history variables: how often an event was applied to a user, and whose row a crash left
without the plan that goes with it. An event that `apply_event` only drops, that of an
unpaid checkout or of a subscription whose customer no row names, is acknowledged
and does not count as applied.

Two events of Stripe's are left out because they change nothing: a redelivery of
an event whose 200 was lost, which `record_event` turns into a stutter, and a
second visit of a success page (`visited`), which would only repeat a question.
The second is a bound: a page left open and loaded again much later is one more
stale answer, of the kind that the single visit already shows.

### Auth and MagicLinks

An account is called by its address, since `users.email` is unique and never
changes. A link is a number `n`: `links[n]` holds the claims that its token
carries and who asked for it, `magic[n]` what the row of its nonce says. `ipHits` and
`emailHits` are the lists of the two `_RateWindow`s. Mail is the environment's:
`MailArrives` puts a link into somebody's hands, and a mail that fails is one
that never arrives. The GET of the confirmation page changes nothing and is left
out, like every request that is refused: it is a stutter.

A flow `f` is one `/auth/{provider}/start`; `state[b]` is the flow that browser `b`'s
`odg_oauth` cookie names. `OAuthCallback` ends at the await of `exchange_code` and
`Exchanged` or `ExchangeFails` begins after it; `exchanges` are those suspended
there. A code works once, which is the provider's promise (`spent`), and is taken to belong
to the flow whose `state` it comes back with. `cookie[b]` is
what the session cookie says; `root` (the epoch at its sign-in) and `via` (the
link or flow that opened it) are history, as are `spent`, `start` and `client` of a link and `reached`. A
request that is identified with a cookie due for renewal stays in `refreshes`
until its response arrives (`Respond`), whatever happens to the browser's cookie
meanwhile; responses that renew nothing change nothing. Whether a form carries
the user's CSRF token is a free choice in `SignOut`. The secret is taken to be configured, so that a
restart keeps all signatures good; it empties the windows and cuts off what is
suspended, also between the two commits of `magic_verify` (`Restart`).

A rate window forgets hits at its front until one is young enough: `Popped(q)` is how
many, and it stops at the first that is not `TooOld`, whatever comes behind it.

`Sessions` knows no cookies: there are sessions, each of a user and opened by a credential;
a credential is used once; sessions end; a sign-out everywhere and a disabling end all
sessions of a user at once. In `AuthSessions` a session is live while some cookie, in a browser
or in a response on its way, has the epoch that its user has now and the user is not disabled.
Expiry is left to `Auth`: a cookie that is past its age stands for its session until it is
gone, so that renewing it in time is a stutter of `Sessions`.

## Runs

| run | instance | shows |
| --- | --- | --- |
| `scheduler` | 4 requests, 2 workers, guest cap 1, queue 2; 441 000 states | the ten safety properties of `Scheduler` |
| `scheduler_live` | 3 requests, 2 workers; 78 000 states | no lost wakeup; drain sees the last run end; `Scheduler` implements `WorkerSlots` |
| `dispatch_loop` | 4 waiters, 2 workers, any start; 67 000 states | the loop is `Dispatch` |
| `gateway` | 3 engine or streaming calls, 1 worker, queue 1; 2.8 million states | one call per worker, charged once, engine leases returned |
| `gateway_live` | 2 calls of three kinds, 1 worker, 1 midnight; 117 000 states | every admitted call ends; a run is charged to the period that admitted it; `Gateway` implements `Metering` |
| `billing` | 2 users, 2 checkouts; 8 events without faults, 4 with; 189 000 states | Pro is paid for; a row shows what Stripe has reported of its subscription, and the plan follows the row; no event is applied twice; no paid checkout is lost unless a question failed or a process died; without faults the only events dropped are those ahead of their own checkout, and the plan follows Stripe |
| `auth` | 2 addresses, 2 browsers, 2 providers, six cases; 485 000 states | links are rationed, work once and for their time; a bump reaches every session; sessions are where they belong; one account per address; `Auth` implements `Sessions` |
| `scheduler_queue`, `gateway_orphan`, `gateway_abandoned`, `billing_deferred`, `auth_linking` | small | a counterexample each, see Findings |

**Bounds.** With two workers and four requests, two can hold while two wait, so a
blocked waiter ahead of a runnable one, two grants in one dispatch, a hand-back
while others wait, and a full queue all occur. The casts mix two guest addresses
under a cap of one, and one member before and after an upgrade, so that pool
caps, per-caller limits that change between requests, and priorities all bind.
Requests and workers are interchangeable (`Init` and `Next` treat them alike), so
the safety runs use symmetry; the liveness runs do not. The gateway's run has
one worker because its question is what happens between two calls at the same
worker; a queue of one makes a third caller be refused, wait or be served,
depending on the order. One midnight is enough for a run to be admitted before
and charged after it, and for another to be admitted on the new day. The budget of the
metered client is one run, so the second call meets it unspent, in use or used up.

In billing, two subscriptions are the least for a re-subscription and for events
of an old subscription; `MaxEvents` bounds what Stripe emits. Four events are two
payments side by side, or one followed by two changes; a re-subscription needs
five, and the case without faults has room for both subscriptions to be paid and
to change twice.

Sign-in has too many independent parts to bound each generously at once. A quota
(`Quotas`, chosen at the start like `faults`) bounds the clock, links, flows,
responses in flight, bumps, address changes, disablings and restarts of a case,
and `MCAuth` runs six: many links over a long time; links and a restart; two flows
with refreshes, a bump and a moved address; two flows and a restart; a link beside
a flow, with everything; and all methods at once at one moment. `ManyLinks`, with
three links over three ticks, is what an off-by-one of the window needs. Times are
compressed but keep their order: a link and a state live 1, a row 2, the window
is 2 long, a cookie is due for renewal after more than 0 and dead after more
than 1. The two addresses, browsers, clients and providers are interchangeable.

**Fairness.** `Fairness` (scheduler): the event loop runs every ready task, every
lease is released because each run ends, and drain keeps polling. No timer has to
fire and no caller has to give up, so `NoLostWakeup` rests on releases alone.
`GwFairness` (gateway): the same for handlers, generators and acquire tasks; bodies
arrive or fail; httpx has a read timeout and the worker bounds a run, so an
answer comes; consumers read on or leave; the timer of `acquire` fires. Strong
fairness is used once, for the end of a stream: between chunks the generator is
again and again at the point where the stream may end, and it is not endless.
Nobody is ever obliged to leave. Billing has no liveness property: what must
eventually hold is stated at the quiet states (`Quiet`). Sign-in has none either:
nothing in it is obliged to happen, as mail may be lost and a browser may close.

**Deadlock** checking is off everywhere: each request runs once, each bounded log
ends, and the system then stops.

## Findings

| run | what the code does |
| --- | --- |
| `scheduler_queue` | the queue bound counts waiters that cannot run: guests blocked by their own cap fill the queue, and a member is refused while a worker is idle, against `scheduler.py:7-8` |
| `gateway_orphan` | a consumer who leaves in the moment the acquire task finished, or at `: queued`, leaves a worker leased for ever, against `scheduler.py:57` |
| `gateway_abandoned` | a run abandoned at a chunk is charged nothing, against `app.py:721-723` |
| `billing_deferred` | a webhook answered 503 has recorded its event and its retry is dropped, against the comment at `app.py:517` |
| `auth_linking` | a GitHub or Google account whose address has changed still signs in to its old account, while its new address by any other method is another account, against `src/README.md:66` |

`PlansAgree` is the promise that the plan follows the subscription (`src/README.md:84-86`), and
`PlanFollows` says that it is kept without faults. Each single fault breaks it; to see one, take its set for the
domain of `MaxEvents` and check `PlansAgree`:

- `retry`: while a checkout's handler holds the answer "active", a redelivery of its event is
  acknowledged as a duplicate; the cancellation that follows is acknowledged and dropped, as of an unknown
  customer (`billing.py:218-219`); the stale answer then makes the user Pro for good;
- `reorder`: an older event that arrives late is applied over a newer one, and the user of
  a cancelled subscription stays Pro; the loss under `retry` is possible here too;
- `delayed`: a payment that completes after its checkout never makes the user Pro, because the
  checkout is dropped as unpaid (`billing.py:211-212`) and the events after it as of an unknown
  customer, although the success page says that Pro comes within a minute (`app.py:473-474`);
- `stripe_error` and `crash`: the loss that `billing_deferred` shows;
- `page`: the answer of a success page, made stale by a webhook;
- `second`: one subscription ends while the other is live.

In the first three no paid checkout is lost (`PaidIsApplied`) and nothing is applied twice
(`AppliedOnce`); what goes missing is an event of a subscription, dropped or undone.

Some disagreements of code and expectation are listed as hazards only, because no
document promises otherwise: the budget is tested before the wait, so calls
already admitted run although others have spent the balance meanwhile
(`ImplementsMetering` covers what is promised: nobody is let in on a balance already spent); and a
response in flight brings the cookie back to a browser that has signed out of
this browser only.

## Proofs

`SchedulerProofs` proves, for every finite non-empty set of workers, every set of
requests (finite or not), every set of jobs with integer priorities and limits,
and all caps (`WorkersAssumption`, `JobsAssumption`, `CapsAssumption`):

- `Invariance`: `Spec => []IInv`, and from it the eight invariants of the run
  `scheduler`: `TypeCorrect`, `Exclusion`, `Accounting`, `PoolCapsHold`,
  `ConcurrencyHolds`, `NoIdleWorkerHolds`, `HeapExactHolds`, `DrainExactHolds`;
- `Order` and `DrainAdmits`: the action properties `NoOvertaking` and
  `DrainAdmitsNothing`.

`SlotsProofs` proves `Implementation`: `Spec => ImplementsSlots`, that is, every
behavior of `Scheduler` is one of `WorkerSlots`. A step that dispatches maps to
`Serve`, or to `Return` once the gateway drains; `DrainStart` and `DrainReturn`
map to `Close`; all others leave holders, grants and slots alone (`Stutters`).
`Moves` turns the result of a dispatch into a `Move` of the abstract state, and
needs `IInv` for the workers of all holders to differ.

**Why `IInv`.** None of the invariants is inductive alone. That a capped pool stays
within its cap needs the counters to be exact, which needs holders and free
workers to be disjoint and finite; that no worker idles needs the heap to hold
every live waiter; that the waiters are ordered strictly needs distinct arrival
numbers (`ArrivalsOK`); and a request that has not called `acquire` must have no
future (`PhasesOK`), or a grant could be counted twice.

**How it goes.** Only two kinds of step change holders: an arrival and a give-back
(release or hand-back), and both end in `Dispatch`. `SchedulerLemmas` treats one
dispatch, whatever called it. `Ranks` says that the waiters ahead of each other
number the grants from 1, so that the front of the free list is dealt without
collision (`GrantExclusive`); `LastWaiter` that a non-empty finite set of waiters
has a last one, which carries the caps and limits, as it was tested with all the
others counted (`GrantCaps`, `GrantLimits`); `GrantExact` and `GrantIdle` give the
counters and the idle workers; `GrantOrder` that nobody ahead of a granted waiter
would have been eligible in its place. `DispatchStep` collects them.
`SchedulerProofs` then has one lemma per action, and `NextIInv` puts them
together.

`LoopProofs` proves `LoopDispatches`, for finitely many requests: whatever heap, futures, free
list and counters the loop of `_dispatch` starts from, it ends with the one result of
`Dispatch`. All theorems about the scheduler rest on this: they are about `Dispatch`. The
invariant of the loop (`Within`) is `IsGrant` among the waiters popped so far, which are ahead of
all that are still in the heap. So when a waiter is popped, those granted are exactly the
ones ahead of it (`PopFacts`), and testing it against the counters as they stand is
testing its turn; later grants come behind it and cannot change its turn. That there is no
other such set is `OneGrant`: the first waiter that two of them disagree on would have
the same ones ahead of it in both.

`GatewayProofs` proves, for all requests, kinds, workers, caps and budgets (the
scheduler's assumptions and `BudgetAssumption`), the invariants of the run `gateway`:
`GwTypes`, `OneCall`, `RunsChargedOnce` and `EngineReleases`; for finitely many requests also
`BudgetsStartAnew`, the invariant of `gateway_live`; and `GatewaySchedules`: `GwSpec => Spec`.
This last one is what makes the composition worth its name: whatever is proved of
the scheduler alone holds with the handlers, generators and shutdown around it, and
`GatewayKeepsPromises` (the seven invariants), `GatewayOrder` (the two action properties) and
`GatewayImplementsSlots` state so. The inductive invariant `GwInv` adds
two things to `IInv`. `Phase` says where a request is in `acquire` when its handler is at
a given step: at the worker, or closing, only with a lease; a stream whose task has not
begun has not entered `acquire`; an engine call that is over has no lease and waits for
none. A stream that is over may do both, which is the leak of `gateway_orphan`, and
`Phase` leaves room for it. `Entered` says that a row is written in the step that
releases. It needs `DrainExact` of `IInv`: a release after `drain` returned is only possible
if it gave up, so a closed store loses a row only then (`Settles`). A step of one
request leaves the others as they were (`Local`, `LocalInv`), so each lemma is about one
request.

`RunsMetered` proves `GwSpec => ImplementsMetering`. By `GwInv`, whoever is at a worker has its
lease and whoever has a lease is inside (`Standing`), and the total that admission reads
counts what `Metering` counts (`SameTally`). Every step changes the standing of one request
only (`OthersStay`), so each action maps by what it does to its own request: `Admit` to `Ask`;
steps of `acquire` to `Take` or, if they fail, to `Leave`; the poll that finds a lease to `Call`;
the end of the finally clause to `GiveBack`; and whatever happens in between to a `Leave` that
nobody makes.

`BillingProofs` proves, for all users, checkouts, faults and bounds
(`BillingAssumption`), `BillTypes`, `EventsAppliedOnce`, `PaidApplied`, `ProPaid` and
`RowsReported`, and `PlanProofs` `PlanFollowsStripe` and `OrderlyApplied`: the seven invariants of
the run `billing`. The inductive invariant `BillInv` has five parts: checkouts and
customers belong to one user each and the log of events tells of them (`StripeInv`,
`LogInv`); a row names a subscription its user opened (`RowsInv`); an event has at most one
handler, and a handler that has seen a subscription active saw it paid (`HandlersInv`); an event
that is not recorded, or whose handler is still to apply it, has not been applied, and a
paid checkout that is recorded has been or has its handler, unless something failed
(`EffectsInv`). What Stripe knows only grows (`StripeGrows`), so a stale answer may be old but
never about somebody else (`KnownOwner`); `RowWritten` then covers every write, torn ones
included.

`RowsReported` needs more than `BillInv`: that every status a subscription has is in the log
(`StatusesTold`), and that an answer in a handler's hands is of a status in the log
(`AnswersTold`). `ReportInv` joins them to the property, and is inductive because the log only
grows: what was true of a subscription when Stripe answered is still reported when the
answer is applied, however late and whatever was applied in between.

`FollowInv` strengthens `BillInv` for behaviors without faults, by three parts. `LogTells`: the
last event about each user tells the status that its subscription has now, and a
live subscription has such an event. `InTurn`: events are taken one at a time and in turn,
so the events acknowledged are the first ones, and a handler at work is that of
the next; its answer from Stripe may be newer than its event, but is current when no
later event exists. `PlansTell`: once a user's latest acknowledged event is past the
opening one, the user's row has the customer, and if it is the last event about
the user, the plan is the one it says. The delicate step is an event that finds its user
by the customer alone: the row is there because an earlier event of the same
subscription has been applied (`Found`). The same lemma gives `OrderlyApplied`: an event that is
dropped for want of a row is the opening one of its subscription (`OpeningsOnly`), and
the log has the paid checkout right after it.

`AuthProofs` proves, for all sets of addresses, clients, browsers, providers and
subjects, all ages and limits in `Nat` with `MagicMaxAge < PurgeAfter`, and all quotas
(`LinksAssumption`, `AuthAssumption`): `AuthTypes`, `LinksSpentOnce`, `UnspentLinksWork`,
`SignOutIsFinal`, `OwnFlows`, `AddressesKeepTheirAccount` and `LinksRationed`, the seven invariants of
the run `auth`. The first six follow from one inductive invariant, `AuthInv`. Its parts: a row of
`magic_tokens` tells how often its link was spent, and is purged only when old
(`RowsTell`); state cookies and callbacks name flows of their browser (`FlowShape`);
identities and disablings refer to accounts that exist (`AccountShape`); identities
agree with the providers until one moves (`Reaches`); and the claims of every cookie, in a
browser or in a response, are `Sound`. `Sound` is the strengthening that matters: a
cookie's epoch is the one of its sign-in, however often it was renewed, and never
above the user's. What makes it inductive is `KeepsSound`: flows, epochs and
identities only grow (`Grows`), so no step can unmake sound claims, and an action
has only to justify the cookie it writes (`SessionStep`). `AuthStep` has one lemma
per group of actions.

`LinksRationed` rests on a second invariant, `RateInv`. A window forgets hits, counts hits
for which no link went out, and looks at one hour only, while the property speaks of every
hour; so the count of a window cannot be compared with that of the links directly. `Backed` compares
them: each link of the last hour has a hit of its own in the window (an injection).
Popping old hits from the front keeps that, as none of them backs a young link
(`RecentBacks`); a refusal and a hit without a link keep it too (`RationedRefused`,
`RationedSpare`). When a link is granted, the hits left are fewer than the limit, hence so are
the links of the last hour (`BackedBound`), and an hour that contains the new link
contains no older ones than those (`RationedGranted`). A restart forgets all hits, and the
property counts the links since the last one.

`SessionsImplemented` proves `AuthSpec => ImplementsSessions`, and `OneSession` draws on it and on
`AuthInv`: `OneSessionEach` holds of the sessions of `Auth`. Most steps leave no cookie behind that was not
there before, up to the time of issue (`SameClaims`), and so can only end sessions
(`LiveFewer`, `Ends`); a sign-in uses up a credential that was not used (`LinkUsed`, `FlowUsed`) and
writes the one new cookie (`SignInOpens`); a bump and a disabling leave no live session of the user,
because no cookie has an epoch that its user has yet to reach (`Sound`).

**Only model-checked.** Liveness and everything under fairness (`NoLostWakeup`, `DrainTerminates`,
`EveryCallEnds`) are out of the prover's reach. All other properties of the passing runs are proved.

## Not modelled, and why

- Which worker the round-robin of the pass-through picks, and what the header
  filters drop: no shared state but an iterator.
- Pages, request ids and logging: text only.
- Configuration and start-up: environment variables are parsed once. What comes out
  enters the models as constants (`PoolCaps`, `MaxQueue`, `PerIp`, `EmailMode`, ...). One edge to
  know: `guest_workers` takes 0 for unset and is at least 1, so that with a single
  worker guests may hold it whatever is configured.
- How a mail is delivered: it arrives or it does not.
- Names and `last_seen` of users: nothing depends on them.
- A response that fails to close (`app.py:715`): whether httpx can raise there is
  a matter of the library; the model closes successfully, and the hazard is
  listed without a property.
- An upgrade between a run's admission and its end: budgets are all daily, so that a period
  ends at midnight only.
- Signatures (`verify_signature`, `Signer`) and CSRF tokens: cryptography is taken to work.
- A secret generated at each start: then a restart ends all sessions and links,
  which is documented and can only invalidate.
- `StripeError` is the failure of a question; other exceptions in a webhook end
  in a 500 with the same effect as the 503.

## Plan

Done: `Scheduler` with its proofs, `DispatchLoop`, `WorkerSlots`, `Gateway` with the
ledger's periods and the pass-through, `Metering`, `Billing`, `MagicLinks`, `Auth` and
`Sessions`, each with proofs. Left: an abstract specification of billing beside
`Metering` and `Sessions`, in which a plan only ever moves to what some subscription of the
user's was; and corrected variants as alternative specifications: a stream that
releases what its task obtained, and a webhook that records and applies in one
transaction and asks Stripe for what it applies, with the violated properties
shown to hold of them.
