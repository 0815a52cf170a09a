------------------------------- MODULE Gateway -------------------------------
(***************************************************************************)
(* The proxy (app.py): engine calls and streaming calls, over the scheduler*)
(* they take workers from and the ledger they are charged to, and the calls*)
(* that are passed through beside them.  A step is what the event loop runs*)
(* between two suspensions of one handler, generator or acquire task; the  *)
(* steps of all of them, and of the scheduler's timers, interleave.        *)
(*                                                                         *)
(* Seconds are counted in runs: a run the worker reports, or whose wall    *)
(* time is charged, costs 1; a run charged nothing costs 0.                *)
(***************************************************************************)
EXTENDS Scheduler

CONSTANTS
    Kinds,   \* what a request may be: a subset of {"engine", "stream", "pass"}
    Budget,  \* budget_seconds: a function from the metered clients to runs
    MaxDay   \* bound on how often a budget period ends

ASSUME BudgetAssumption == MaxDay \in Nat /\ \A c \in DOMAIN Budget : Budget[c] \in Nat

VARIABLES
    day,     \* the budget period it is
    kind,    \* the route of the request; fixed
    period,  \* the budget period its handler read
    step,    \* where its handler, or the stream's generator, is suspended
    task,    \* the stream's acquire task: "none", "made", "begun", "killed"
    open,    \* the upstream response is open
    status,  \* the status the stream's ledger row will carry
    found,   \* the tail holds the final event with engineSeconds
    left,    \* the consumer went away after the worker was called
    rows,    \* the ledger rows of the request: periods and seconds
    store    \* "open", or "closed" by aclose()

admission == <<day, kind, period>>
gwVars == <<admission, step, task, open, status, found, left, rows, store>>
allVars == <<vars, gwVars>>

Row(p, seconds) == [period |-> p, seconds |-> seconds]

(* usage, Ledger.used: the seconds charged to client c in the period it is. *)
Used(c) ==
    Cardinality({r \in OfClient(Requests, c) :
                    \E i \in DOMAIN rows[r] : rows[r][i] = Row(day, 1)})

\* A budget that is just used up lets one more in.
OverLate(c) == c \in DOMAIN Budget /\ Used(c) > Budget[c]

Over(c) == c \in DOMAIN Budget /\ Used(c) >= Budget[c]

GwInit ==
    /\ Init
    /\ day = 0
    /\ kind \in [Requests -> Kinds]
    /\ period = [r \in Requests |-> 0]
    /\ step = [r \in Requests |-> "start"]
    /\ task = [r \in Requests |-> "none"]
    /\ open = [r \in Requests |-> FALSE]
    /\ status = [r \in Requests |-> "ok"]
    /\ found = [r \in Requests |-> FALSE]
    /\ left = [r \in Requests |-> FALSE]
    /\ rows = [r \in Requests |-> <<>>]
    /\ store = "open"

At(r, k, s) == kind[r] = k /\ step[r] = s
Go(r, s)    == step' = [step EXCEPT ![r] = s]

\* The run is entered a second time.
LedgerRecordTwice(r, seconds) ==
    rows' = [rows EXCEPT ![r] = @ \o <<Row(period[r], seconds), Row(period[r], seconds)>>]

\* The period is read again when the run is entered.
LedgerRecordToday(r, seconds) == rows' = [rows EXCEPT ![r] = Append(@, Row(day, seconds))]

(* Ledger.record: a row, and the running total that used reads, in one commit. *)
LedgerRecord(r, seconds) == rows' = [rows EXCEPT ![r] = Append(@, Row(period[r], seconds))]

(* _record: a write that fails is logged and forgotten. *)
Record(r, seconds) ==
    IF store = "open" THEN LedgerRecord(r, seconds) ELSE UNCHANGED rows

-----------------------------------------------------------------------------
(***************************************************************************)
(* The budget is read when the request arrives, before its body is read,   *)
(* and stops whoever needs the engine.                                     *)
(***************************************************************************)
Admit(r) ==
    /\ step[r] = "start"
    /\ store = "open"
    /\ period' = [period EXCEPT ![r] = day]
    /\ Go(r, IF kind[r] # "pass" /\ Over(job[r].client) THEN "done" ELSE "body")
    /\ UNCHANGED <<vars, day, kind, task, open, status, found, left, rows, store>>

(* The body is too large, or never arrives. *)
BodyFails(r) ==
    /\ step[r] = "body"
    /\ Go(r, "done")
    /\ UNCHANGED <<vars, admission, task, open, status, found, left, rows, store>>

(***************************************************************************)
(* _passthrough: the body goes to the next worker in turn, leased or not,  *)
(* and the answer, or the failure, ends the request.                       *)
(***************************************************************************)
PassSend(r) ==
    /\ At(r, "pass", "body")
    /\ Go(r, "forward")
    /\ UNCHANGED <<vars, admission, task, open, status, found, left, rows, store>>

PassEnd(r) ==
    /\ step[r] = "forward"
    /\ Go(r, "done")
    /\ UNCHANGED <<vars, admission, task, open, status, found, left, rows, store>>

(* Where an engine call is once acquire() left its task at p. *)
After(p) == CASE p = "leased"  -> "send"
              [] p = "waiting" -> "acquire"
              [] OTHER         -> "done"

(* _engine_call: the body is in, acquire() runs until it first suspends. *)
EngineAcquire(r) ==
    /\ At(r, "engine", "body")
    /\ Acquire(r) \/ Refuse(r)
    /\ Go(r, After(pc'[r]))
    /\ UNCHANGED <<admission, task, open, status, found, left, rows, store>>

(* acquire() resumes, and the call is sent to the worker or answered 503. *)
EngineResume(r) ==
    /\ At(r, "engine", "acquire")
    /\ Resume(r)
    /\ Go(r, After(pc'[r]))
    /\ UNCHANGED <<admission, task, open, status, found, left, rows, store>>

\* The error path returns before it records.
EngineEndUnrecorded(r) ==
    /\ At(r, "engine", "send")
    /\ Release(r)
    /\ \E seconds \in {0, 1} : IF seconds = 0 THEN UNCHANGED rows ELSE Record(r, seconds)
    /\ Go(r, "done")
    /\ UNCHANGED <<admission, task, open, status, found, left, store>>

\* The release is not in a finally clause: a call that fails skips it.
EngineEndKeeping(r) ==
    /\ At(r, "engine", "send")
    /\ \E seconds \in {0, 1} :
          /\ Record(r, seconds)
          /\ IF seconds = 0 THEN UNCHANGED vars ELSE Release(r)
    /\ Go(r, "done")
    /\ UNCHANGED <<admission, task, open, status, found, left, store>>

(***************************************************************************)
(* The worker answers, fails or the call is cancelled: the finally clause  *)
(* releases and records, with the seconds of the header or none.           *)
(***************************************************************************)
EngineEnd(r) ==
    /\ At(r, "engine", "send")
    /\ Release(r)
    /\ \E seconds \in {0, 1} : Record(r, seconds)
    /\ Go(r, "done")
    /\ UNCHANGED <<admission, task, open, status, found, left, store>>

-----------------------------------------------------------------------------
(* _stream_call answers; its generator starts and suspends at ": open". *)
StreamOpen(r) ==
    /\ At(r, "stream", "body")
    /\ Go(r, "open")
    /\ UNCHANGED <<vars, admission, task, open, status, found, left, rows, store>>

(* The consumer took a comment line: the generator waits on its acquire task. *)
Poll(r) ==
    /\ step[r] \in {"open", "queued"}
    /\ Go(r, "poll")
    /\ task' = [task EXCEPT ![r] = IF step[r] = "open" THEN "made" ELSE @]
    /\ UNCHANGED <<vars, admission, open, status, found, left, rows, store>>

(* The acquire task runs for the first time. *)
TaskBegins(r) ==
    /\ task[r] = "made"
    /\ Acquire(r) \/ Refuse(r)
    /\ task' = [task EXCEPT ![r] = "begun"]
    /\ UNCHANGED <<admission, step, open, status, found, left, rows, store>>

(* The acquire task resumes: it ends with a lease or an exception. *)
TaskResumes(r) ==
    /\ kind[r] = "stream"
    /\ Resume(r)
    /\ UNCHANGED gwVars

\* The generator looks for a lease, and misses a task that failed.
TaskDoneLeased(r) == task[r] = "begun" /\ pc[r] = "leased"

TaskDone(r) == task[r] = "begun" /\ pc[r] \notin {"new", "waiting"}

(* Ten seconds without a worker: ": queued". *)
PollTimer(r) ==
    /\ step[r] = "poll"
    /\ ~TaskDone(r)
    /\ Go(r, "queued")
    /\ UNCHANGED <<vars, admission, task, open, status, found, left, rows, store>>

(* The acquire task is done: call the worker, or tell the consumer why not. *)
PollResult(r) ==
    /\ step[r] = "poll"
    /\ TaskDone(r)
    /\ Go(r, IF pc[r] = "leased" THEN "send" ELSE "done")
    /\ UNCHANGED <<vars, admission, task, open, status, found, left, rows, store>>

(* The worker's response opens: a stream of events, or a refusal to relay. *)
StreamAnswer(r) ==
    /\ At(r, "stream", "send")
    /\ Go(r, "read") \/ Go(r, "refusal")
    /\ open' = [open EXCEPT ![r] = TRUE]
    /\ UNCHANGED <<vars, admission, task, status, found, left, rows, store>>

(* The refusal has been read, and is passed on as an error event. *)
StreamRelay(r) ==
    /\ step[r] = "refusal"
    /\ Go(r, "tell")
    /\ status' = [status EXCEPT ![r] = "http"]
    /\ UNCHANGED <<vars, admission, task, open, found, left, rows, store>>

(* A chunk, perhaps with the final event, is passed on. *)
StreamChunk(r) ==
    /\ step[r] = "read"
    /\ ~found[r]
    /\ Go(r, "chunk")
    /\ found' \in {found, [found EXCEPT ![r] = TRUE]}
    /\ UNCHANGED <<vars, admission, task, open, status, left, rows, store>>

StreamTaken(r) ==
    /\ step[r] = "chunk"
    /\ Go(r, "read")
    /\ UNCHANGED <<vars, admission, task, open, status, found, left, rows, store>>

(* httpx.HTTPError: the connection to the worker fails; the consumer is told. *)
StreamDrops(r) ==
    /\ At(r, "stream", "send") \/ step[r] \in {"refusal", "read"}
    /\ Go(r, "tell")
    /\ status' = [status EXCEPT ![r] = "upstream-error"]
    /\ UNCHANGED <<vars, admission, task, open, found, left, rows, store>>

(* The seconds charged: the final event's, or wall time, or none. *)
Charge(r, st) == IF found[r] \/ st \in {"cancelled", "upstream-error"} THEN 1 ELSE 0

(* The end of the finally clause. *)
Settle(r, st) == Release(r) /\ Record(r, Charge(r, st)) /\ Go(r, "done")

\* The lease is released before the upstream response is closed.
FinallyEarly(r, st) ==
    status' = [status EXCEPT ![r] = st] /\ Settle(r, st)

(* The finally clause: an open response is closed before the lease goes. *)
Finally(r, st) ==
    /\ status' = [status EXCEPT ![r] = st]
    /\ \/ ~open[r] /\ Settle(r, st)
       \/ open[r] /\ Go(r, "closing") /\ UNCHANGED <<vars, rows>>

(* The stream is over, or the consumer has taken the error event. *)
StreamEnds(r) ==
    /\ step[r] \in {"read", "tell"}
    /\ Finally(r, status[r])
    /\ UNCHANGED <<admission, task, open, found, left, store>>

(* The upstream response is closed: the rest of the finally clause. *)
StreamClosed(r) ==
    /\ step[r] = "closing"
    /\ Settle(r, status[r])
    /\ open' = [open EXCEPT ![r] = FALSE]
    /\ UNCHANGED <<admission, task, status, found, left, store>>

-----------------------------------------------------------------------------
(***************************************************************************)
(* The consumer goes away while the generator is polling: CancelledError   *)
(* is raised in asyncio.wait, and the generator cancels its acquire task.  *)
(* That keeps a task that has not begun from ever running, makes a waiting *)
(* one give up, and does nothing to one that is done.                      *)
(***************************************************************************)
LeavePoll(r) ==
    /\ step[r] = "poll"
    /\ Go(r, "done")
    /\ task' = [task EXCEPT ![r] = IF @ = "made" THEN "killed" ELSE @]
    /\ \/ GiveUp(r)
       \/ /\ pc[r] # "waiting" \/ r \in mustCancel \/ fut[r] = "cancelled"
          /\ UNCHANGED vars
    /\ UNCHANGED <<admission, open, status, found, left, rows, store>>

(***************************************************************************)
(* It goes away while the generator is suspended at a comment line:        *)
(* GeneratorExit, which no except clause there catches.                    *)
(***************************************************************************)
LeaveComment(r) ==
    /\ step[r] \in {"open", "queued"}
    /\ Go(r, "done")
    /\ UNCHANGED <<vars, admission, task, open, status, found, left, rows, store>>

(* It goes away while the generator awaits the worker: CancelledError. *)
LeaveAwait(r) ==
    /\ At(r, "stream", "send") \/ step[r] \in {"refusal", "read"}
    /\ Finally(r, "cancelled")
    /\ left' = [left EXCEPT ![r] = TRUE]
    /\ UNCHANGED <<admission, task, open, found, store>>

(* It goes away while the generator is suspended at a chunk: GeneratorExit. *)
LeaveYield(r) ==
    /\ step[r] \in {"chunk", "tell"}
    /\ Finally(r, status[r])
    /\ left' = [left EXCEPT ![r] = TRUE]
    /\ UNCHANGED <<admission, task, open, found, store>>

-----------------------------------------------------------------------------
(* Timers and cancellations of whoever waits in acquire(); drain(). *)
WaitEnds(r) == GiveUp(r) /\ UNCHANGED gwVars

Shutdown == (DrainStart \/ DrainReturn) /\ UNCHANGED gwVars

(* aclose() closes the store once drain() has returned. *)
CloseStore ==
    /\ drain \in {"clear", "expired"}
    /\ store = "open"
    /\ store' = "closed"
    /\ UNCHANGED <<vars, admission, step, task, open, status, found, left, rows>>

(* A budget period ends: period_key has another value from now on. *)
Midnight ==
    /\ day < MaxDay
    /\ day' = day + 1
    /\ UNCHANGED <<vars, kind, period, step, task, open, status, found, left, rows, store>>

PassStep(r) == PassSend(r) \/ PassEnd(r)

EngineStep(r) == EngineAcquire(r) \/ EngineResume(r) \/ EngineEnd(r)

StreamStep(r) ==
    \/ StreamOpen(r) \/ Poll(r) \/ TaskBegins(r) \/ TaskResumes(r) \/ PollTimer(r)
    \/ PollResult(r) \/ StreamAnswer(r) \/ StreamRelay(r) \/ StreamChunk(r)
    \/ StreamTaken(r) \/ StreamDrops(r) \/ StreamEnds(r) \/ StreamClosed(r)

ConsumerLeaves(r) ==
    LeavePoll(r) \/ LeaveComment(r) \/ LeaveAwait(r) \/ LeaveYield(r)

GwNext ==
    \/ \E r \in Requests : \/ Admit(r) \/ BodyFails(r) \/ WaitEnds(r)
                           \/ EngineStep(r) \/ StreamStep(r) \/ ConsumerLeaves(r)
                           \/ PassStep(r)
    \/ Shutdown
    \/ Midnight
    \/ CloseStore

GwSpec == GwInit /\ [][GwNext]_allVars

(***************************************************************************)
(* The event loop runs what is ready.  Bodies arrive or fail, runs end     *)
(* (httpx has a read timeout, and the worker bounds a run), a consumer     *)
(* reads what it is sent or leaves, and the timer of acquire() fires.      *)
(* Nobody has to leave, and the ten-second poll may win any race it is in: *)
(* an answered acquire task is seen all the same.                          *)
(***************************************************************************)
GwFairness ==
    \A r \in Requests :
        /\ WF_allVars(BodyFails(r) \/ EngineAcquire(r) \/ StreamOpen(r) \/ PassSend(r))
        /\ WF_allVars(PassEnd(r))
        /\ WF_allVars(EngineResume(r)) /\ WF_allVars(EngineEnd(r))
        /\ WF_allVars(TaskBegins(r)) /\ WF_allVars(TaskResumes(r))
        /\ WF_allVars(WaitEnds(r))
        /\ WF_allVars(Poll(r)) /\ WF_allVars(PollResult(r))
        /\ WF_allVars(StreamAnswer(r) \/ StreamDrops(r)) /\ WF_allVars(StreamRelay(r))
        /\ WF_allVars(StreamTaken(r)) /\ WF_allVars(StreamClosed(r))
        /\ SF_allVars(StreamEnds(r))

GwFairSpec == GwSpec /\ GwFairness

-----------------------------------------------------------------------------
(* Every variable has its type; a request has at most one row of 0 or 1. *)
GwTypeOK ==
    /\ day \in 0 .. MaxDay
    /\ period \in [Requests -> 0 .. day]
    /\ kind \in [Requests -> Kinds]
    /\ step \in [Requests -> {"start", "body", "acquire", "open", "poll", "queued", "send",
                              "refusal", "read", "chunk", "tell", "closing", "forward",
                              "done"}]
    /\ task \in [Requests -> {"none", "made", "begun", "killed"}]
    /\ open \in [Requests -> BOOLEAN]
    /\ status \in [Requests -> {"ok", "http", "upstream-error", "cancelled"}]
    /\ found \in [Requests -> BOOLEAN]
    /\ left \in [Requests -> BOOLEAN]
    /\ \A r \in Requests : Len(rows[r]) <= 1
    /\ \A r \in Requests : \A i \in DOMAIN rows[r] :
          rows[r][i].period <= day /\ rows[r][i].seconds \in {0, 1}
    /\ store \in {"open", "closed"}

(* A call to the worker of r is under way: sent, or its response still open. *)
Calling(r) == step[r] = "send" \/ open[r]

(***************************************************************************)
(* "one engine call per worker": a call is under way only with a lease,    *)
(* and no other call is at the same worker.  A stream's response is closed *)
(* -- which is what tells the worker to stop -- before its lease is given  *)
(* to the next (app.py:713-716).                                           *)
(***************************************************************************)
OneCallPerWorker ==
    \A r \in Requests : Calling(r) =>
        /\ pc[r] = "leased"
        /\ \A k \in Requests : Calling(k) /\ slot[k] = slot[r] => k = r

(***************************************************************************)
(* Every run that was given a worker is charged exactly once, whichever    *)
(* way it ended -- unless shutdown gave up on runs in flight and closed    *)
(* the store under them (app.py:632-634, 713-725, 138-144).                *)
(***************************************************************************)
ChargedOnce ==
    \A r \in Requests :
        /\ step[r] # "done" => rows[r] = <<>>
        /\ rows[r] # <<>> => pc[r] = "released"
        /\ pc[r] = "released" /\ drain # "expired" => Len(rows[r]) = 1

(* An engine call holds a worker only while it is at it: whether it waits, *)
(* is granted as it gives up, fails or is cancelled (app.py:614-634).      *)
EngineKeepsNothing ==
    \A r \in Requests : kind[r] = "engine" /\ pc[r] = "leased" => step[r] = "send"

(***************************************************************************)
(* A run that crosses the end of its period is charged to the one whose    *)
(* budget admitted it: nothing is used up in a period that no run of that  *)
(* period accounts for (app.py:602, 634).                                  *)
(***************************************************************************)
NewPeriodNewBudget ==
    \A c \in {job[r].client : r \in Requests} :
        Used(c) <= Cardinality({r \in OfClient(Requests, c) :
                                   pc[r] = "released" /\ period[r] = day})

(***************************************************************************)
(* Every admitted call ends, even if workers have leaked: whoever waits has*)
(* a timer, the poll loop sees the acquire task end, with a lease or       *)
(* without (app.py:662-668), and what is passed through waits for nobody.  *)
(***************************************************************************)
EveryCallEnds == \A r \in Requests : step[r] = "body" ~> step[r] = "done"

(***************************************************************************)
(* "Release exactly once" (scheduler.py:57): a request that is over holds  *)
(* no worker.                                                              *)
(***************************************************************************)
NoOrphanLease == \A r \in Requests : pc[r] = "leased" => step[r] # "done"

(***************************************************************************)
(* A run its caller abandoned, with no final event to read, is charged     *)
(* wall time: "the honest choice for a run the caller abandoned"           *)
(* (app.py:721-723).                                                       *)
(***************************************************************************)
AbandonedRunCharged ==
    \A r \in Requests : left[r] /\ status[r] # "http" /\ rows[r] # <<>> => rows[r][1].seconds = 1
=============================================================================
