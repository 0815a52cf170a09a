---------------------------- MODULE GatewayProofs ----------------------------
(***************************************************************************)
(* GwInv is an inductive invariant of the gateway, for any requests, kinds,*)
(* workers, caps, budgets and bounds: it adds to the scheduler's IInv where*)
(* each call stands in acquire() while its handler is at a given step, and *)
(* what the ledger holds of it.  The invariants that MCGateway checks      *)
(* follow from it.                                                         *)
(***************************************************************************)
EXTENDS GatewayMeter, SlotsProofs

Steps == {"start", "body", "acquire", "open", "poll", "queued", "send", "refusal", "read",
          "chunk", "tell", "closing", "forward", "done"}

RowsOfOne == {<<>>} \cup {<<Row(p, s)>> : p \in Nat, s \in {0, 1}}

(* The types, with at most one row of a request. *)
Typed ==
    /\ day \in 0 .. MaxDay
    /\ period \in [Requests -> Nat] /\ \A r \in Requests : period[r] <= day
    /\ kind \in [Requests -> Kinds]
    /\ step \in [Requests -> Steps]
    /\ task \in [Requests -> {"none", "made", "begun", "killed"}]
    /\ open \in [Requests -> BOOLEAN]
    /\ status \in [Requests -> {"ok", "http", "upstream-error", "cancelled"}]
    /\ found \in [Requests -> BOOLEAN]
    /\ left \in [Requests -> BOOLEAN]
    /\ rows \in [Requests -> RowsOfOne]
    /\ store \in {"open", "closed"}

(* An engine call runs acquire() itself. *)
EnginePhase(r) ==
    /\ step[r] \in {"start", "body", "acquire", "send", "done"}
    /\ task[r] = "none" /\ ~open[r]
    /\ step[r] \in {"start", "body"} => pc[r] = "new"
    /\ step[r] = "acquire" => pc[r] = "waiting"
    /\ step[r] = "send" => pc[r] = "leased"
    /\ step[r] = "done" => pc[r] \notin {"waiting", "leased"}

(* A stream's acquire task runs it, and may outlive the generator. *)
StreamPhase(r) ==
    /\ step[r] \notin {"acquire", "forward"}
    /\ step[r] \in {"start", "body", "open"} => task[r] = "none"
    /\ task[r] # "begun" => pc[r] = "new"
    /\ task[r] = "begun" => pc[r] # "new"
    /\ step[r] \in {"send", "refusal", "read", "chunk", "tell", "closing"} => pc[r] = "leased"
    /\ open[r] => step[r] \in {"refusal", "read", "chunk", "tell", "closing"}

(* Whatever is neither stays away from the scheduler. *)
PassPhase(r) ==
    /\ step[r] \in {"start", "body", "forward", "done"}
    /\ task[r] = "none" /\ ~open[r] /\ pc[r] = "new"

Phase(r) ==
    /\ kind[r] = "engine" => EnginePhase(r)
    /\ kind[r] = "stream" => StreamPhase(r)
    /\ kind[r] \notin {"engine", "stream"} => PassPhase(r)

(* A request is entered as it releases, unless shutdown gave up on it. *)
Entered(r) ==
    /\ rows[r] = <<>> \/ \E s \in {0, 1} : rows[r] = <<Row(period[r], s)>>
    /\ rows[r] # <<>> => pc[r] = "released"
    /\ pc[r] = "released" => step[r] = "done"
    /\ pc[r] = "released" /\ drain # "expired" => rows[r] # <<>>

(* aclose() closes the store after drain() has returned. *)
ClosedLate == store = "closed" => drain \in {"clear", "expired"}

GwInv ==
    /\ IInv
    /\ Typed
    /\ ClosedLate
    /\ \A r \in Requests : Phase(r) /\ Entered(r)

(* A step of request r: nobody else's call is touched. *)
Same(q) ==
    /\ pc'[q] = pc[q] /\ kind'[q] = kind[q] /\ period'[q] = period[q]
    /\ step'[q] = step[q] /\ task'[q] = task[q] /\ open'[q] = open[q] /\ rows'[q] = rows[q]

Local(r) ==
    /\ Typed' /\ drain' = drain /\ store' = store
    /\ Phase(r)' /\ Entered(r)'
    /\ \A q \in Requests : q # r => Same(q)

-----------------------------------------------------------------------------
LEMMA Elsewhere ==
    ASSUME NEW q \in Requests, Phase(q), Entered(q), Same(q),
           drain = "expired" => drain' = "expired"
    PROVE  Phase(q)' /\ Entered(q)'
<1>1. Phase(q)'
    BY DEF Phase, Same, EnginePhase, StreamPhase, PassPhase
<1>2. Entered(q)'
    BY DEF Entered, Same, Row
<1> QED  BY <1>1, <1>2

LEMMA LocalInv ==
    ASSUME GwInv, NEW r \in Requests, Local(r), [Next]_vars
    PROVE  GwInv'
<1>1. IInv'
    BY NextIInv DEF GwInv
<1>2. ClosedLate'
    BY DEF GwInv, ClosedLate, Local
<1>3. ASSUME NEW q \in Requests
      PROVE  Phase(q)' /\ Entered(q)'
    BY <1>3, Elsewhere DEF GwInv, Local
<1> QED  BY <1>1, <1>2, <1>3 DEF GwInv, Local

(* What the scheduler's operations do to the phase of r. *)
LEMMA Acquires ==
    ASSUME IInv, NEW r \in Requests, Acquire(r) \/ Refuse(r)
    PROVE  /\ pc[r] = "new" /\ pc'[r] \in {"leased", "waiting", "draining", "full"}
           /\ drain' = drain /\ Next
           /\ \A q \in Requests : q # r => pc'[q] = pc[q]
<1>1. pc \in [Requests -> {"new", "waiting", "leased", "released", "timeout", "draining",
                           "full"}]
    BY DEF IInv, TypeOK
<1> QED  BY <1>1 DEF Acquire, Enqueue, Refuse, Next

LEMMA Resumes ==
    ASSUME IInv, NEW r \in Requests, Resume(r)
    PROVE  /\ pc[r] = "waiting" /\ pc'[r] \in {"leased", "timeout", "draining"}
           /\ drain' = drain /\ Next
           /\ \A q \in Requests : q # r => pc'[q] = pc[q]
<1>1. pc \in [Requests -> {"new", "waiting", "leased", "released", "timeout", "draining",
                           "full"}]
    BY DEF IInv, TypeOK
<1> QED  BY <1>1 DEF Resume, TakeLease, HandBack, Forget, FailDraining, Next

LEMMA Releases ==
    ASSUME IInv, NEW r \in Requests, Release(r)
    PROVE  /\ pc[r] = "leased" /\ pc'[r] = "released"
           /\ drain' = drain /\ drain # "clear" /\ Next
           /\ \A q \in Requests : q # r => pc'[q] = pc[q]
<1>1. pc \in [Requests -> {"new", "waiting", "leased", "released", "timeout", "draining",
                           "full"}]
    BY DEF IInv, TypeOK
<1>2. r \in Holders
    BY DEF Release, Holders, IInv, PhasesOK
<1>3. drain # "clear"
    BY <1>2 DEF IInv, DrainExact
<1> QED  BY <1>1, <1>3 DEF Release, Next

LEMMA GivesUp ==
    ASSUME NEW r \in Requests, GiveUp(r)
    PROVE  pc' = pc /\ drain' = drain /\ Next
BY DEF GiveUp, Next

(* A release that records: the one place where a row is written. *)
LEMMA Settles ==
    ASSUME GwInv, NEW r \in Requests, NEW s \in {0, 1},
           Release(r), Record(r, s), UNCHANGED <<admission, store>>, Go(r, "done")
    PROVE  /\ rows' \in [Requests -> RowsOfOne] /\ Entered(r)'
           /\ step' \in [Requests -> Steps] /\ step'[r] = "done"
           /\ \A q \in Requests : q # r => rows'[q] = rows[q] /\ step'[q] = step[q]
<1>1. /\ pc[r] = "leased" /\ pc'[r] = "released" /\ drain' = drain /\ drain # "clear"
    BY Releases DEF GwInv
<1>2. rows[r] = <<>> /\ rows \in [Requests -> RowsOfOne] /\ step \in [Requests -> Steps]
    BY <1>1 DEF GwInv, Entered, Typed
<1>3. /\ step' \in [Requests -> Steps] /\ step'[r] = "done"
      /\ \A q \in Requests : q # r => step'[q] = step[q]
    BY <1>2 DEF Go, Steps
<1>4. CASE store = "open"
  <2>1. Append(<<>>, Row(period[r], s)) = <<Row(period[r], s)>>
      OBVIOUS
  <2>2. rows' = [rows EXCEPT ![r] = <<Row(period[r], s)>>]
      BY <1>2, <1>4, <2>1 DEF Record, LedgerRecord
  <2>3. <<Row(period[r], s)>> \in RowsOfOne /\ <<Row(period[r], s)>> # <<>>
      BY DEF RowsOfOne, GwInv, Typed
  <2>4. /\ rows' \in [Requests -> RowsOfOne] /\ rows'[r] = <<Row(period[r], s)>>
        /\ \A q \in Requests : q # r => rows'[q] = rows[q]
      BY <1>2, <2>2, <2>3
  <2>5. period' = period
      BY DEF admission
  <2>6. rows'[r] = <<Row(period[r], s)>> /\ <<Row(period[r], s)>> = <<Row(period'[r], s)>>
      BY <2>4, <2>5
  <2>7. Entered(r)'
      BY <1>1, <1>3, <2>3, <2>6 DEF Entered, Row
  <2> QED  BY <1>3, <2>4, <2>7
<1>5. CASE store # "open"
  <2>1. rows' = rows /\ drain = "expired"
      BY <1>1, <1>5 DEF GwInv, ClosedLate, Typed, Record
  <2>2. Entered(r)'
      BY <1>1, <1>2, <1>3, <2>1 DEF Entered
  <2> QED  BY <1>2, <1>3, <2>1, <2>2
<1> QED  BY <1>4, <1>5

-----------------------------------------------------------------------------
(* Admission, the body, the pass-through, and the generator before it waits. *)
LEMMA QuietSteps ==
    ASSUME GwInv, NEW r \in Requests,
           \/ Admit(r) \/ BodyFails(r) \/ PassStep(r)
           \/ StreamOpen(r) \/ Poll(r) \/ PollTimer(r) \/ PollResult(r) \/ LeaveComment(r)
    PROVE  Local(r) /\ UNCHANGED vars
<1>1. Typed /\ Phase(r) /\ Entered(r)
    BY DEF GwInv
<1>2. Admit(r) => Typed'
    BY <1>1 DEF Typed, Admit, Go, Steps
<1>3. UNCHANGED vars /\ store' = store
    BY DEF Admit, BodyFails, PassStep, PassSend, PassEnd, StreamOpen, Poll, PollTimer,
           PollResult, LeaveComment
<1>4. pc' = pc /\ drain' = drain
    BY <1>3 DEF vars
<1>5. Typed'
    BY <1>1, <1>2 DEF Typed, BodyFails, PassStep, PassSend, PassEnd, StreamOpen, Poll,
           PollTimer, PollResult, LeaveComment, Go, Steps, admission
<1>6. \A q \in Requests : q # r => Same(q)
    BY <1>1, <1>4 DEF Typed, Same, Admit, BodyFails, PassStep, PassSend, PassEnd, StreamOpen,
           Poll, PollTimer, PollResult, LeaveComment, Go, admission
<1>7. Phase(r)'
    BY <1>1, <1>4 DEF Typed, Phase, EnginePhase, StreamPhase, PassPhase, Admit, BodyFails,
           PassStep, PassSend, PassEnd, StreamOpen, Poll, PollTimer, PollResult, LeaveComment,
           At, Go, admission, TaskDone
<1>8. Entered(r)'
  <2>1. pc[r] # "released" /\ rows[r] = <<>> /\ rows' = rows
      BY <1>1 DEF Entered, Typed, Admit, BodyFails, PassStep, PassSend, PassEnd, StreamOpen,
             Poll, PollTimer, PollResult, LeaveComment, At
  <2> QED  BY <1>4, <2>1 DEF Entered
<1> QED  BY <1>3, <1>4, <1>5, <1>6, <1>7, <1>8 DEF Local

(* acquire() called and resumed, by an engine call or by a stream's task. *)
LEMMA AcquireSteps ==
    ASSUME GwInv, NEW r \in Requests,
           EngineAcquire(r) \/ EngineResume(r) \/ TaskBegins(r) \/ TaskResumes(r)
    PROVE  Local(r) /\ Next
<1>1. Typed /\ Phase(r) /\ Entered(r) /\ IInv
    BY DEF GwInv
<1>2. /\ \/ /\ pc[r] = "new" /\ pc'[r] \in {"leased", "waiting", "draining", "full"}
            /\ EngineAcquire(r) \/ TaskBegins(r)
         \/ /\ pc[r] = "waiting" /\ pc'[r] \in {"leased", "timeout", "draining"}
            /\ EngineResume(r) \/ TaskResumes(r)
      /\ drain' = drain /\ Next /\ \A q \in Requests : q # r => pc'[q] = pc[q]
    BY <1>1, Acquires, Resumes DEF EngineAcquire, EngineResume, TaskBegins, TaskResumes
<1>3. UNCHANGED <<admission, open, status, found, left, rows, store>>
    BY DEF EngineAcquire, EngineResume, TaskBegins, TaskResumes, gwVars
<1>4. Typed'
    BY <1>1, <1>3 DEF Typed, EngineAcquire, EngineResume, TaskBegins, TaskResumes, gwVars,
           Go, After, Steps, admission
<1>5. \A q \in Requests : q # r => Same(q)
    BY <1>1, <1>2, <1>3 DEF Typed, Same, EngineAcquire, EngineResume, TaskBegins, TaskResumes,
           gwVars, Go, admission
<1>6. Phase(r)'
  <2>1. CASE EngineAcquire(r) \/ EngineResume(r)
      BY <1>1, <1>2, <1>3, <2>1 DEF Typed, Phase, EnginePhase, EngineAcquire, EngineResume,
             At, Go, After, admission
  <2>2. ASSUME TaskBegins(r) \/ TaskResumes(r)
        PROVE  Phase(r)'
    <3>1. kind[r] = "stream" /\ kind' = kind /\ step' = step /\ open' = open
        BY <1>1, <1>3, <2>2 DEF Phase, EnginePhase, PassPhase, TaskBegins, TaskResumes, gwVars,
               admission
    <3>2. task'[r] = "begun" /\ pc'[r] # "new"
        BY <1>1, <1>2, <2>2, <3>1 DEF Typed, Phase, StreamPhase, TaskBegins, TaskResumes, gwVars,
               EngineAcquire, EngineResume, At
    <3>3. pc[r] # "leased" /\ task[r] # "none"
        BY <1>1, <1>2, <2>2, <3>1 DEF Phase, StreamPhase, TaskBegins, TaskResumes, EngineAcquire,
               EngineResume, At
    <3> QED  BY <1>1, <3>1, <3>2, <3>3 DEF Phase, StreamPhase
  <2> QED  BY <2>1, <2>2
<1>7. Entered(r)'
    BY <1>1, <1>2, <1>3 DEF Entered
<1> QED  BY <1>2, <1>3, <1>4, <1>5, <1>6, <1>7 DEF Local

(* The stream at its worker, and the finally clause up to the close. *)
LEMMA StreamSteps ==
    ASSUME GwInv, NEW r \in Requests,
           \/ StreamAnswer(r) \/ StreamRelay(r) \/ StreamChunk(r) \/ StreamTaken(r)
           \/ StreamDrops(r)
    PROVE  Local(r) /\ UNCHANGED vars
<1>1. Typed /\ Phase(r) /\ Entered(r)
    BY DEF GwInv
<1>2. UNCHANGED <<vars, admission, task, left, rows, store>>
    BY DEF StreamAnswer, StreamRelay, StreamChunk, StreamTaken, StreamDrops
<1>3. pc' = pc /\ drain' = drain
    BY <1>2 DEF vars
<1>4. Typed'
    BY <1>1, <1>2 DEF Typed, StreamAnswer, StreamRelay, StreamChunk, StreamTaken, StreamDrops,
           Go, Steps, admission
<1>5. \A q \in Requests : q # r => Same(q)
    BY <1>1, <1>2, <1>3 DEF Typed, Same, StreamAnswer, StreamRelay, StreamChunk, StreamTaken,
           StreamDrops, Go, admission
<1>6. Phase(r)'
    BY <1>1, <1>2, <1>3 DEF Typed, Phase, EnginePhase, StreamPhase, PassPhase, StreamAnswer,
           StreamRelay, StreamChunk, StreamTaken, StreamDrops, At, Go, admission
<1>7. Entered(r)'
  <2>1. pc[r] # "released" /\ rows[r] = <<>>
      BY <1>1 DEF Entered, StreamAnswer, StreamRelay, StreamChunk, StreamTaken, StreamDrops, At
  <2> QED  BY <1>2, <1>3, <2>1 DEF Entered
<1> QED  BY <1>2, <1>3, <1>4, <1>5, <1>6, <1>7 DEF Local

(* The consumer leaves a generator that polls. *)
LEMMA LeavePollStep ==
    ASSUME GwInv, NEW r \in Requests, LeavePoll(r)
    PROVE  Local(r) /\ [Next]_vars
<1>1. Typed /\ Phase(r) /\ Entered(r)
    BY DEF GwInv
<1>2. pc' = pc /\ drain' = drain /\ [Next]_vars
    BY GivesUp DEF LeavePoll, vars
<1>3. Typed'
    BY <1>1 DEF Typed, LeavePoll, Go, Steps, admission
<1>4. \A q \in Requests : q # r => Same(q)
    BY <1>1, <1>2 DEF Typed, Same, LeavePoll, Go, admission
<1>5. Phase(r)'
    BY <1>1, <1>2 DEF Typed, Phase, EnginePhase, StreamPhase, PassPhase, LeavePoll, Go,
           admission
<1>6. pc[r] # "released" /\ rows[r] = <<>> /\ rows' = rows
    BY <1>1 DEF Entered, LeavePoll
<1>7. Entered(r)'
    BY <1>2, <1>6 DEF Entered
<1> QED  BY <1>2, <1>3, <1>4, <1>5, <1>7 DEF Local, LeavePoll

-----------------------------------------------------------------------------
(* A run ends: the release, the row and the end of the handler. *)
LEMMA EndSteps ==
    ASSUME GwInv, NEW r \in Requests, NEW s \in {0, 1},
           Release(r), Record(r, s), Go(r, "done"),
           status' \in [Requests -> {"ok", "http", "upstream-error", "cancelled"}],
           left' \in [Requests -> BOOLEAN], open' \in [Requests -> BOOLEAN],
           ~open'[r], \A q \in Requests : q # r => open'[q] = open[q],
           UNCHANGED <<admission, task, found, store>>
    PROVE  Local(r) /\ Next
<1>1. Typed /\ Phase(r) /\ Entered(r)
    BY DEF GwInv
<1>2. /\ pc[r] = "leased" /\ pc'[r] = "released" /\ drain' = drain /\ Next
      /\ \A q \in Requests : q # r => pc'[q] = pc[q]
    BY Releases DEF GwInv
<1>3. /\ rows' \in [Requests -> RowsOfOne] /\ Entered(r)'
      /\ step' \in [Requests -> Steps] /\ step'[r] = "done"
      /\ \A q \in Requests : q # r => rows'[q] = rows[q] /\ step'[q] = step[q]
    BY Settles
<1>4. Typed'
    BY <1>1, <1>3 DEF Typed, admission
<1>5. \A q \in Requests : q # r => Same(q)
    BY <1>2, <1>3 DEF Same, admission
<1>6. Phase(r)'
    BY <1>1, <1>2, <1>3 DEF Typed, Phase, EnginePhase, StreamPhase, PassPhase, admission
<1> QED  BY <1>2, <1>3, <1>4, <1>5, <1>6 DEF Local

LEMMA EngineEndStep ==
    ASSUME GwInv, NEW r \in Requests, EngineEnd(r)
    PROVE  Local(r) /\ Next
<1>1. PICK s \in {0, 1} : Record(r, s)
    BY DEF EngineEnd
<1>2. Typed /\ ~open[r]
    BY DEF GwInv, Phase, EnginePhase, EngineEnd, At
<1> QED  BY <1>1, <1>2, EndSteps DEF EngineEnd, Typed

(* The finally clause, entered from an await or a yield of the stream. *)
LEMMA FinallyStep ==
    ASSUME GwInv, NEW r \in Requests,
           step[r] \in {"send", "refusal", "read", "chunk", "tell"}, kind[r] = "stream",
           NEW st \in {"ok", "http", "upstream-error", "cancelled"}, Finally(r, st),
           left' \in [Requests -> BOOLEAN], UNCHANGED <<admission, task, open, found, store>>
    PROVE  Local(r) /\ [Next]_vars
<1>1. Typed /\ Phase(r) /\ Entered(r)
    BY DEF GwInv
<1>2. /\ status' \in [Requests -> {"ok", "http", "upstream-error", "cancelled"}]
      /\ open' \in [Requests -> BOOLEAN]
    BY <1>1 DEF Finally, Typed
<1>3. CASE ~open[r] /\ Settle(r, st)
  <2>1. Charge(r, st) \in {0, 1}
      BY DEF Charge
  <2> QED  BY <1>2, <1>3, <2>1, EndSteps DEF Settle
<1>4. CASE open[r] /\ Go(r, "closing") /\ UNCHANGED <<vars, rows>>
  <2>1. pc' = pc /\ drain' = drain
      BY <1>4 DEF vars
  <2>2. Typed'
      BY <1>1, <1>2, <1>4 DEF Typed, Go, Steps, admission
  <2>3. \A q \in Requests : q # r => Same(q)
      BY <1>1, <1>4, <2>1 DEF Typed, Same, Go, admission
  <2>4. Phase(r)'
      BY <1>1, <1>4, <2>1 DEF Typed, Phase, StreamPhase, Go, admission
  <2>5. pc[r] # "released" /\ rows[r] = <<>>
      BY <1>1 DEF Entered
  <2>6. Entered(r)'
      BY <1>4, <2>1, <2>5 DEF Entered
  <2> QED  BY <1>4, <2>1, <2>2, <2>3, <2>4, <2>6 DEF Local
<1> QED  BY <1>3, <1>4 DEF Finally

LEMMA FinallySteps ==
    ASSUME GwInv, NEW r \in Requests,
           StreamEnds(r) \/ LeaveAwait(r) \/ LeaveYield(r)
    PROVE  Local(r) /\ [Next]_vars
<1>1. Typed /\ Phase(r)
    BY DEF GwInv
<1>2. step[r] \in {"send", "refusal", "read", "chunk", "tell"} /\ kind[r] = "stream"
    BY <1>1 DEF StreamEnds, LeaveAwait, LeaveYield, At, Phase, EnginePhase, PassPhase
<1>3. left' \in [Requests -> BOOLEAN] /\ UNCHANGED <<admission, task, open, found, store>>
    BY <1>1 DEF StreamEnds, LeaveAwait, LeaveYield, Typed
<1>4. \E st \in {"ok", "http", "upstream-error", "cancelled"} : Finally(r, st)
    BY <1>1 DEF StreamEnds, LeaveAwait, LeaveYield, Typed
<1>5. PICK st \in {"ok", "http", "upstream-error", "cancelled"} : Finally(r, st)
    BY <1>4
<1> QED  BY <1>2, <1>3, <1>5, FinallyStep

LEMMA StreamClosedStep ==
    ASSUME GwInv, NEW r \in Requests, StreamClosed(r)
    PROVE  Local(r) /\ Next
<1>1. Charge(r, status[r]) \in {0, 1}
    BY DEF Charge
<1>2. Typed
    BY DEF GwInv
<1>3. /\ open' \in [Requests -> BOOLEAN] /\ ~open'[r]
      /\ \A q \in Requests : q # r => open'[q] = open[q]
    BY <1>2 DEF StreamClosed, Typed
<1> QED  BY <1>1, <1>2, <1>3, EndSteps DEF StreamClosed, Settle, Typed

-----------------------------------------------------------------------------
(* Timers, shutdown and midnight touch no call. *)
LEMMA OtherSteps ==
    ASSUME GwInv,
           \/ \E r \in Requests : WaitEnds(r)
           \/ Shutdown \/ CloseStore \/ Midnight \/ UNCHANGED allVars
    PROVE  GwInv'
<1>1. Typed /\ ClosedLate /\ IInv /\ MaxDay \in Nat
    BY BudgetAssumption DEF GwInv
<1>2. /\ pc' = pc /\ [Next]_vars
      /\ \/ drain' = drain
         \/ drain \in {"idle", "polling"} /\ store' = store
    BY GivesUp DEF WaitEnds, Shutdown, CloseStore, Midnight, allVars, gwVars, vars, DrainStart,
           DrainReturn, Next
<1>3. UNCHANGED <<kind, period, step, task, open, rows>>
    BY DEF WaitEnds, Shutdown, CloseStore, Midnight, allVars, gwVars, admission
<1>4. Typed'
    BY <1>1, <1>3 DEF Typed, WaitEnds, Shutdown, CloseStore, Midnight, allVars, gwVars, admission
<1>5. ClosedLate'
    BY <1>1, <1>2 DEF ClosedLate, Typed, WaitEnds, Shutdown, CloseStore, Midnight, allVars,
           gwVars, vars
<1>6. ASSUME NEW q \in Requests
      PROVE  Phase(q)' /\ Entered(q)'
  <2>1. Same(q) /\ (drain = "expired" => drain' = "expired")
      BY <1>2, <1>3 DEF Same
  <2> QED  BY <2>1, Elsewhere DEF GwInv
<1>7. IInv'
    BY <1>1, <1>2, NextIInv
<1> QED  BY <1>4, <1>5, <1>6, <1>7 DEF GwInv

LEMMA GwInitInv == GwInit => GwInv
<1> SUFFICES ASSUME GwInit PROVE GwInv
    OBVIOUS
<1>1. IInv
    BY InitIInv DEF GwInit
<1>2. Typed /\ ClosedLate
    BY BudgetAssumption DEF GwInit, Typed, ClosedLate, Steps, RowsOfOne
<1>3. ASSUME NEW r \in Requests
      PROVE  Phase(r) /\ Entered(r)
    BY DEF GwInit, Init, Phase, EnginePhase, StreamPhase, PassPhase, Entered
<1> QED  BY <1>1, <1>2, <1>3 DEF GwInv

LEMMA GwStepInv == GwInv /\ [GwNext]_allVars => GwInv'
<1> SUFFICES ASSUME GwInv, [GwNext]_allVars PROVE GwInv'
    OBVIOUS
<1>1. ASSUME NEW r \in Requests,
             \/ Admit(r) \/ BodyFails(r) \/ PassStep(r)
             \/ StreamOpen(r) \/ Poll(r) \/ PollTimer(r) \/ PollResult(r) \/ LeaveComment(r)
      PROVE  GwInv'
    BY <1>1, QuietSteps, LocalInv
<1>2. ASSUME NEW r \in Requests,
             EngineAcquire(r) \/ EngineResume(r) \/ TaskBegins(r) \/ TaskResumes(r)
      PROVE  GwInv'
    BY <1>2, AcquireSteps, LocalInv
<1>3. ASSUME NEW r \in Requests,
             \/ StreamAnswer(r) \/ StreamRelay(r) \/ StreamChunk(r) \/ StreamTaken(r)
             \/ StreamDrops(r)
      PROVE  GwInv'
    BY <1>3, StreamSteps, LocalInv
<1>4. ASSUME NEW r \in Requests, LeavePoll(r)
      PROVE  GwInv'
    BY <1>4, LeavePollStep, LocalInv
<1>5. ASSUME NEW r \in Requests, EngineEnd(r)
      PROVE  GwInv'
    BY <1>5, EngineEndStep, LocalInv
<1>6. ASSUME NEW r \in Requests, StreamEnds(r) \/ LeaveAwait(r) \/ LeaveYield(r)
      PROVE  GwInv'
    BY <1>6, FinallySteps, LocalInv
<1>7. ASSUME NEW r \in Requests, StreamClosed(r)
      PROVE  GwInv'
    BY <1>7, StreamClosedStep, LocalInv
<1>8. CASE \/ \E r \in Requests : WaitEnds(r)
           \/ Shutdown \/ CloseStore \/ Midnight \/ UNCHANGED allVars
    BY <1>8, OtherSteps
<1> QED  BY <1>1, <1>2, <1>3, <1>4, <1>5, <1>6, <1>7, <1>8
         DEF GwNext, EngineStep, StreamStep, ConsumerLeaves

(***************************************************************************)
(* The inductive invariant holds in every behavior of the gateway.         *)
(***************************************************************************)
THEOREM GwInvariance == GwSpec => []GwInv
<1>1. GwInit => GwInv
    BY GwInitInv
<1>2. GwInv /\ [GwNext]_allVars => GwInv'
    BY GwStepInv
<1> QED  BY <1>1, <1>2, PTL DEF GwSpec

(***************************************************************************)
(* The composition keeps what the scheduler promises alone: every behavior *)
(* of the gateway is one of the scheduler (app.py calls nothing but acquire*)
(* and release).                                                           *)
(***************************************************************************)
THEOREM GatewaySchedules == GwSpec => Spec
<1>1. GwInit => Init
    BY DEF GwInit
<1>2. ASSUME GwInv, [GwNext]_allVars
      PROVE  [Next]_vars
  <2>1. ASSUME NEW r \in Requests,
               \/ Admit(r) \/ BodyFails(r) \/ PassStep(r)
               \/ StreamOpen(r) \/ Poll(r) \/ PollTimer(r) \/ PollResult(r)
               \/ LeaveComment(r)
        PROVE  [Next]_vars
      BY <1>2, <2>1, QuietSteps
  <2>2. ASSUME NEW r \in Requests,
               EngineAcquire(r) \/ EngineResume(r) \/ TaskBegins(r) \/ TaskResumes(r)
        PROVE  [Next]_vars
      BY <1>2, <2>2, AcquireSteps
  <2>3. ASSUME NEW r \in Requests,
               \/ StreamAnswer(r) \/ StreamRelay(r) \/ StreamChunk(r) \/ StreamTaken(r)
               \/ StreamDrops(r)
        PROVE  [Next]_vars
      BY <1>2, <2>3, StreamSteps
  <2>4. ASSUME NEW r \in Requests,
               \/ LeavePoll(r) \/ EngineEnd(r) \/ StreamEnds(r) \/ LeaveAwait(r)
               \/ LeaveYield(r) \/ StreamClosed(r)
        PROVE  [Next]_vars
      BY <1>2, <2>4, LeavePollStep, EngineEndStep, FinallySteps, StreamClosedStep
  <2>5. CASE \/ \E r \in Requests : WaitEnds(r)
             \/ Shutdown \/ CloseStore \/ Midnight \/ UNCHANGED allVars
      BY <2>5, GivesUp DEF WaitEnds, Shutdown, CloseStore, Midnight, allVars, Next
  <2> QED  BY <1>2, <2>1, <2>2, <2>3, <2>4, <2>5
           DEF GwNext, EngineStep, StreamStep, ConsumerLeaves
<1> QED  BY <1>1, <1>2, GwInvariance, PTL DEF GwSpec, Spec

(***************************************************************************)
(* So engine calls, streams and the consumers that leave them break none of*)
(* the scheduler's promises: a worker has one holder, counters and the heap*)
(* are exact, no pool exceeds its cap and no worker idles (scheduler.py).  *)
(***************************************************************************)
THEOREM GatewayKeepsPromises ==
    GwSpec => [](/\ WorkerExclusive /\ AccountingExact /\ PoolCapRespected
                 /\ ConcurrencyRespected /\ NoIdleWorker /\ HeapExact /\ DrainExact)
BY GatewaySchedules, Exclusion, Accounting, PoolCapsHold, ConcurrencyHolds, NoIdleWorkerHolds,
   HeapExactHolds, DrainExactHolds, PTL

(***************************************************************************)
(* Nor does any handler overtake another in its class, or get a worker once*)
(* the gateway drains (acquire, _dispatch and drain of scheduler.py).      *)
(***************************************************************************)
THEOREM GatewayOrder == GwSpec => NoOvertaking /\ DrainAdmitsNothing
BY GatewaySchedules, Order, DrainAdmits, PTL

(***************************************************************************)
(* The proxy as a whole implements WorkerSlots: over whatever happens to   *)
(* calls and their consumers, workers go round one request at a time.      *)
(***************************************************************************)
THEOREM GatewayImplementsSlots == GwSpec => ImplementsSlots
BY GatewaySchedules, Implementation, PTL

-----------------------------------------------------------------------------
(* Every variable of the gateway keeps its type. *)
THEOREM GwTypes == GwSpec => []GwTypeOK
<1>1. ASSUME GwInv PROVE GwTypeOK
  <2>1. Typed /\ day \in Nat
      BY BudgetAssumption, <1>1 DEF GwInv, Typed
  <2>2. period \in [Requests -> 0 .. day]
      BY <2>1 DEF Typed
  <2>3. ASSUME NEW r \in Requests
        PROVE  /\ Len(rows[r]) <= 1
               /\ \A i \in DOMAIN rows[r] : /\ rows[r][i].period <= day
                                            /\ rows[r][i].seconds \in {0, 1}
    <3>1. CASE rows[r] = <<>>
        BY <3>1
    <3>2. ASSUME NEW s \in {0, 1}, rows[r] = <<Row(period[r], s)>>
          PROVE  /\ Len(rows[r]) <= 1
                 /\ \A i \in DOMAIN rows[r] : /\ rows[r][i].period <= day
                                              /\ rows[r][i].seconds \in {0, 1}
      <4>1. /\ Len(rows[r]) = 1 /\ DOMAIN rows[r] = {1}
            /\ rows[r][1] = [period |-> period[r], seconds |-> s]
          BY <3>2 DEF Row
      <4> QED  BY <2>1, <4>1 DEF Typed
    <3> QED  BY <1>1, <3>1, <3>2 DEF GwInv, Entered
  <2> QED  BY <2>1, <2>2, <2>3 DEF GwTypeOK, Typed, Steps
<1> QED  BY <1>1, GwInvariance, PTL

(***************************************************************************)
(* A call is at a worker only with its lease and alone, also while its     *)
(* response is being closed (the finally clauses).                         *)
(***************************************************************************)
THEOREM OneCall == GwSpec => []OneCallPerWorker
<1>1. ASSUME GwInv PROVE OneCallPerWorker
  <2>1. ASSUME NEW q \in Requests, Calling(q)
        PROVE  pc[q] = "leased" /\ q \in Holders
    <3>1. pc[q] = "leased"
        BY <1>1, <2>1 DEF GwInv, Calling, Phase, EnginePhase, StreamPhase, PassPhase
    <3> QED  BY <1>1, <3>1 DEF GwInv, IInv, PhasesOK, Holders
  <2>2. \A h, k \in Holders : slot[h] = slot[k] => h = k
      BY <1>1 DEF GwInv, IInv, WorkerExclusive, Exclusive
  <2> QED  BY <2>1, <2>2 DEF OneCallPerWorker
<1> QED  BY <1>1, GwInvariance, PTL

(***************************************************************************)
(* Every run is charged once, however it ends, unless shutdown gave up on  *)
(* it (_record in the finally clauses).                                    *)
(***************************************************************************)
THEOREM RunsChargedOnce == GwSpec => []ChargedOnce
<1>1. ASSUME GwInv, NEW r \in Requests
      PROVE  /\ step[r] # "done" => rows[r] = <<>>
             /\ rows[r] # <<>> => pc[r] = "released"
             /\ pc[r] = "released" /\ drain # "expired" => Len(rows[r]) = 1
  <2>1. Entered(r)
      BY <1>1 DEF GwInv
  <2>2. \A s : Len(<<Row(period[r], s)>>) = 1
      OBVIOUS
  <2> QED  BY <2>1, <2>2 DEF Entered
<1>2. GwInv => ChargedOnce
    BY <1>1 DEF ChargedOnce
<1> QED  BY <1>2, GwInvariance, PTL

(* An engine call holds a worker only while it is at it (_engine_call). *)
THEOREM EngineReleases == GwSpec => []EngineKeepsNothing
<1>1. GwInv => EngineKeepsNothing
    BY DEF GwInv, EngineKeepsNothing, Phase, EnginePhase
<1> QED  BY <1>1, GwInvariance, PTL

(***************************************************************************)
(* With finitely many requests, nothing is used up in a period but by runs *)
(* that the period admitted (used, record).                                *)
(***************************************************************************)
THEOREM BudgetsStartAnew ==
    ASSUME IsFiniteSet(Requests)
    PROVE  GwSpec => []NewPeriodNewBudget
<1>1. ASSUME GwInv, NEW c \in {job[r].client : r \in Requests}
      PROVE  Used(c) <= Cardinality({r \in OfClient(Requests, c) :
                                        pc[r] = "released" /\ period[r] = day})
  <2> DEFINE U == {r \in OfClient(Requests, c) :
                      \E i \in DOMAIN rows[r] : rows[r][i] = Row(day, 1)}
             A == {r \in OfClient(Requests, c) : pc[r] = "released" /\ period[r] = day}
  <2>1. ASSUME NEW r \in U
        PROVE  r \in A
    <3>1. r \in Requests /\ Entered(r)
        BY <1>1 DEF GwInv, OfClient
    <3>2. PICK i \in DOMAIN rows[r] : rows[r][i] = Row(day, 1)
        OBVIOUS
    <3>3. rows[r] # <<>>
        BY <3>2
    <3>4. PICK s \in {0, 1} : rows[r] = <<Row(period[r], s)>>
        BY <3>1, <3>3 DEF Entered
    <3>5. i = 1 /\ rows[r][1] = Row(period[r], s)
        BY <3>2, <3>4
    <3>6. Row(period[r], s).period = Row(day, 1).period
        BY <3>2, <3>5
    <3>7. period[r] = day
        BY <3>6 DEF Row
    <3> QED  BY <3>1, <3>3, <3>7 DEF Entered
  <2>2. A \subseteq Requests /\ U \subseteq A
      BY <2>1 DEF OfClient
  <2>3. IsFiniteSet(A) /\ Cardinality(U) <= Cardinality(A)
      BY <2>2, FS_Subset
  <2> QED  BY <2>3 DEF Used
<1>2. GwInv => NewPeriodNewBudget
    BY <1>1 DEF NewPeriodNewBudget
<1> QED  BY <1>2, GwInvariance, PTL

-----------------------------------------------------------------------------
(***************************************************************************)
(* Metering.  A step changes the standing of one request at most: it asks, *)
(* leaves, takes a worker, calls it or gives it back.                      *)
(***************************************************************************)
LEMMA JobsStay ==
    ASSUME [Next]_vars
    PROVE  ClientOf' = ClientOf
<1>1. job' = job
    BY DEF Next, vars, Refuse, Acquire, Enqueue, GiveUp, Resume, TakeLease, HandBack, Forget,
           FailDraining, Release, DrainStart, DrainReturn
<1> QED  BY <1>1 DEF ClientOf

LEMMA OthersStay ==
    ASSUME NEW r \in Requests, \A q \in Requests : q # r => Same(q)
    PROVE  \A q \in Requests : q # r => /\ q \in Asked' <=> q \in Asked
                                        /\ q \in Inside' <=> q \in Inside
                                        /\ q \in Leased' <=> q \in Leased
                                        /\ q \in AtWorker' <=> q \in AtWorker
BY DEF Same, Asked, Inside, InLine, Leased, AtWorker

(* Whoever is at a worker has it, and whoever has one is inside. *)
LEMMA Standing ==
    ASSUME GwInv
    PROVE  AtWorker \subseteq Leased /\ Leased \subseteq Inside
<1>1. ASSUME NEW r \in AtWorker
      PROVE  r \in Leased
    BY <1>1 DEF AtWorker, Leased, GwInv, Phase, EnginePhase, StreamPhase, PassPhase
<1>2. ASSUME NEW r \in Leased
      PROVE  r \in Inside
    BY <1>2 DEF Leased, Inside, InLine, GwInv, Phase, PassPhase
<1> QED  BY <1>1, <1>2

(* What the ledger has of a client is what Metering counts. *)
LEMMA SameTally ==
    ASSUME GwInv, NEW c
    PROVE  Used(c) = Meter!Charged(c)
<1> DEFINE U == {r \in OfClient(Requests, c) :
                    \E i \in DOMAIN rows[r] : rows[r][i] = Row(day, 1)}
           B == {r \in Requests : ClientOf[r] = c /\ rows[r] = <<Meter!Item(day, 1)>>}
<1>1. Row(day, 1) = Meter!Item(day, 1)
    BY DEF Row, Meter!Item
<1>2. ASSUME NEW r \in Requests
      PROVE  r \in U <=> r \in B
  <2>1. job[r].client = ClientOf[r] /\ Entered(r)
      BY DEF ClientOf, GwInv
  <2>2. CASE rows[r] = <<>>
      BY <2>2
  <2>3. ASSUME NEW p \in {Row(period[r], s) : s \in {0, 1}}, rows[r] = <<p>>
        PROVE  r \in U <=> r \in B
    <3>1. (\E i \in DOMAIN rows[r] : rows[r][i] = Row(day, 1)) <=> p = Row(day, 1)
        BY <2>3
    <3>2. rows[r] = <<Meter!Item(day, 1)>> <=> p = Row(day, 1)
        BY <1>1, <2>3
    <3> QED  BY <2>1, <3>1, <3>2 DEF OfClient
  <2> QED  BY <2>1, <2>2, <2>3 DEF Entered
<1>3. U = B
    BY <1>2 DEF OfClient
<1>4. Cardinality(U) = Meter!Cardinality(U)
    BY Zenon DEF Cardinality, Meter!Cardinality
<1> QED  BY <1>3, <1>4 DEF Used, Meter!Charged

LEMMA AdmitAsks ==
    ASSUME GwInv, NEW r \in Requests, Admit(r)
    PROVE  Meter!Ask(r)
<1>1. Typed /\ Phase(r) /\ Local(r) /\ UNCHANGED vars
    BY QuietSteps DEF GwInv
<1>2. r \notin Asked /\ r \notin Inside /\ r \notin Leased /\ r \notin AtWorker
    BY <1>1 DEF Admit, Asked, Inside, InLine, Leased, AtWorker, Phase, EnginePhase, StreamPhase,
           PassPhase
<1>3. /\ step'[r] = IF kind[r] # "pass" /\ Over(job[r].client) THEN "done" ELSE "body"
      /\ UNCHANGED <<pc, kind, task, day, rows, store>>
    BY <1>1 DEF Admit, Go, Typed, vars
<1>4. r \in Asked' /\ r \notin Leased' /\ r \notin AtWorker'
    BY <1>2, <1>3 DEF Asked, Leased, AtWorker
<1>5. r \in Inside' => ~Over(job[r].client)
    BY <1>2, <1>3 DEF Inside, InLine
<1>6. ClientOf' = ClientOf /\ ClientOf[r] = job[r].client
    BY <1>1, JobsStay DEF ClientOf
<1>7. Asked' = Asked \cup {r} /\ Leased' = Leased /\ AtWorker' = AtWorker
    BY <1>1, <1>2, <1>4, OthersStay DEF Local, Asked, Leased, AtWorker
<1>8. \/ Inside' = Inside
      \/ Inside' = Inside \cup {r} /\ ~Over(job[r].client)
    BY <1>1, <1>2, <1>5, OthersStay DEF Local, Inside
<1>9. Over(job[r].client) <=> Meter!UsedUp(ClientOf[r])
    BY <1>6, SameTally DEF Over, Meter!UsedUp
<1>10. period' = [period EXCEPT ![r] = day]
    BY DEF Admit
<1> QED  BY <1>2, <1>3, <1>6, <1>7, <1>8, <1>9, <1>10 DEF Meter!Ask

(* A step that takes no worker, calls none and gives none back. *)
LEMMA Leaves ==
    ASSUME GwInv, [Next]_vars, NEW r \in Requests, Local(r), UNCHANGED <<admission, rows>>,
           step[r] # "start", step'[r] # "start", pc'[r] = "leased" <=> pc[r] = "leased",
           r \in AtWorker' <=> r \in AtWorker, InLine(r)' => InLine(r)
    PROVE  Meter!Leave
<1>1. Asked' = Asked /\ Leased' = Leased /\ AtWorker' = AtWorker
    BY OthersStay DEF Local, Asked, Leased, AtWorker
<1>2. Inside' \subseteq Inside
    BY OthersStay DEF Local, Inside
<1>3. Leased \subseteq Inside'
  <2>1. r \in Leased => r \in Inside'
      BY Standing DEF Leased, Inside, InLine, admission
  <2> QED  BY <2>1, Standing, OthersStay DEF Local, Leased
<1>4. ClientOf' = ClientOf
    BY JobsStay
<1> QED  BY <1>1, <1>2, <1>3, <1>4 DEF Meter!Leave, Local, admission

LEMMA Takes ==
    ASSUME GwInv, [Next]_vars, NEW r \in Requests, Local(r), UNCHANGED <<admission, rows>>,
           step[r] # "start", step'[r] # "start", r \notin AtWorker,
           pc[r] # "leased", pc'[r] = "leased", InLine(r)
    PROVE  Meter!Take(r)
<1>1. Asked' = Asked
    BY OthersStay DEF Local, Asked
<1>2. r \in Inside \ Leased
    BY DEF Inside, Leased
<1>3. Leased' = Leased \cup {r}
    BY OthersStay DEF Local, Leased
<1>4. AtWorker' \in {AtWorker, AtWorker \cup {r}}
  <2>1. CASE r \in AtWorker'
    <3>1. AtWorker' = AtWorker \cup {r}
        BY <2>1, OthersStay DEF Local, AtWorker
    <3> QED  BY <3>1
  <2>2. CASE r \notin AtWorker'
    <3>1. AtWorker' = AtWorker
        BY <2>2, OthersStay DEF Local, AtWorker
    <3> QED  BY <3>1
  <2> QED  BY <2>1, <2>2
<1>5. r \in Inside'
    BY DEF Inside, InLine, admission
<1>6. Inside' = Inside
    BY <1>2, <1>5, OthersStay DEF Local, Inside
<1>7. ClientOf' = ClientOf
    BY JobsStay
<1> QED  BY <1>1, <1>2, <1>3, <1>4, <1>6, <1>7 DEF Meter!Take, Local, admission

LEMMA Calls ==
    ASSUME GwInv, NEW r \in Requests, Local(r), UNCHANGED <<vars, admission, rows>>,
           step[r] # "start", pc[r] = "leased", r \notin AtWorker, r \in AtWorker'
    PROVE  Meter!Call(r)
<1>1. pc' = pc /\ ClientOf' = ClientOf
    BY DEF vars, ClientOf
<1>2. r \in Leased /\ r \in Leased' /\ r \in Inside /\ r \in Inside'
    BY <1>1, Standing DEF Leased, Inside, InLine, admission
<1>3. r \in Asked /\ r \in Asked'
    BY DEF Asked, AtWorker
<1>4. Asked' = Asked
    BY <1>3, OthersStay DEF Local, Asked
<1>5. Leased' = Leased
    BY <1>2, OthersStay DEF Local, Leased
<1>6. Inside' = Inside
    BY <1>2, OthersStay DEF Local, Inside
<1>7. AtWorker' = AtWorker \cup {r}
    BY OthersStay DEF Local, AtWorker
<1> QED  BY <1>1, <1>2, <1>4, <1>5, <1>6, <1>7 DEF Meter!Call, Local, admission

LEMMA GivesBack ==
    ASSUME GwInv, NEW r \in Requests, Local(r), NEW s \in {0, 1}, r \in AtWorker,
           Release(r), Record(r, s), Go(r, "done"), UNCHANGED <<admission, task>>
    PROVE  Meter!GiveBack(r)
<1>1. Typed /\ Entered(r) /\ Phase(r) /\ IInv
    BY DEF GwInv
<1>2. pc[r] = "leased" /\ pc'[r] = "released" /\ Next
    BY <1>1, Releases
<1>3. step'[r] = "done"
    BY <1>1 DEF Typed, Go
<1>4. task[r] # "made"
    BY <1>1, <1>2 DEF Phase, EnginePhase, StreamPhase, PassPhase
<1>5. /\ r \notin Leased' /\ r \notin Inside' /\ r \notin AtWorker'
      /\ r \in Asked /\ r \in Asked'
    BY <1>2, <1>3, <1>4 DEF Leased, Inside, InLine, AtWorker, Asked
<1>6. Asked' = Asked
    BY <1>5, OthersStay DEF Local, Asked
<1>7. Leased' = Leased \ {r}
    BY <1>5, OthersStay DEF Local, Leased
<1>8. Inside' = Inside \ {r}
    BY <1>5, OthersStay DEF Local, Inside
<1>9. AtWorker' = AtWorker \ {r}
    BY <1>5, OthersStay DEF Local, AtWorker
<1>10. ClientOf' = ClientOf
    BY <1>2, JobsStay
<1>11. \/ store = "closed" /\ rows' = rows
       \/ /\ store = "open" /\ rows[r] = <<>>
          /\ \E n \in {0, 1} : rows' = [rows EXCEPT ![r] = <<Meter!Item(period[r], n)>>]
  <2>1. rows[r] = <<>>
      BY <1>1, <1>2 DEF Entered
  <2>2. CASE store = "open"
    <3>1. Append(<<>>, Row(period[r], s)) = <<Row(period[r], s)>>
        OBVIOUS
    <3>2. rows' = [rows EXCEPT ![r] = <<Row(period[r], s)>>]
        BY <1>1, <2>1, <2>2, <3>1 DEF Record, LedgerRecord, Typed
    <3> QED  BY <2>1, <2>2, <3>2 DEF Row, Meter!Item
  <2>3. CASE store = "closed"
      BY <2>3 DEF Record
  <2> QED  BY <1>1, <2>2, <2>3 DEF Typed
<1> QED  BY <1>6, <1>7, <1>8, <1>9, <1>10, <1>11 DEF Meter!GiveBack, Local, admission

-----------------------------------------------------------------------------
(* The body, the pass-through, and the generator up to its poll. *)
LEMMA QuietMeters ==
    ASSUME GwInv, NEW r \in Requests,
           \/ BodyFails(r) \/ PassStep(r) \/ StreamOpen(r) \/ Poll(r) \/ PollTimer(r)
           \/ LeaveComment(r) \/ LeavePoll(r)
    PROVE  Meter!Leave
<1>1. Typed /\ Phase(r) /\ Local(r) /\ [Next]_vars
    BY QuietSteps, LeavePollStep DEF GwInv, vars
<1>2. pc' = pc /\ UNCHANGED <<admission, rows>>
    BY GivesUp DEF BodyFails, PassStep, PassSend, PassEnd, StreamOpen, Poll, PollTimer,
           LeaveComment, LeavePoll, vars
<1>3. /\ step[r] # "start" /\ step'[r] # "start" /\ r \notin AtWorker /\ r \notin AtWorker'
      /\ InLine(r)' => InLine(r)
    BY <1>1, <1>2 DEF Typed, Phase, EnginePhase, StreamPhase, PassPhase, BodyFails, PassStep,
           PassSend, PassEnd, StreamOpen, Poll, PollTimer, LeaveComment, LeavePoll, At, Go,
           AtWorker, InLine, admission
<1> QED  BY <1>1, <1>2, <1>3, Leaves

(* The generator sees its acquire task done. *)
LEMMA ResultMeters ==
    ASSUME GwInv, NEW r \in Requests, PollResult(r)
    PROVE  Meter!Leave \/ Meter!Call(r)
<1>1. Typed /\ Phase(r) /\ Local(r) /\ UNCHANGED vars /\ UNCHANGED <<admission, rows>>
    BY QuietSteps DEF GwInv, PollResult
<1>2. /\ step[r] = "poll" /\ r \notin AtWorker /\ InLine(r)
      /\ step'[r] = IF pc[r] = "leased" THEN "send" ELSE "done"
    BY <1>1 DEF Typed, Phase, PassPhase, PollResult, Go, AtWorker, InLine
<1>3. CASE pc[r] = "leased"
  <2>1. r \in AtWorker'
      BY <1>2, <1>3 DEF AtWorker
  <2> QED  BY <1>1, <1>2, <1>3, <2>1, Calls
<1>4. CASE pc[r] # "leased"
  <2>1. r \notin AtWorker' /\ pc' = pc
      BY <1>1, <1>2, <1>4 DEF AtWorker, vars
  <2> QED  BY <1>1, <1>2, <1>4, <2>1, Leaves DEF vars
<1> QED  BY <1>3, <1>4

(* acquire() begins and resumes. *)
LEMMA AcquireMeters ==
    ASSUME GwInv, NEW r \in Requests,
           EngineAcquire(r) \/ EngineResume(r) \/ TaskBegins(r) \/ TaskResumes(r)
    PROVE  Meter!Leave \/ Meter!Take(r)
<1>1. Typed /\ Phase(r) /\ Phase(r)' /\ Local(r) /\ Next /\ IInv
    BY AcquireSteps DEF GwInv, Local
<1>2. pc[r] # "leased"
    BY <1>1, Acquires, Resumes DEF EngineAcquire, EngineResume, TaskBegins, TaskResumes
<1>3. UNCHANGED <<admission, rows>>
    BY DEF EngineAcquire, EngineResume, TaskBegins, TaskResumes, gwVars
<1>4. pc[r] \in {"new", "waiting"} /\ (pc[r] = "new" \/ pc[r] = "waiting")
    BY <1>1, Acquires, Resumes DEF EngineAcquire, EngineResume, TaskBegins, TaskResumes
<1>5. step[r] # "start" /\ step'[r] # "start" /\ InLine(r) /\ r \notin AtWorker
  <2>1. r \notin AtWorker
      BY <1>1, <1>2 DEF Phase, EnginePhase, StreamPhase, PassPhase, AtWorker
  <2>2. CASE EngineAcquire(r) \/ EngineResume(r)
    <3>1. kind[r] = "engine" /\ step[r] \in {"body", "acquire"}
        BY <2>2 DEF EngineAcquire, EngineResume, At
    <3>2. step'[r] \in {"send", "acquire", "done"}
        BY <1>1, <2>2 DEF EngineAcquire, EngineResume, Go, After, Typed
    <3> QED  BY <2>1, <3>1, <3>2 DEF InLine
  <2>3. CASE TaskBegins(r) \/ TaskResumes(r)
    <3>1. step' = step
        BY <2>3 DEF TaskBegins, TaskResumes, gwVars
    <3>2. kind[r] = "stream" /\ task[r] # "none"
      <4>1. CASE TaskBegins(r)
          BY <1>1, <4>1 DEF TaskBegins, Phase, EnginePhase, PassPhase
      <4>2. CASE TaskResumes(r)
        <5>1. kind[r] = "stream" /\ pc[r] = "waiting"
            BY <1>1, <4>2, Resumes DEF TaskResumes
        <5> QED  BY <1>1, <5>1 DEF Phase, StreamPhase
      <4> QED  BY <2>3, <4>1, <4>2
    <3>3. step[r] # "start"
        BY <1>1, <3>2 DEF Phase, StreamPhase
    <3>4. task[r] = "made" \/ pc[r] = "waiting"
        BY <1>1, <2>3, Resumes DEF TaskBegins, TaskResumes
    <3> QED  BY <2>1, <3>1, <3>2, <3>3, <3>4 DEF InLine
  <2> QED  BY <2>2, <2>3
<1>6. CASE pc'[r] = "leased"
    BY <1>1, <1>2, <1>3, <1>5, <1>6, Takes
<1>7. CASE pc'[r] # "leased"
  <2>1. r \notin AtWorker'
      BY <1>1, <1>7 DEF Phase, EnginePhase, StreamPhase, PassPhase, AtWorker
  <2> QED  BY <1>1, <1>2, <1>3, <1>5, <1>7, <2>1, Leaves
<1> QED  BY <1>6, <1>7

(* The stream at its worker. *)
LEMMA StreamMeters ==
    ASSUME GwInv, NEW r \in Requests,
           \/ StreamAnswer(r) \/ StreamRelay(r) \/ StreamChunk(r) \/ StreamTaken(r)
           \/ StreamDrops(r)
    PROVE  Meter!Leave
<1>1. Typed /\ Phase(r) /\ Local(r) /\ UNCHANGED vars
    BY StreamSteps DEF GwInv
<1>2. pc' = pc /\ UNCHANGED <<admission, rows>>
    BY <1>1 DEF StreamAnswer, StreamRelay, StreamChunk, StreamTaken, StreamDrops, vars
<1>3. /\ r \in AtWorker /\ r \in AtWorker' /\ step[r] # "start" /\ step'[r] # "start"
      /\ InLine(r)
    BY <1>1 DEF Typed, Phase, EnginePhase, PassPhase, StreamAnswer, StreamRelay, StreamChunk,
           StreamTaken, StreamDrops, At, Go, AtWorker, InLine
<1> QED  BY <1>1, <1>2, <1>3, Leaves

(* The finally clause: the run ends, or its response is being closed. *)
LEMMA EndMeters ==
    ASSUME GwInv, NEW r \in Requests,
           \/ EngineEnd(r) \/ StreamEnds(r) \/ LeaveAwait(r) \/ LeaveYield(r)
           \/ StreamClosed(r)
    PROVE  Meter!Leave \/ Meter!GiveBack(r)
<1>1. Typed /\ Phase(r) /\ Local(r) /\ [Next]_vars
    BY EngineEndStep, FinallySteps, StreamClosedStep DEF GwInv
<1>2. r \in AtWorker /\ step[r] # "start" /\ kind[r] # "pass"
    BY <1>1 DEF Phase, EnginePhase, PassPhase, EngineEnd, StreamEnds, LeaveAwait, LeaveYield,
           StreamClosed, At, AtWorker
<1>3. UNCHANGED <<admission, task>>
    BY DEF EngineEnd, StreamEnds, LeaveAwait, LeaveYield, StreamClosed
<1>4. ASSUME NEW s \in {0, 1}, Release(r), Record(r, s), Go(r, "done")
      PROVE  Meter!GiveBack(r)
    BY <1>1, <1>2, <1>3, <1>4, GivesBack
<1>5. CASE EngineEnd(r)
    BY <1>4, <1>5 DEF EngineEnd
<1>6. ASSUME NEW st, Settle(r, st)
      PROVE  Meter!GiveBack(r)
  <2>1. Charge(r, st) \in {0, 1}
      BY DEF Charge
  <2> QED  BY <1>4, <1>6, <2>1 DEF Settle
<1>7. CASE StreamClosed(r)
    BY <1>6, <1>7 DEF StreamClosed
<1>8. ASSUME Go(r, "closing"), UNCHANGED <<vars, rows>>
      PROVE  Meter!Leave
  <2>1. step'[r] = "closing" /\ pc' = pc
      BY <1>1, <1>8 DEF Typed, Go, vars
  <2>2. r \in AtWorker' /\ InLine(r)
      BY <1>2, <2>1 DEF AtWorker, InLine
  <2> QED  BY <1>1, <1>2, <1>3, <1>8, <2>1, <2>2, Leaves
<1>9. CASE StreamEnds(r) \/ LeaveAwait(r) \/ LeaveYield(r)
  <2>1. PICK st : Finally(r, st)
      BY <1>9 DEF StreamEnds, LeaveAwait, LeaveYield
  <2> QED  BY <1>6, <1>8, <2>1 DEF Finally
<1> QED  BY <1>5, <1>7, <1>9

(* Timers, shutdown, midnight and the closing of the store. *)
LEMMA OtherMeters ==
    ASSUME GwInv,
           \/ \E r \in Requests : WaitEnds(r)
           \/ Shutdown \/ CloseStore \/ Midnight \/ UNCHANGED allVars
    PROVE  [Meter!MeterNext]_(Meter!meterVars)
<1>1. UNCHANGED <<kind, period, step, task, rows>> /\ pc' = pc /\ [Next]_vars
    BY GivesUp DEF WaitEnds, Shutdown, CloseStore, Midnight, allVars, gwVars, admission, vars,
           DrainStart, DrainReturn, Next
<1>2. UNCHANGED <<ClientOf, Asked, Inside, Leased, AtWorker>>
    BY <1>1, JobsStay DEF Asked, Inside, InLine, Leased, AtWorker
<1>3. \/ UNCHANGED <<day, store>>
      \/ day' = day + 1 /\ store' = store
      \/ day' = day /\ store = "open" /\ store' = "closed"
    BY DEF WaitEnds, Shutdown, CloseStore, Midnight, allVars, gwVars, admission
<1>4. CASE UNCHANGED <<day, store>>
    BY <1>1, <1>2, <1>4 DEF Meter!meterVars
<1>5. CASE day' = day + 1 /\ store' = store
    BY <1>1, <1>2, <1>5 DEF Meter!NewPeriod, Meter!MeterNext
<1>6. CASE day' = day /\ store = "open" /\ store' = "closed"
    BY <1>1, <1>2, <1>6 DEF Meter!Close, Meter!MeterNext
<1> QED  BY <1>3, <1>4, <1>5, <1>6

LEMMA MeterStep ==
    ASSUME GwInv, [GwNext]_allVars
    PROVE  [Meter!MeterNext]_(Meter!meterVars)
<1>1. ASSUME NEW r \in Requests, Admit(r)
      PROVE  Meter!MeterNext
    BY <1>1, AdmitAsks DEF Meter!MeterNext
<1>2. ASSUME NEW r \in Requests,
             \/ BodyFails(r) \/ PassStep(r) \/ StreamOpen(r) \/ Poll(r) \/ PollTimer(r)
             \/ LeaveComment(r) \/ LeavePoll(r)
      PROVE  Meter!MeterNext
    BY <1>2, QuietMeters DEF Meter!MeterNext
<1>3. ASSUME NEW r \in Requests, PollResult(r)
      PROVE  Meter!MeterNext
    BY <1>3, ResultMeters DEF Meter!MeterNext
<1>4. ASSUME NEW r \in Requests,
             EngineAcquire(r) \/ EngineResume(r) \/ TaskBegins(r) \/ TaskResumes(r)
      PROVE  Meter!MeterNext
    BY <1>4, AcquireMeters DEF Meter!MeterNext
<1>5. ASSUME NEW r \in Requests,
             \/ StreamAnswer(r) \/ StreamRelay(r) \/ StreamChunk(r) \/ StreamTaken(r)
             \/ StreamDrops(r)
      PROVE  Meter!MeterNext
    BY <1>5, StreamMeters DEF Meter!MeterNext
<1>6. ASSUME NEW r \in Requests,
             \/ EngineEnd(r) \/ StreamEnds(r) \/ LeaveAwait(r) \/ LeaveYield(r)
             \/ StreamClosed(r)
      PROVE  Meter!MeterNext
    BY <1>6, EndMeters DEF Meter!MeterNext
<1>7. CASE \/ \E r \in Requests : WaitEnds(r)
           \/ Shutdown \/ CloseStore \/ Midnight \/ UNCHANGED allVars
    BY <1>7, OtherMeters
<1> QED  BY <1>1, <1>2, <1>3, <1>4, <1>5, <1>6, <1>7
         DEF GwNext, EngineStep, StreamStep, ConsumerLeaves

LEMMA MeterStart == GwInit => Meter!MeterInit
<1> SUFFICES ASSUME GwInit PROVE Meter!MeterInit
    OBVIOUS
<1>1. Asked = {} /\ Inside = {} /\ Leased = {} /\ AtWorker = {}
    BY DEF GwInit, Init, Asked, Inside, InLine, Leased, AtWorker
<1> QED  BY <1>1 DEF GwInit, Meter!MeterInit

(***************************************************************************)
(* The proxy implements Metering, for any requests, kinds, workers, caps   *)
(* and budgets: whatever happens to calls and to their consumers, a run    *)
(* that called its worker gives it back in the step that charges it, and a *)
(* worker that is lost to a request that is over was never called          *)
(* (app.py:600-638, 641-725).                                              *)
(***************************************************************************)
THEOREM RunsMetered == GwSpec => ImplementsMetering
<1>1. GwInit => Meter!MeterInit
    BY MeterStart
<1>2. GwInv /\ [GwNext]_allVars => [Meter!MeterNext]_(Meter!meterVars)
    BY MeterStep
<1> QED  BY <1>1, <1>2, GwInvariance, PTL DEF GwSpec, ImplementsMetering, Meter!MeterSpec
=============================================================================
