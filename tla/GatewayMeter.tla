----------------------------- MODULE GatewayMeter -----------------------------
(***************************************************************************)
(* The proxy implements Metering.  What is passed through is never inside; *)
(* a stream is, for as long as its generator runs or its acquire task has  *)
(* or may yet get a worker.                                                *)
(***************************************************************************)
EXTENDS Gateway

ClientOf == [r \in Requests |-> job[r].client]

Asked == {r \in Requests : step[r] # "start"}

InLine(r) ==
    /\ kind[r] # "pass"
    /\ step[r] \notin {"start", "done"} \/ task[r] = "made" \/ pc[r] \in {"waiting", "leased"}

Inside == {r \in Requests : InLine(r)}

Leased == {r \in Requests : pc[r] = "leased"}

AtWorker == {r \in Requests :
                step[r] \in {"send", "refusal", "read", "chunk", "tell", "closing"}}

Meter == INSTANCE Metering WITH
    Runs <- Requests, today <- day, client <- ClientOf, asked <- Asked, since <- period,
    inside <- Inside, held <- Leased, at <- AtWorker, bill <- rows, ledger <- store

(***************************************************************************)
(* However calls are refused, queued, relayed, cut off or left by their    *)
(* consumers, a used-up budget lets nobody in, and a run that called its   *)
(* worker gives it back and is charged in one step: nobody sees the one    *)
(* without the other (app.py:600-638, 641-725; ledger.py:24-45).           *)
(***************************************************************************)
ImplementsMetering == Meter!MeterSpec
=============================================================================
