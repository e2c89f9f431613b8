----------------------------- MODULE EdiPipeline -----------------------------
(***************************************************************************)
(* The EDI simulator, its producer, the topic, and the violation job: does *)
(* the job report exactly the violations the simulator injects?  Events    *)
(* are keyed by order_id, so the topic keeps the order in which the events *)
(* of one id are written.  The producer is not idempotent: a retry may     *)
(* write an event again, or for the first time, after later ones, and an   *)
(* event it gives up is only logged.  Durations are in ticks of the wall   *)
(* clock.                                                                  *)
(***************************************************************************)
EXTENDS EdiDetectors

CONSTANTS
    MaxDelay,       \* the longest delay plan_transaction draws between two events
    MaxFaults,      \* bound: attempts to write an event that fail or go unacknowledged
    MayEnd          \* TRUE: the simulator may end (--duration over, SIGTERM)

\* The window is 240 minutes.  A delay is at most an hour; MaxLag covers the
\* simulator's polling (50 ms), the producer's retries (librdkafka gives a
\* message up after 5 minutes) and the job's latency.
ASSUME PipelineAssumption ==
    /\ MaxDelay \in Nat \ {0} /\ MaxDelay + MaxLag < Window
    /\ MaxFaults \in Nat /\ MayEnd \in BOOLEAN

VARIABLES
    plan,           \* the event types plan_transaction did not skip, per order
    pending,        \* the simulator's heap: planned events and their times
    retrying,       \* events the producer holds for another attempt, per order
    topic,          \* harmonicmesh.edi.events, per order id
    faults,         \* attempts that failed or went unacknowledged so far
    ended           \* the simulator's main loop is over

simulator  == <<plan, pending, retrying, topic, faults, ended>>
detectors  == <<now, run, history, orderSeen, invoicing, shipmentSeen,
                unfulfilled, timerMs, timers, reports>>
everything == <<now, run, history, orderSeen, invoicing, shipmentSeen, unfulfilled, timerMs,
                timers, reports, plan, pending, retrying, topic, faults, ended>>

Unplanned == {"unplanned"}
EdiTypes == {"order", "shipment", "invoice"}
EdiEvent == [type : EdiTypes, time : Nat]

PipelineTypeOK ==
    /\ TypeOK
    /\ plan \in [Orders -> (SUBSET EdiTypes) \cup {Unplanned}]
    /\ pending \in [Orders -> SUBSET EdiEvent]
    /\ retrying \in [Orders -> SUBSET EdiEvent]
    /\ topic \in [Orders -> Seq(EdiEvent)]
    /\ faults \in 0 .. MaxFaults
    /\ ended \in BOOLEAN

PipelineInit ==
    /\ Init
    /\ plan = [o \in Orders |-> Unplanned]
    /\ pending = [o \in Orders |-> {}] /\ retrying = [o \in Orders |-> {}]
    /\ topic = [o \in Orders |-> <<>>]
    /\ faults = 0 /\ ended = FALSE

------------------------------------------------------------------------------
(* The simulator.                                                           *)

\* Mutant of Times: the first delay is subtracted.
Times_WrongSign(ship, inv) == [order |-> now, shipment |-> now - ship, invoice |-> now - ship + inv]

\* The planned times: the shipment follows the order, and the invoice the
\* shipment, by their delays, whether or not the earlier event is skipped.
Times(ship, inv) == [order |-> now, shipment |-> now + ship, invoice |-> now + ship + inv]

\* plan_transaction and main's first inner loop.
Schedule(o, emitted, ship, inv) ==
    /\ ~ended /\ plan[o] = Unplanned
    /\ now + ship + inv + MaxLag + Window <= Horizon
    /\ plan' = [plan EXCEPT ![o] = emitted]
    /\ pending' = [pending EXCEPT ![o] =
                     {[type |-> t, time |-> Times(ship, inv)[t]] : t \in emitted}]
    /\ UNCHANGED <<detectors, retrying, topic, faults, ended>>

\* An attempt to write e: it is written and acknowledged; or the attempt failed
\* or its acknowledgement was lost, and the producer holds e for a retry.
Attempt(o, e) ==
    \/ /\ topic' = [topic EXCEPT ![o] = Append(@, e)]
       /\ retrying' = [retrying EXCEPT ![o] = @ \ {e}]
       /\ faults' = faults
    \/ /\ topic' = topic \/ topic' = [topic EXCEPT ![o] = Append(@, e)]
       /\ retrying' = [retrying EXCEPT ![o] = @ \cup {e}]
       /\ faults < MaxFaults /\ faults' = faults + 1

Due(o) == {e \in pending[o] : e.time <= now}

\* Mutant of Emit: what is due goes out in no particular order.
Emit_AnyOrder(o) ==
    /\ ~ended
    /\ \E e \in Due(o) :
          /\ Attempt(o, e)
          /\ pending' = [pending EXCEPT ![o] = @ \ {e}]
    /\ UNCHANGED <<detectors, plan, ended>>

\* main's second inner loop: what is due goes out, the earliest first.  The
\* loop polls, so more than one event of an order may be due.
Emit(o) ==
    /\ ~ended
    /\ \E e \in Due(o) :
          /\ \A f \in pending[o] : e.time <= f.time
          /\ Attempt(o, e)
          /\ pending' = [pending EXCEPT ![o] = @ \ {e}]
    /\ UNCHANGED <<detectors, plan, ended>>

\* The producer tries again, with several requests in flight: later events may
\* have been written meanwhile, and e itself too.
Retry(o) ==
    /\ \E e \in retrying[o] : Attempt(o, e)
    /\ UNCHANGED <<detectors, plan, pending, ended>>

\* The message times out: the delivery callback writes a line to the log.
GiveUp(o) ==
    /\ \E e \in retrying[o] : retrying' = [retrying EXCEPT ![o] = @ \ {e}]
    /\ UNCHANGED <<detectors, plan, pending, topic, faults, ended>>

\* The loop's condition fails: what is still on the heap is never sent.
End ==
    /\ MayEnd /\ ~ended
    /\ ended' = TRUE
    /\ pending' = [o \in Orders |-> {}]
    /\ UNCHANGED <<detectors, plan, retrying, topic, faults>>

------------------------------------------------------------------------------
(* The job, and the clock.                                                  *)

\* The source hands the next event of o to the job.
Consume(o) ==
    /\ topic[o] # <<>>
    /\ Process(o, Head(topic[o]).type, Head(topic[o]).time)
    /\ topic' = [topic EXCEPT ![o] = Tail(@)]
    /\ UNCHANGED <<plan, pending, retrying, faults, ended>>

Fire(o) == (\E t \in timers[o] : OnTimer(o, t)) /\ UNCHANGED simulator

\* The events of o that the job has not processed.
Waiting(o) == pending[o] \cup retrying[o] \cup {topic[o][i] : i \in DOMAIN topic[o]}

\* No event waits longer than MaxLag after its time.
TimePasses ==
    /\ \A o \in Orders : \A e \in Waiting(o) : now < e.time + MaxLag
    /\ Tick
    /\ UNCHANGED simulator

PipelineNext ==
    \/ \E o \in Orders, emitted \in SUBSET EdiTypes, ship \in 1 .. MaxDelay, inv \in 1 .. MaxDelay :
          Schedule(o, emitted, ship, inv)
    \/ \E o \in Orders : Emit(o) \/ Retry(o) \/ GiveUp(o) \/ Consume(o) \/ Fire(o)
    \/ End \/ TimePasses

PipelineSpec == PipelineInit /\ [][PipelineNext]_everything

------------------------------------------------------------------------------
(* Properties.                                                              *)

\* What plan_transaction's docstring says of a transaction with these events.
Violated(types) ==
    {v \in Violations :
        CASE v = "shipment_without_order"   -> "order" \notin types /\ "shipment" \in types
          [] v = "order_unfulfilled"        -> "order" \in types /\ "shipment" \notin types
          [] v = "invoice_without_shipment" -> types = {"order", "invoice"}}

Received(o) == {Entry(o, i).type : i \in 1 .. Len(history[o])}

\* Nothing of o is waiting any more, and no timer is left.
Finished(o) == plan[o] # Unplanned /\ Waiting(o) = {} /\ timers[o] = {}

Precedes(t, u) == \/ t = "order" /\ u \in {"shipment", "invoice"}
                  \/ t = "shipment" /\ u = "invoice"

\* No event of o was processed after one that it precedes.
InOrder(o) ==
    \A i, j \in 1 .. Len(history[o]) : Precedes(Entry(o, i).type, Entry(o, j).type) => i < j

IsFirst(o, i) == \A k \in 1 .. i - 1 : Entry(o, k).type # Entry(o, i).type

\* The first copies of o's events were processed in order, whenever a repeat came.
FirstsInOrder(o) ==
    \A i, j \in 1 .. Len(history[o]) :
        IsFirst(o, i) /\ IsFirst(o, j) /\ Precedes(Entry(o, i).type, Entry(o, j).type) => i < j

ReportedOnce(o, v) ==
    \E i \in Indices : \A j \in Indices : reports[<<v, o, j>>] = IF j = i THEN 1 ELSE 0

NotReported(o, v) == \A i \in Indices : reports[<<v, o, i>>] = 0

\* End to end: without a fault of the producer a transaction reaches the job
\* complete and in order.  What reaches it in order is reported exactly as
\* plan_transaction's docstring (lines 133-136) says of the events in it: each
\* violation once, no other, also with repeats next to their originals; an event
\* that was lost, or left on the heap at the end, counts as skipped.
InjectedIsReported ==
    \A o \in Orders : Finished(o) =>
        /\ faults = 0 /\ ~ended => InOrder(o) /\ Received(o) = plan[o]
        /\ InOrder(o) => \A v \in Violations :
              IF v \in Violated(Received(o)) THEN ReportedOnce(o, v) ELSE NotReported(o, v)

\* A repeat that comes after later events may cause a report of what was not
\* injected: order, shipment, order again leaves an unfulfilled order, and with
\* an invoice after it an unshipped one.  It never hides a violation: as long
\* as the first copies came in order, every violation of the events received is
\* reported, and shipment_without_order still exactly.
InjectedIsNotMissed ==
    \A o \in Orders : Finished(o) /\ FirstsInOrder(o) =>
        /\ \A v \in Violated(Received(o)) : ~NotReported(o, v)
        /\ IF "shipment_without_order" \in Violated(Received(o))
           THEN ReportedOnce(o, "shipment_without_order")
           ELSE NotReported(o, "shipment_without_order")

\* Nothing is reported of a transaction before it went wrong: an order is not
\* called unfulfilled while its shipment is planned, being retried or in the
\* topic, however late each of them is.
NoEarlyReport ==
    \A o \in Orders :
        ~NotReported(o, "order_unfulfilled") => "shipment" \notin {e.type : e \in Waiting(o)}
==============================================================================
