---------------------------- MODULE EdiDetectors ----------------------------
(***************************************************************************)
(* EDISequenceViolationJob: three detectors keyed by order_id, each a      *)
(* KeyedProcessFunction with its own keyed state, fed the same events in   *)
(* the same order per key.  They share nothing, so processing an event is  *)
(* one step of all three.  The third one works with processing-time timers.*)
(* The job is not checkpointed: when it is submitted again it starts with  *)
(* empty state.                                                            *)
(***************************************************************************)
EXTENDS Integers, Sequences

CONSTANTS
    Orders,         \* order ids
    Window,         \* windowMillis, in ticks of the clock
    MaxLag,         \* bound: ticks from an event's event_time to its processing
    MaxEvents,      \* bound: events per order id
    MaxRuns,        \* bound: submissions of the job
    Horizon         \* bound: the clock's last tick

ASSUME EdiAssumption == /\ Window \in Nat \ {0}
                        /\ MaxLag \in Nat /\ MaxEvents \in Nat
                        /\ MaxRuns \in Nat /\ Horizon \in Nat

\* "other" is any event_type that no detector knows.
Types == {"order", "shipment", "invoice", "other"}
Violations == {"shipment_without_order", "invoice_without_shipment", "order_unfulfilled"}

Indices == 1 .. MaxEvents
None == 0           \* a ValueState holding null, where an event is held by its index
NoTimer == -1       \* timerMs holding null

VARIABLES
    now,            \* the task manager's clock
    run,            \* which submission of the job this is
    history,        \* per order id, the events processed so far
    orderSeen,      \* "order-seen-swo"
    invoicing,      \* "pending-order-iws"
    shipmentSeen,   \* "shipment-seen-iws"
    unfulfilled,    \* "pending-order-ou"
    timerMs,        \* "timer-ms-ou"
    timers,         \* processing-time timers registered with Flink, per key
    reports         \* violations sunk: how often, per kind, order id and event

swo  == <<orderSeen>>
iws  == <<invoicing, shipmentSeen>>
ou   == <<unfulfilled, timerMs, timers>>
vars == <<now, run, history, orderSeen, invoicing, shipmentSeen,
          unfulfilled, timerMs, timers, reports>>

Event == [type : Types, at : Nat, time : Nat, run : Nat]

TypeOK ==
    /\ now \in 0 .. Horizon
    /\ run \in 1 .. MaxRuns + 1
    /\ history \in [Orders -> Seq(Event)]
    /\ \A o \in Orders : Len(history[o]) <= MaxEvents
    /\ orderSeen \in [Orders -> BOOLEAN]
    /\ invoicing \in [Orders -> Indices \cup {None}]
    /\ shipmentSeen \in [Orders -> BOOLEAN]
    /\ unfulfilled \in [Orders -> Indices \cup {None}]
    /\ timerMs \in [Orders -> Nat \cup {NoTimer}]
    /\ timers \in [Orders -> SUBSET Nat]
    /\ reports \in [Violations \X Orders \X Indices -> Nat]

Init ==
    /\ now = 0 /\ run = 1
    /\ history = [o \in Orders |-> <<>>]
    /\ orderSeen = [o \in Orders |-> FALSE]
    /\ invoicing = [o \in Orders |-> None]
    /\ shipmentSeen = [o \in Orders |-> FALSE]
    /\ unfulfilled = [o \in Orders |-> None]
    /\ timerMs = [o \in Orders |-> NoTimer]
    /\ timers = [o \in Orders |-> {}]
    /\ reports = [r \in Violations \X Orders \X Indices |-> 0]

------------------------------------------------------------------------------
(* ShipmentWithoutOrderDetector.processElement.                             *)

\* Mutant: a shipment is not remembered.
ShipmentWithoutOrder_NotRemembered(o, type) ==
    orderSeen' = [orderSeen EXCEPT ![o] = @ \/ type = "order"]

ShipmentWithoutOrder(o, type) ==
    orderSeen' = [orderSeen EXCEPT ![o] = @ \/ type \in {"order", "shipment"}]

ReportsSwo(o, type) == type = "shipment" /\ ~orderSeen[o]

------------------------------------------------------------------------------
(* InvoiceWithoutShipmentDetector.processElement, event i being processed.  *)

\* Mutant: a new order keeps the shipment of the previous one.
InvoiceWithoutShipment_StaleShipment(o, type, i) ==
    /\ invoicing' = [invoicing EXCEPT ![o] =
                        CASE type = "order" -> i [] type = "invoice" -> None [] OTHER -> @]
    /\ shipmentSeen' = [shipmentSeen EXCEPT ![o] = type # "invoice" /\ (@ \/ type = "shipment")]

InvoiceWithoutShipment(o, type, i) ==
    /\ invoicing' = [invoicing EXCEPT ![o] =
                        CASE type = "order" -> i [] type = "invoice" -> None [] OTHER -> @]
    /\ shipmentSeen' = [shipmentSeen EXCEPT ![o] =
                        CASE type \in {"order", "invoice"} -> FALSE
                          [] type = "shipment" -> TRUE [] OTHER -> @]

ReportsIws(o, type) == type = "invoice" /\ invoicing[o] # None /\ ~shipmentSeen[o]

------------------------------------------------------------------------------
(* OrderUnfulfilledDetector.processElement and onTimer.                     *)

\* Mutants: windowMinutes converted with too small a factor; the deadline in
\* the past.
Watch_ShortWindow(o, i, others) ==
    /\ unfulfilled' = [unfulfilled EXCEPT ![o] = i]
    /\ timerMs' = [timerMs EXCEPT ![o] = now + 1]
    /\ timers' = [timers EXCEPT ![o] = others \cup {now + 1}]

Watch_WrongSign(o, i, others) ==
    /\ unfulfilled' = [unfulfilled EXCEPT ![o] = i]
    /\ timerMs' = [timerMs EXCEPT ![o] = now - Window]
    /\ timers' = [timers EXCEPT ![o] = others \cup {now - Window}]

Watch(o, i, others) ==
    /\ unfulfilled' = [unfulfilled EXCEPT ![o] = i]
    /\ timerMs' = [timerMs EXCEPT ![o] = now + Window]
    /\ timers' = [timers EXCEPT ![o] = others \cup {now + Window}]

Unwatch(o) ==
    /\ unfulfilled' = [unfulfilled EXCEPT ![o] = None]
    /\ timerMs' = [timerMs EXCEPT ![o] = NoTimer]

\* Mutants: a repeated order leaves the earlier timer; a shipment is ignored.
OrderUnfulfilled_OldTimerStays(o, type, i) ==
    \/ type = "order" /\ Watch(o, i, timers[o])
    \/ type = "shipment" /\ Unwatch(o) /\ timers' = [timers EXCEPT ![o] = @ \ {timerMs[o]}]
    \/ type \notin {"order", "shipment"} /\ UNCHANGED ou

OrderUnfulfilled_TimerLost(o, type, i) ==
    \/ type = "order" /\ timerMs[o] = NoTimer /\ Watch(o, i, timers[o])
    \/ type = "order" /\ timerMs[o] # NoTimer
         /\ Unwatch(o) /\ timers' = [timers EXCEPT ![o] = @ \ {timerMs[o]}]
    \/ type = "shipment" /\ Unwatch(o) /\ timers' = [timers EXCEPT ![o] = @ \ {timerMs[o]}]
    \/ type \notin {"order", "shipment"} /\ UNCHANGED ou

OrderUnfulfilled(o, type, i) ==
    \/ type = "order" /\ Watch(o, i, timers[o] \ {timerMs[o]})
    \/ type = "shipment" /\ Unwatch(o) /\ timers' = [timers EXCEPT ![o] = @ \ {timerMs[o]}]
    \/ type \notin {"order", "shipment"} /\ UNCHANGED ou

Sunk(kind, o, i) == [reports EXCEPT ![<<kind, o, i>>] = @ + 1]

\* A timer that is due fires, at its time or later.
OnTimer(o, t) ==
    /\ t \in timers[o] /\ t <= now
    /\ timers' = [timers EXCEPT ![o] = @ \ {t}]
    /\ \/ /\ unfulfilled[o] = None
          /\ UNCHANGED <<unfulfilled, timerMs, reports>>
       \/ /\ unfulfilled[o] # None
          /\ unfulfilled' = [unfulfilled EXCEPT ![o] = None]
          /\ timerMs' = [timerMs EXCEPT ![o] = NoTimer]
          /\ reports' = Sunk("order_unfulfilled", o, unfulfilled[o])
    /\ UNCHANGED <<now, run, history, swo, iws>>

------------------------------------------------------------------------------
\* The three detectors process one event of order o.  (An event that ParseEdi
\* cannot parse is filtered out: nothing happens.  An absent order_id is "", an
\* order id like any other.)
Process(o, type, time) ==
    LET i == Len(history[o]) + 1 IN
    /\ i <= MaxEvents
    /\ history' = [history EXCEPT ![o] =
                     Append(@, [type |-> type, at |-> now, time |-> time, run |-> run])]
    /\ ShipmentWithoutOrder(o, type)
    /\ InvoiceWithoutShipment(o, type, i)
    /\ OrderUnfulfilled(o, type, i)
    /\ reports' = IF ReportsSwo(o, type) THEN Sunk("shipment_without_order", o, i)
                  ELSE IF ReportsIws(o, type) THEN Sunk("invoice_without_shipment", o, i)
                  ELSE reports
    /\ UNCHANGED <<now, run>>

Tick ==
    /\ now < Horizon
    /\ now' = now + 1
    /\ UNCHANGED <<run, history, swo, iws, ou, reports>>

\* The job failed and is submitted again: no state, no timers.
Resubmit ==
    /\ run <= MaxRuns
    /\ run' = run + 1
    /\ orderSeen' = [o \in Orders |-> FALSE]
    /\ invoicing' = [o \in Orders |-> None]
    /\ shipmentSeen' = [o \in Orders |-> FALSE]
    /\ unfulfilled' = [o \in Orders |-> None]
    /\ timerMs' = [o \in Orders |-> NoTimer]
    /\ timers' = [o \in Orders |-> {}]
    /\ UNCHANGED <<now, history, reports>>

\* An event comes after its event time, in any order with the others of its id.
Arrives(o, type) ==
    \E time \in 0 .. now : now - time <= MaxLag /\ Process(o, type, time)

Next == \/ \E o \in Orders, type \in Types : Arrives(o, type)
        \/ \E o \in Orders : \E t \in timers[o] : OnTimer(o, t)
        \/ Tick \/ Resubmit

Spec == Init /\ [][Next]_vars

\* Time passes, and Flink fires the timers that are due.
FairSpec == /\ Spec
            /\ WF_vars(Tick)
            /\ \A o \in Orders : WF_vars(\E t \in timers[o] : OnTimer(o, t))

------------------------------------------------------------------------------
(* Properties.                                                              *)

Entry(o, i) == history[o][i]

\* The events of o before i that the same run of the job has seen.
Before(o, i) == {j \in 1 .. i - 1 : Entry(o, j).run = Entry(o, i).run}

\* A shipment with no order before it, nor a shipment already reported.
OrphanShipment(o, i) ==
    /\ Entry(o, i).type = "shipment"
    /\ \A j \in Before(o, i) : Entry(o, j).type \notin {"order", "shipment"}

\* An invoice after an order, with nothing between that settles the order.
UnshippedInvoice(o, i) ==
    /\ Entry(o, i).type = "invoice"
    /\ \E j \in Before(o, i) :
          /\ Entry(o, j).type = "order"
          /\ \A k \in j + 1 .. i - 1 : Entry(o, k).type = "other"

\* shipment_without_order (javadoc lines 38-39, comment lines 163-164): sunk
\* once for the first shipment of an order id that no order preceded, and
\* never again for that id, whatever else arrives.
SwoExact ==
    \A o \in Orders : \A i \in 1 .. Len(history[o]) :
        reports[<<"shipment_without_order", o, i>>] = IF OrphanShipment(o, i) THEN 1 ELSE 0

\* invoice_without_shipment: sunk once for each invoice whose latest order was
\* not followed by a shipment or an invoice, also when orders, shipments and
\* invoices of an id repeat in any order.  This is the javadoc of the detector
\* (lines 175-176: "without an intervening SHIPMENT").  The javadoc of the job
\* (lines 40-41) asks for "no intervening SHIPMENT within the detection window":
\* an order whose shipment came after the window, then an invoice, would be a
\* violation too.  The code has no window here and reports none.
IwsExact ==
    \A o \in Orders : \A i \in 1 .. Len(history[o]) :
        reports[<<"invoice_without_shipment", o, i>>] = IF UnshippedInvoice(o, i) THEN 1 ELSE 0

Relevant == {"order", "shipment"}

\* order_unfulfilled is never sunk too early or for a replaced or fulfilled
\* order: it is for an order, at most once, its window has passed, and
\* whatever shipment or order followed arrived after the window.
OuSound ==
    \A o \in Orders : \A i \in 1 .. Len(history[o]) :
        reports[<<"order_unfulfilled", o, i>>] > 0 =>
            /\ reports[<<"order_unfulfilled", o, i>>] = 1
            /\ Entry(o, i).type = "order"
            /\ now >= Entry(o, i).at + Window
            /\ \A j \in i + 1 .. Len(history[o]) :
                  Entry(o, j).type \in Relevant => Entry(o, j).at >= Entry(o, i).at + Window

\* The order at i is the last relevant event of its id in this run.
Open(o, i) ==
    /\ i <= Len(history[o])
    /\ Entry(o, i).type = "order" /\ Entry(o, i).run = run
    /\ \A j \in i + 1 .. Len(history[o]) : Entry(o, j).type \notin Relevant

\* No open order is forgotten: it is reported, or held in the detector's state
\* with exactly one timer registered, at its own deadline (repeated orders and
\* shipments leave no stale timer behind and never cancel the live one).
OpenIsWatched ==
    \A o \in Orders : \A i \in 1 .. Len(history[o]) :
        Open(o, i) => \/ reports[<<"order_unfulfilled", o, i>>] = 1
                      \/ unfulfilled[o] = i /\ timers[o] = {Entry(o, i).at + Window}

\* An order that stays open is reported in the end.
OpenIsReported ==
    \A o \in Orders : \A i \in Indices :
        (Open(o, i) /\ Entry(o, i).at + Window <= Horizon)
            ~> (reports[<<"order_unfulfilled", o, i>>] = 1 \/ ~Open(o, i))
==============================================================================
