-------------------------- MODULE EdiDetectorsProofs --------------------------
(***************************************************************************)
(* Theorems about EdiDetectors, for every set of order ids, every window   *)
(* and every bound: the keyed state of each detector says exactly what its *)
(* declarative definition says of the events processed by this run.        *)
(***************************************************************************)
EXTENDS EdiDetectors, SequenceTheorems, TLAPS

Report(kind, o, i) == reports[<<kind, o, i>>]

\* Nothing is reported of an event that was not processed; event stamps lie in
\* the past.
Past(o) ==
    /\ \A i \in Indices : i > Len(history[o]) =>
          \A kind \in Violations : Report(kind, o, i) = 0
    /\ \A i \in 1 .. Len(history[o]) : Entry(o, i).at <= now /\ Entry(o, i).run <= run

\* order-seen-swo: this run saw an order or a shipment of o.
SeenInv(o) ==
    orderSeen[o] <=> \E j \in 1 .. Len(history[o]) :
                        Entry(o, j).run = run /\ Entry(o, j).type \in Relevant

\* pending-order-iws and shipment-seen-iws: the last event of o that matters to
\* the detector, in this run, is an order.
AwaitInv(o) ==
    (invoicing[o] # None /\ ~shipmentSeen[o])
        <=> \E j \in 1 .. Len(history[o]) :
               /\ Entry(o, j).run = run /\ Entry(o, j).type = "order"
               /\ \A k \in j + 1 .. Len(history[o]) : Entry(o, k).type = "other"

\* pending-order-ou, timer-ms-ou and Flink's timers agree, and hold the open
\* order that is not reported yet.
WatchInv(o) ==
    /\ timers[o] = IF timerMs[o] = NoTimer THEN {} ELSE {timerMs[o]}
    /\ timerMs[o] = NoTimer <=> unfulfilled[o] = None
    /\ unfulfilled[o] # None =>
          /\ Open(o, unfulfilled[o])
          /\ Report("order_unfulfilled", o, unfulfilled[o]) = 0
          /\ timerMs[o] = Entry(o, unfulfilled[o]).at + Window
    /\ \A i \in 1 .. Len(history[o]) : Open(o, i) =>
          unfulfilled[o] = i \/ Report("order_unfulfilled", o, i) = 1

SwoAt(o) == \A i \in 1 .. Len(history[o]) :
    Report("shipment_without_order", o, i) = IF OrphanShipment(o, i) THEN 1 ELSE 0

IwsAt(o) == \A i \in 1 .. Len(history[o]) :
    Report("invoice_without_shipment", o, i) = IF UnshippedInvoice(o, i) THEN 1 ELSE 0

SoundAt(o, i) ==
    Report("order_unfulfilled", o, i) > 0 =>
        /\ Report("order_unfulfilled", o, i) = 1
        /\ Entry(o, i).type = "order"
        /\ now >= Entry(o, i).at + Window
        /\ \A j \in i + 1 .. Len(history[o]) :
              Entry(o, j).type \in Relevant => Entry(o, j).at >= Entry(o, i).at + Window

OuAt(o) == \A i \in 1 .. Len(history[o]) : SoundAt(o, i)

KeyInv(o) == Past(o) /\ SeenInv(o) /\ AwaitInv(o) /\ WatchInv(o) /\ SwoAt(o) /\ IwsAt(o) /\ OuAt(o)

IndInv == TypeOK /\ \A o \in Orders : KeyInv(o)

------------------------------------------------------------------------------
(* What the steps do to the history and to the reports.                     *)

LEMMA IndInit == Init => IndInv
  <1> SUFFICES ASSUME Init PROVE IndInv
    OBVIOUS
  <1> USE EdiAssumption DEF Init
  <1>1. TypeOK
    BY DEF TypeOK, Indices, None, NoTimer
  <1>2. ASSUME NEW o \in Orders PROVE KeyInv(o)
    <2>1. Len(history[o]) = 0 /\ \A kind \in Violations, i \in Indices : Report(kind, o, i) = 0
      BY DEF Report
    <2>2. Past(o) /\ SwoAt(o) /\ IwsAt(o) /\ OuAt(o)
      BY <2>1 DEF Past, SwoAt, IwsAt, OuAt
    <2>3. SeenInv(o) /\ AwaitInv(o)
      BY <2>1 DEF SeenInv, AwaitInv
    <2>4. WatchInv(o)
      BY <2>1 DEF WatchInv
    <2>5. QED
      BY <2>2, <2>3, <2>4 DEF KeyInv
  <1>3. QED
    BY <1>1, <1>2 DEF IndInv

LEMMA HistoryStep ==
    ASSUME TypeOK, NEW o \in Orders, NEW type \in Types, NEW time \in 0 .. now,
           Process(o, type, time)
    PROVE  /\ Len(history[o]) \in Nat /\ Len(history[o]) + 1 \in Indices
           /\ Len(history'[o]) = Len(history[o]) + 1
           /\ \A j \in 1 .. Len(history[o]) : history'[o][j] = history[o][j]
           /\ history'[o][Len(history[o]) + 1] =
                 [type |-> type, at |-> now, time |-> time, run |-> run]
           /\ \A q \in Orders : q # o => history'[q] = history[q]
           /\ history' \in [Orders -> Seq(Event)]
  <1> USE EdiAssumption DEF TypeOK
  <1> DEFINE e == [type |-> type, at |-> now, time |-> time, run |-> run]
  <1>1. e \in Event /\ history[o] \in Seq(Event)
    <2>1. now \in Nat /\ time \in Nat /\ run \in Nat
      OBVIOUS
    <2>2. history[o] \in Seq(Event)
      OBVIOUS
    <2>3. QED
      BY <2>1, <2>2 DEF Event
  <1>2. history' = [history EXCEPT ![o] = Append(@, e)] /\ Len(history[o]) + 1 <= MaxEvents
    BY DEF Process
  <1>3. history'[o] = Append(history[o], e) /\ Append(history[o], e) \in Seq(Event)
    BY <1>1, <1>2
  <1>4. \A q \in Orders : q # o => history'[q] = history[q]
    BY <1>2
  <1>5. QED
    BY <1>1, <1>2, <1>3, <1>4 DEF Indices

LEMMA Increment ==
    ASSUME NEW S, NEW f \in [S -> Nat], NEW r \in S
    PROVE  /\ [f EXCEPT ![r] = @ + 1] \in [S -> Nat]
           /\ \A q \in S : [f EXCEPT ![r] = @ + 1][q] = IF q = r THEN f[q] + 1 ELSE f[q]
  OBVIOUS

\* One more violation of a kind for event i of o, and nothing else.
LEMMA SunkReport ==
    ASSUME TypeOK, NEW v \in Violations, NEW o \in Orders, NEW i \in Indices,
           reports' = Sunk(v, o, i)
    PROVE  /\ reports' \in [Violations \X Orders \X Indices -> Nat]
           /\ \A kind \in Violations, q \in Orders, j \in Indices :
                 Report(kind, q, j)' = Report(kind, q, j)
                     + (IF kind = v /\ q = o /\ j = i THEN 1 ELSE 0)
  <1> DEFINE S == Violations \X Orders \X Indices
  <1>1. <<v, o, i>> \in S /\ reports \in [S -> Nat]
    BY DEF TypeOK
  <1>2. reports' = [reports EXCEPT ![<<v, o, i>>] = @ + 1]
    BY DEF Sunk
  <1>3. /\ reports' \in [S -> Nat]
        /\ \A r \in S : reports'[r] = IF r = <<v, o, i>> THEN reports[r] + 1 ELSE reports[r]
    BY <1>1, <1>2, Increment
  <1>4. ASSUME NEW kind \in Violations, NEW q \in Orders, NEW j \in Indices
        PROVE  Report(kind, q, j)' = Report(kind, q, j)
                     + (IF kind = v /\ q = o /\ j = i THEN 1 ELSE 0)
    <2>1. <<kind, q, j>> \in S
      OBVIOUS
    <2>2. <<kind, q, j>> = <<v, o, i>> <=> kind = v /\ q = o /\ j = i
      OBVIOUS
    <2>3. reports[<<kind, q, j>>] \in Nat
      BY <1>1, <2>1
    <2>4. reports'[<<kind, q, j>>] =
             IF kind = v /\ q = o /\ j = i THEN reports[<<kind, q, j>>] + 1 ELSE reports[<<kind, q, j>>]
      BY <1>3, <2>1, <2>2
    <2>5. QED
      BY <2>3, <2>4 DEF Report
  <1>5. QED
    BY <1>3, <1>4

\* Whether processing an event of o of a type sinks a violation of a kind.
Sinks(kind, o, type) ==
    \/ kind = "shipment_without_order" /\ ReportsSwo(o, type)
    \/ kind = "invoice_without_shipment" /\ ReportsIws(o, type)

LEMMA ReportsStep ==
    ASSUME TypeOK, NEW o \in Orders, NEW type \in Types, NEW time \in 0 .. now,
           Process(o, type, time)
    PROVE  /\ reports' \in [Violations \X Orders \X Indices -> Nat]
           /\ \A kind \in Violations, q \in Orders, i \in Indices :
                 Report(kind, q, i)' = Report(kind, q, i)
                     + (IF Sinks(kind, o, type) /\ q = o /\ i = Len(history[o]) + 1 THEN 1 ELSE 0)
  <1> DEFINE n == Len(history[o]) + 1
  <1>1. n \in Indices
    BY HistoryStep
  <1>2. \A kind \in Violations, q \in Orders, i \in Indices : Report(kind, q, i) \in Nat
    BY DEF TypeOK, Report
  <1>3. "shipment_without_order" \in Violations /\ "invoice_without_shipment" \in Violations
    BY DEF Violations
  <1>4. CASE ReportsSwo(o, type)
    <2>1. reports' = Sunk("shipment_without_order", o, n)
      BY <1>4 DEF Process
    <2>2. \A kind \in Violations : Sinks(kind, o, type) <=> kind = "shipment_without_order"
      BY <1>4 DEF ReportsSwo, ReportsIws, Sinks
    <2>3. /\ reports' \in [Violations \X Orders \X Indices -> Nat]
          /\ \A kind \in Violations, q \in Orders, i \in Indices :
                Report(kind, q, i)' = Report(kind, q, i)
                    + (IF kind = "shipment_without_order" /\ q = o /\ i = n THEN 1 ELSE 0)
      <3> HIDE DEF n
      <3>1. "shipment_without_order" \in Violations /\ n \in Indices
        BY <1>1, <1>3
      <3>2. reports' \in [Violations \X Orders \X Indices -> Nat]
        BY <2>1, <3>1, SunkReport
      <3>3. ASSUME NEW kind \in Violations, NEW q \in Orders, NEW j \in Indices
            PROVE  Report(kind, q, j)' = Report(kind, q, j)
                    + (IF kind = "shipment_without_order" /\ q = o /\ j = n THEN 1 ELSE 0)
        BY <2>1, <3>1, SunkReport
      <3>4. QED
        BY <3>2, <3>3
    <2>4. QED
      BY <2>2, <2>3
  <1>5. CASE ~ReportsSwo(o, type) /\ ReportsIws(o, type)
    <2>1. reports' = Sunk("invoice_without_shipment", o, n)
      BY <1>5 DEF Process
    <2>2. \A kind \in Violations : Sinks(kind, o, type) <=> kind = "invoice_without_shipment"
      BY <1>5 DEF Sinks
    <2>3. /\ reports' \in [Violations \X Orders \X Indices -> Nat]
          /\ \A kind \in Violations, q \in Orders, i \in Indices :
                Report(kind, q, i)' = Report(kind, q, i)
                    + (IF kind = "invoice_without_shipment" /\ q = o /\ i = n THEN 1 ELSE 0)
      <3> HIDE DEF n
      <3>1. "invoice_without_shipment" \in Violations /\ n \in Indices
        BY <1>1, <1>3
      <3>2. reports' \in [Violations \X Orders \X Indices -> Nat]
        BY <2>1, <3>1, SunkReport
      <3>3. ASSUME NEW kind \in Violations, NEW q \in Orders, NEW j \in Indices
            PROVE  Report(kind, q, j)' = Report(kind, q, j)
                    + (IF kind = "invoice_without_shipment" /\ q = o /\ j = n THEN 1 ELSE 0)
        BY <2>1, <3>1, SunkReport
      <3>4. QED
        BY <3>2, <3>3
    <2>4. QED
      BY <2>2, <2>3
  <1>6. CASE ~ReportsSwo(o, type) /\ ~ReportsIws(o, type)
    <2>1. reports' = reports
      BY <1>6 DEF Process
    <2>2. \A kind \in Violations : ~Sinks(kind, o, type)
      BY <1>6 DEF Sinks
    <2>3. reports' \in [Violations \X Orders \X Indices -> Nat]
      BY <2>1 DEF TypeOK
    <2>4. \A kind \in Violations, q \in Orders, i \in Indices :
             Report(kind, q, i)' = Report(kind, q, i) + 0
      <3>1. ASSUME NEW kind \in Violations, NEW q \in Orders, NEW i \in Indices
            PROVE  reports'[<<kind, q, i>>] = reports[<<kind, q, i>>] + 0
        <4>1. reports[<<kind, q, i>>] \in Nat
          BY <1>2 DEF Report
        <4>2. QED
          BY <2>1, <4>1
      <3>2. QED
        BY <3>1 DEF Report
    <2>5. QED
      BY <2>2, <2>3, <2>4
  <1>7. QED
    BY <1>4, <1>5, <1>6

LEMMA TimersType ==
    ASSUME TypeOK, NEW o \in Orders, NEW type \in Types, NEW i \in Indices,
           OrderUnfulfilled(o, type, i)
    PROVE  /\ unfulfilled' \in [Orders -> Indices \cup {None}]
           /\ timerMs' \in [Orders -> Nat \cup {NoTimer}]
           /\ timers' \in [Orders -> SUBSET Nat]
           /\ \A q \in Orders : q # o =>
                 /\ unfulfilled'[q] = unfulfilled[q] /\ timerMs'[q] = timerMs[q]
                 /\ timers'[q] = timers[q]
  <1> USE EdiAssumption DEF TypeOK
  <1>1. now + Window \in Nat
    OBVIOUS
  <1>2. CASE type = "order"
    <2>1. Watch(o, i, timers[o] \ {timerMs[o]})
      BY <1>2 DEF OrderUnfulfilled
    <2>2. (timers[o] \ {timerMs[o]}) \cup {now + Window} \in SUBSET Nat
      BY <1>1
    <2>3. QED
      BY <1>1, <2>1, <2>2 DEF Watch
  <1>3. CASE type = "shipment"
    BY <1>3 DEF OrderUnfulfilled, Unwatch, Relevant
  <1>4. CASE type \notin {"order", "shipment"}
    BY <1>4 DEF OrderUnfulfilled, ou
  <1>5. QED
    BY <1>2, <1>3, <1>4

LEMMA TypeNext == TypeOK /\ [Next]_vars => TypeOK'
  <1> SUFFICES ASSUME TypeOK, [Next]_vars PROVE TypeOK'
    OBVIOUS
  <1> USE EdiAssumption
  <1>1. ASSUME NEW o \in Orders, NEW type \in Types, NEW time \in 0 .. now, Process(o, type, time)
        PROVE  TypeOK'
    <2>1. history' \in [Orders -> Seq(Event)] /\ Len(history[o]) + 1 \in Indices
          /\ \A q \in Orders : Len(history'[q]) <= MaxEvents
      <3>1. /\ Len(history[o]) + 1 \in Indices /\ Len(history'[o]) = Len(history[o]) + 1
            /\ \A q \in Orders : q # o => history'[q] = history[q]
            /\ history' \in [Orders -> Seq(Event)]
        BY <1>1, HistoryStep
      <3>2. \A q \in Orders : Len(history[q]) <= MaxEvents
        BY DEF TypeOK
      <3>3. QED
        BY <3>1, <3>2 DEF Indices
    <2>2. orderSeen' \in [Orders -> BOOLEAN]
      BY <1>1 DEF Process, ShipmentWithoutOrder, TypeOK
    <2>3. invoicing' \in [Orders -> Indices \cup {None}] /\ shipmentSeen' \in [Orders -> BOOLEAN]
      BY <1>1, <2>1 DEF Process, InvoiceWithoutShipment, TypeOK
    <2>4. /\ unfulfilled' \in [Orders -> Indices \cup {None}]
          /\ timerMs' \in [Orders -> Nat \cup {NoTimer}]
          /\ timers' \in [Orders -> SUBSET Nat]
      BY <1>1, <2>1, TimersType DEF Process
    <2>5. reports' \in [Violations \X Orders \X Indices -> Nat]
      BY <1>1, ReportsStep
    <2>6. UNCHANGED <<now, run>>
      BY <1>1 DEF Process
    <2>7. QED
      BY <2>1, <2>2, <2>3, <2>4, <2>5, <2>6 DEF TypeOK
  <1>2. ASSUME NEW o \in Orders, NEW t \in timers[o], OnTimer(o, t) PROVE TypeOK'
    <2>1. reports' \in [Violations \X Orders \X Indices -> Nat]
      <3>1. CASE unfulfilled[o] = None
        BY <1>2, <3>1 DEF OnTimer, TypeOK
      <3>2. CASE unfulfilled[o] # None
        <4>1. "order_unfulfilled" \in Violations /\ unfulfilled[o] \in Indices
          BY <3>2 DEF TypeOK, Violations
        <4>2. reports' = Sunk("order_unfulfilled", o, unfulfilled[o])
          BY <1>2, <3>2 DEF OnTimer
        <4>3. QED
          BY <4>1, <4>2, SunkReport
      <3>3. QED
        BY <3>1, <3>2
    <2>2. QED
      BY <1>2, <2>1 DEF OnTimer, TypeOK, swo, iws
  <1>3. ASSUME Tick PROVE TypeOK'
    BY <1>3 DEF Tick, TypeOK, swo, iws, ou
  <1>4. ASSUME Resubmit PROVE TypeOK'
    BY <1>4 DEF Resubmit, TypeOK
  <1>5. CASE UNCHANGED vars
    BY <1>5 DEF vars, TypeOK
  <1>6. QED
    BY <1>1, <1>2, <1>3, <1>4, <1>5 DEF Next, Arrives

\* The type invariant, for any order ids, window and bounds.
THEOREM EdiTypeCorrect == Spec => []TypeOK
  <1>1. Init => TypeOK
    BY IndInit DEF IndInv
  <1>2. QED
    BY <1>1, TypeNext, PTL DEF Spec

------------------------------------------------------------------------------
(* One order id at a time.                                                  *)

\* Nothing that concerns q changes.
SameKey(q) ==
    /\ history'[q] = history[q]
    /\ orderSeen'[q] = orderSeen[q]
    /\ invoicing'[q] = invoicing[q] /\ shipmentSeen'[q] = shipmentSeen[q]
    /\ unfulfilled'[q] = unfulfilled[q] /\ timerMs'[q] = timerMs[q] /\ timers'[q] = timers[q]
    /\ \A kind \in Violations, i \in Indices : reports'[<<kind, q, i>>] = reports[<<kind, q, i>>]

\* The detectors' states and reports of a key do not depend on other keys, and
\* what they say stays true as time passes.
LEMMA Frame ==
    ASSUME TypeOK, NEW q \in Orders, KeyInv(q), SameKey(q),
           run' = run, now' \in Nat, now <= now'
    PROVE  KeyInv(q)'
  <1> USE DEF SameKey
  <1>0. /\ Len(history[q]) \in Nat /\ \A i \in 1 .. Len(history[q]) : i \in Indices
        /\ \A i \in 1 .. Len(history[q]) : Entry(q, i).at \in Nat
        /\ now \in Nat
    <2>1. history[q] \in Seq(Event) /\ Len(history[q]) <= MaxEvents /\ now \in Nat
      BY DEF TypeOK
    <2>2. \A i \in 1 .. Len(history[q]) : history[q][i] \in Event
      BY <2>1
    <2>3. QED
      BY <2>1, <2>2, EdiAssumption DEF Event, Entry, Indices
  <1>1. Past(q)'
    BY <1>0 DEF KeyInv, Past, Entry, Report
  <1>2. SeenInv(q)'
    BY DEF KeyInv, SeenInv, Entry
  <1>3. AwaitInv(q)'
    BY DEF KeyInv, AwaitInv, Entry
  <1>4. WatchInv(q)'
    <2>1. "order_unfulfilled" \in Violations /\ unfulfilled[q] \in Indices \cup {None}
      BY DEF Violations, TypeOK
    <2>2. QED
      BY <1>0, <2>1 DEF KeyInv, WatchInv, Entry, Open, Report
  <1>5. SwoAt(q)'
    <2>1. "shipment_without_order" \in Violations
      BY DEF Violations
    <2>2. QED
      BY <1>0, <2>1 DEF KeyInv, SwoAt, Entry, OrphanShipment, Before, Report
  <1>6. IwsAt(q)'
    <2>1. "invoice_without_shipment" \in Violations
      BY DEF Violations
    <2>2. QED
      BY <1>0, <2>1 DEF KeyInv, IwsAt, Entry, UnshippedInvoice, Before, Report
  <1>7. OuAt(q)'
    <2>1. "order_unfulfilled" \in Violations
      BY DEF Violations
    <2>2. QED
      BY <1>0, <2>1, EdiAssumption DEF KeyInv, OuAt, SoundAt, Entry, Report
  <1>8. QED
    BY <1>1, <1>2, <1>3, <1>4, <1>5, <1>6, <1>7 DEF KeyInv

\* What processing an event of o does to the history of o and to its reports,
\* in the form the detectors' lemmas use.
LEMMA KeyStep ==
    ASSUME TypeOK, NEW o \in Orders, KeyInv(o), NEW type \in Types, NEW time \in 0 .. now,
           Process(o, type, time), NEW n, n = Len(history[o]) + 1
    PROVE  /\ n \in Nat \ {0} /\ n \in Indices
           /\ Len(history[o]) = n - 1 /\ Len(history'[o]) = n
           /\ \A i \in 1 .. n : i \in Indices
           /\ \A i \in 1 .. n - 1 : history'[o][i] = history[o][i]
           /\ \A i \in 1 .. n - 1 : history[o][i].at \in Nat /\ history[o][i].at <= now
           /\ \A i \in 1 .. n - 1 : history[o][i].run <= run
           /\ history'[o][n].type = type /\ history'[o][n].at = now /\ history'[o][n].run = run
           /\ now' = now /\ run' = run /\ now \in Nat /\ run \in Nat
           /\ \A kind \in Violations : \A i \in Indices \ {n} :
                 reports'[<<kind, o, i>>] = reports[<<kind, o, i>>]
           /\ \A kind \in Violations :
                 reports'[<<kind, o, n>>] = IF Sinks(kind, o, type) THEN 1 ELSE 0
  <1>1. /\ n \in Nat \ {0} /\ n \in Indices
        /\ Len(history[o]) = n - 1 /\ Len(history'[o]) = n
        /\ \A i \in 1 .. n : i \in Indices
        /\ \A i \in 1 .. n - 1 : history'[o][i] = history[o][i]
        /\ history'[o][n] = [type |-> type, at |-> now, time |-> time, run |-> run]
    BY HistoryStep, EdiAssumption DEF Indices
  <1>2. \A i \in 1 .. n - 1 : history[o][i].at \in Nat
    <2>1. \A i \in 1 .. n - 1 : history[o][i] \in Event
      BY <1>1 DEF TypeOK
    <2>2. QED
      BY <2>1 DEF Event
  <1>3. \A i \in 1 .. n - 1 : history[o][i].at <= now /\ history[o][i].run <= run
    BY <1>1 DEF KeyInv, Past, Entry
  <1>4. now' = now /\ run' = run /\ now \in Nat /\ run \in Nat
    BY EdiAssumption DEF Process, TypeOK
  <1>5. ASSUME NEW kind \in Violations, NEW i \in Indices
        PROVE  reports'[<<kind, o, i>>] = reports[<<kind, o, i>>]
                   + (IF Sinks(kind, o, type) /\ i = n THEN 1 ELSE 0)
    <2>1. Report(kind, o, i)' = Report(kind, o, i)
                   + (IF Sinks(kind, o, type) /\ o = o /\ i = Len(history[o]) + 1 THEN 1 ELSE 0)
      BY ReportsStep
    <2>2. QED
      BY <2>1 DEF Report
  <1>6. ASSUME NEW kind \in Violations, NEW i \in Indices \ {n}
        PROVE  reports'[<<kind, o, i>>] = reports[<<kind, o, i>>]
    <2>1. reports[<<kind, o, i>>] \in Nat
      BY DEF TypeOK
    <2>2. QED
      BY <1>5, <2>1
  <1>7. ASSUME NEW kind \in Violations
        PROVE  reports'[<<kind, o, n>>] = IF Sinks(kind, o, type) THEN 1 ELSE 0
    <2>1. reports[<<kind, o, n>>] = 0
      BY <1>1 DEF KeyInv, Past, Report
    <2>2. QED
      BY <1>1, <1>5, <2>1
  <1>8. history'[o][n].type = type /\ history'[o][n].at = now /\ history'[o][n].run = run
    BY <1>1
  <1>9. \A i \in 1 .. n - 1 : history[o][i].at \in Nat /\ history[o][i].at <= now
    BY <1>2, <1>3
  <1>10. \A i \in 1 .. n - 1 : history[o][i].run <= run
    BY <1>3
  <1>11. QED
    BY <1>1, <1>4, <1>6, <1>7, <1>8, <1>9, <1>10, Zenon

\* ShipmentWithoutOrderDetector.
LEMMA SwoStep ==
    ASSUME TypeOK, NEW o \in Orders, KeyInv(o), NEW type \in Types, NEW time \in 0 .. now,
           Process(o, type, time)
    PROVE  SeenInv(o)' /\ SwoAt(o)'
  <1>0. PICK n : n = Len(history[o]) + 1
    OBVIOUS
  <1> HIDE <1>0
  <1>1. /\ n \in Nat \ {0}
        /\ Len(history[o]) = n - 1 /\ Len(history'[o]) = n
        /\ \A i \in 1 .. n : i \in Indices
        /\ \A i \in 1 .. n - 1 : history'[o][i] = history[o][i]
        /\ history'[o][n].type = type /\ history'[o][n].run = run
        /\ run' = run
    BY <1>0, KeyStep
  <1>2. SeenInv(o) /\ SwoAt(o)
    BY DEF KeyInv
  <1>3. orderSeen'[o] = (orderSeen[o] \/ type \in {"order", "shipment"})
    BY DEF Process, ShipmentWithoutOrder, TypeOK
  <1>4. SeenInv(o)'
    <2>1. orderSeen[o] <=> \E j \in 1 .. n - 1 :
                              history[o][j].run = run /\ history[o][j].type \in Relevant
      BY <1>1, <1>2 DEF SeenInv, Entry
    <2>2. (\E j \in 1 .. n : history'[o][j].run = run /\ history'[o][j].type \in Relevant)
             <=> type \in Relevant \/ \E j \in 1 .. n - 1 :
                    history[o][j].run = run /\ history[o][j].type \in Relevant
      <3>1. n \in 1 .. n /\ (\A j \in 1 .. n : j # n => j \in 1 .. n - 1)
                         /\ \A j \in 1 .. n - 1 : j \in 1 .. n
        BY <1>1
      <3>2. QED
        BY <1>1, <3>1
    <2>3. orderSeen'[o] <=> \E j \in 1 .. n :
                               history'[o][j].run = run /\ history'[o][j].type \in Relevant
      BY <1>3, <2>1, <2>2 DEF Relevant
    <2>4. QED
      BY <1>1, <2>3 DEF SeenInv, Entry
  <1>5. ASSUME NEW i \in 1 .. n
        PROVE  Report("shipment_without_order", o, i)' = IF OrphanShipment(o, i)' THEN 1 ELSE 0
    <2>1. "shipment_without_order" \in Violations
      BY DEF Violations
    <2>2. CASE i = n
      <3>1. OrphanShipment(o, n)' <=> type = "shipment" /\ ~orderSeen[o]
        BY <1>1, <1>2 DEF OrphanShipment, Before, Entry, SeenInv, Relevant
      <3>2. Sinks("shipment_without_order", o, type) <=> type = "shipment" /\ ~orderSeen[o]
        BY DEF Sinks, ReportsSwo
      <3>3. reports'[<<"shipment_without_order", o, n>>] =
               IF Sinks("shipment_without_order", o, type) THEN 1 ELSE 0
        BY <1>0, <2>1, KeyStep
      <3>4. QED
        BY <2>2, <3>1, <3>2, <3>3 DEF Report
    <2>3. CASE i # n
      <3>1. OrphanShipment(o, i)' <=> OrphanShipment(o, i)
        BY <1>1, <2>3 DEF OrphanShipment, Before, Entry
      <3>2. reports'[<<"shipment_without_order", o, i>>] = reports[<<"shipment_without_order", o, i>>]
        BY <1>0, <1>1, <2>1, <2>3, KeyStep
      <3>3. i \in 1 .. Len(history[o])
        BY <1>1, <2>3
      <3>4. QED
        BY <1>2, <3>1, <3>2, <3>3 DEF SwoAt, Report
    <2>4. QED
      BY <2>2, <2>3
  <1>6. SwoAt(o)'
    BY <1>1, <1>5 DEF SwoAt
  <1>7. QED
    BY <1>4, <1>6

\* InvoiceWithoutShipmentDetector.
LEMMA IwsStep ==
    ASSUME TypeOK, NEW o \in Orders, KeyInv(o), NEW type \in Types, NEW time \in 0 .. now,
           Process(o, type, time)
    PROVE  AwaitInv(o)' /\ IwsAt(o)'
  <1>0. PICK n : n = Len(history[o]) + 1
    OBVIOUS
  <1> HIDE <1>0
  <1>1. /\ n \in Nat \ {0}
        /\ Len(history[o]) = n - 1 /\ Len(history'[o]) = n
        /\ \A i \in 1 .. n : i \in Indices
        /\ \A i \in 1 .. n - 1 : history'[o][i] = history[o][i]
        /\ history'[o][n].type = type /\ history'[o][n].run = run
        /\ run' = run
    BY <1>0, KeyStep
  <1>2. AwaitInv(o) /\ IwsAt(o)
    BY DEF KeyInv
  <1> DEFINE awaits == invoicing[o] # None /\ ~shipmentSeen[o]
             Latest(j) == /\ history[o][j].run = run /\ history[o][j].type = "order"
                          /\ \A k \in j + 1 .. n - 1 : history[o][k].type = "other"
  <1>3. awaits <=> \E j \in 1 .. n - 1 : Latest(j)
    BY <1>1, <1>2 DEF AwaitInv, Entry
  <1>4. AwaitInv(o)'
    <2>1. InvoiceWithoutShipment(o, type, n)
      BY <1>0 DEF Process
    <2>2. (invoicing'[o] # None /\ ~shipmentSeen'[o])
             <=> type = "order" \/ (type = "other" /\ awaits)
      <3>1. n # None
        BY <1>1 DEF None
      <3>2. invoicing'[o] = CASE type = "order" -> n [] type = "invoice" -> None
                              [] OTHER -> invoicing[o]
        BY <2>1 DEF InvoiceWithoutShipment, TypeOK
      <3>3. shipmentSeen'[o] = CASE type \in {"order", "invoice"} -> FALSE
                                 [] type = "shipment" -> TRUE [] OTHER -> shipmentSeen[o]
        BY <2>1 DEF InvoiceWithoutShipment, TypeOK
      <3>4. QED
        BY <3>1, <3>2, <3>3 DEF Types
    <2>3. ASSUME NEW j \in 1 .. n
          PROVE  (/\ history'[o][j].run = run /\ history'[o][j].type = "order"
                  /\ \A k \in j + 1 .. n : history'[o][k].type = "other")
                 <=> \/ j = n /\ type = "order"
                     \/ j # n /\ type = "other" /\ Latest(j)
      BY <1>1
    <2>4. (\E j \in 1 .. n :
              /\ history'[o][j].run = run /\ history'[o][j].type = "order"
              /\ \A k \in j + 1 .. n : history'[o][k].type = "other")
             <=> type = "order" \/ (type = "other" /\ \E j \in 1 .. n - 1 : Latest(j))
      <3> HIDE DEF Latest
      <3> QED
        BY <1>1, <2>3
    <2>5. QED
      BY <1>1, <1>3, <2>2, <2>4 DEF AwaitInv, Entry
  <1>5. ASSUME NEW i \in 1 .. n
        PROVE  Report("invoice_without_shipment", o, i)' = IF UnshippedInvoice(o, i)' THEN 1 ELSE 0
    <2>1. "invoice_without_shipment" \in Violations
      BY DEF Violations
    <2>2. CASE i = n
      <3>1. UnshippedInvoice(o, n)' <=> type = "invoice" /\ awaits
        <4>1. UnshippedInvoice(o, n)' <=> type = "invoice" /\ \E j \in 1 .. n - 1 : Latest(j)
          BY <1>1 DEF UnshippedInvoice, Before, Entry
        <4>2. QED
          BY <1>3, <4>1
      <3>2. Sinks("invoice_without_shipment", o, type) <=> type = "invoice" /\ awaits
        BY DEF Sinks, ReportsIws
      <3>3. reports'[<<"invoice_without_shipment", o, n>>] =
               IF Sinks("invoice_without_shipment", o, type) THEN 1 ELSE 0
        BY <1>0, <2>1, KeyStep
      <3>4. QED
        BY <2>2, <3>1, <3>2, <3>3 DEF Report
    <2>3. CASE i # n
      <3>1. UnshippedInvoice(o, i)' <=> UnshippedInvoice(o, i)
        <4>1. i \in 1 .. n - 1 /\ \A k \in 1 .. i : Entry(o, k)' = Entry(o, k)
          BY <1>1, <2>3 DEF Entry
        <4>2. Before(o, i)' = Before(o, i)
          BY <4>1 DEF Before
        <4>3. \A j \in Before(o, i) : \A k \in j + 1 .. i - 1 : Entry(o, k)' = Entry(o, k)
          BY <4>1 DEF Before
        <4>4. \A j \in Before(o, i) : Entry(o, j)' = Entry(o, j)
          BY <4>1 DEF Before
        <4>5. QED
          BY <4>1, <4>2, <4>3, <4>4 DEF UnshippedInvoice
      <3>2. reports'[<<"invoice_without_shipment", o, i>>] = reports[<<"invoice_without_shipment", o, i>>]
        BY <1>0, <1>1, <2>1, <2>3, KeyStep
      <3>3. i \in 1 .. Len(history[o])
        BY <1>1, <2>3
      <3>4. QED
        BY <1>2, <3>1, <3>2, <3>3 DEF IwsAt, Report
    <2>4. QED
      BY <2>2, <2>3
  <1>6. IwsAt(o)'
    BY <1>1, <1>5 DEF IwsAt
  <1>7. QED
    BY <1>4, <1>6

\* OrderUnfulfilledDetector, and the two kinds of facts about the past.
LEMMA OuStep ==
    ASSUME TypeOK, NEW o \in Orders, KeyInv(o), NEW type \in Types, NEW time \in 0 .. now,
           Process(o, type, time)
    PROVE  Past(o)' /\ WatchInv(o)' /\ OuAt(o)'
  <1>0. PICK n : n = Len(history[o]) + 1
    OBVIOUS
  <1> HIDE <1>0
  <1>1. /\ n \in Nat \ {0} /\ n \in Indices
        /\ Len(history[o]) = n - 1 /\ Len(history'[o]) = n
        /\ \A i \in 1 .. n : i \in Indices
        /\ \A i \in 1 .. n - 1 : history'[o][i] = history[o][i]
        /\ \A i \in 1 .. n - 1 : history[o][i].at \in Nat /\ history[o][i].at <= now
        /\ \A i \in 1 .. n - 1 : history[o][i].run <= run
        /\ history'[o][n].type = type /\ history'[o][n].at = now /\ history'[o][n].run = run
        /\ now' = now /\ run' = run /\ now \in Nat /\ run \in Nat
        /\ \A kind \in Violations : \A i \in Indices \ {n} :
              reports'[<<kind, o, i>>] = reports[<<kind, o, i>>]
    BY <1>0, KeyStep
  <1>2. "order_unfulfilled" \in Violations /\ ~Sinks("order_unfulfilled", o, type)
    BY DEF Violations, Sinks
  <1>3. /\ reports'[<<"order_unfulfilled", o, n>>] = 0
        /\ \A i \in 1 .. n - 1 :
              reports'[<<"order_unfulfilled", o, i>>] = reports[<<"order_unfulfilled", o, i>>]
    <2>1. reports'[<<"order_unfulfilled", o, n>>] = 0
      BY <1>0, <1>2, KeyStep
    <2>2. QED
      BY <1>1, <1>2, <2>1
  <1>4. Past(o)'
    BY <1>1 DEF KeyInv, Past, Entry, Report, Indices
  <1>5. OuAt(o)'
    <2>1. ASSUME NEW i \in 1 .. n - 1 PROVE SoundAt(o, i)'
      <3>1. SoundAt(o, i)
        BY <1>1 DEF KeyInv, OuAt
      <3>2. QED
        <4>1. CASE reports[<<"order_unfulfilled", o, i>>] > 0
          <5>1. /\ reports[<<"order_unfulfilled", o, i>>] = 1
                /\ history[o][i].type = "order" /\ now >= history[o][i].at + Window
                /\ \A j \in i + 1 .. n - 1 :
                      history[o][j].type \in Relevant => history[o][j].at >= history[o][i].at + Window
            BY <1>1, <3>1, <4>1 DEF SoundAt, Entry, Report
          <5>2. \A j \in i + 1 .. n :
                   history'[o][j].type \in Relevant => history'[o][j].at >= history[o][i].at + Window
            <6>1. history'[o][n].at >= history[o][i].at + Window
              BY <1>1, <5>1
            <6>2. \A j \in i + 1 .. n : j # n => j \in i + 1 .. n - 1 /\ j \in 1 .. n - 1
              BY <1>1
            <6>3. QED
              BY <1>1, <5>1, <6>1, <6>2
          <5>3. QED
            BY <1>1, <1>3, <5>1, <5>2 DEF SoundAt, Entry, Report
        <4>2. CASE ~(reports[<<"order_unfulfilled", o, i>>] > 0)
          BY <1>3, <4>2 DEF SoundAt, Report
        <4>3. QED
          BY <4>1, <4>2
    <2>2. SoundAt(o, n)'
      BY <1>3 DEF SoundAt, Report
    <2>3. QED
      BY <1>1, <2>1, <2>2 DEF OuAt
  <1>6. WatchInv(o)'
    <2>1. OrderUnfulfilled(o, type, n) /\ WatchInv(o)
      BY <1>0 DEF Process, KeyInv
    <2>2. \A i \in 1 .. n - 1 : Open(o, i)' <=> Open(o, i) /\ type \notin Relevant
      <3>1. ASSUME NEW i \in 1 .. n - 1
            PROVE  /\ Entry(o, i)' = Entry(o, i) /\ n \in i + 1 .. n
                   /\ \A j \in i + 1 .. n : j # n => j \in i + 1 .. n - 1
                   /\ \A j \in i + 1 .. n - 1 : j \in i + 1 .. n /\ Entry(o, j)' = Entry(o, j)
        BY <1>1 DEF Entry
      <3>2. Entry(o, n)'.type = type
        BY <1>1 DEF Entry
      <3>3. ASSUME NEW i \in 1 .. n - 1
            PROVE  (\A j \in i + 1 .. n : Entry(o, j)'.type \notin Relevant)
                      <=> (\A j \in i + 1 .. n - 1 : Entry(o, j).type \notin Relevant)
                          /\ type \notin Relevant
        BY <3>1, <3>2
      <3>4. ASSUME NEW i \in 1 .. n - 1
            PROVE  Open(o, i)' <=> Open(o, i) /\ type \notin Relevant
        <4>1. i <= Len(history[o]) /\ i <= Len(history'[o]) /\ run' = run
          BY <1>1
        <4>2. Entry(o, i)'.type = Entry(o, i).type /\ Entry(o, i)'.run = Entry(o, i).run
          BY <3>1
        <4>3. Open(o, i) <=> /\ Entry(o, i).type = "order" /\ Entry(o, i).run = run
                             /\ \A j \in i + 1 .. n - 1 : Entry(o, j).type \notin Relevant
          BY <1>1, <4>1 DEF Open
        <4>4. Open(o, i)' <=> /\ Entry(o, i)'.type = "order" /\ Entry(o, i)'.run = run
                              /\ \A j \in i + 1 .. n : Entry(o, j)'.type \notin Relevant
          BY <1>1, <4>1 DEF Open
        <4>5. QED
          BY <3>3, <4>2, <4>3, <4>4
      <3>5. QED
        BY <3>4
    <2>3. Open(o, n)' <=> type = "order"
      BY <1>1 DEF Open, Entry
    <2>4. CASE type = "order"
      <3>1. Watch(o, n, timers[o] \ {timerMs[o]})
        BY <2>1, <2>4 DEF OrderUnfulfilled
      <3>2. unfulfilled'[o] = n /\ timerMs'[o] = now + Window /\ timers'[o] = {now + Window}
        BY <2>1, <3>1 DEF Watch, WatchInv, TypeOK
      <3>3. n # None /\ now + Window # NoTimer
        BY <1>1, EdiAssumption DEF None, NoTimer
      <3>4. \A i \in 1 .. n - 1 : ~Open(o, i)'
        BY <2>2, <2>4 DEF Relevant
      <3>5. QED
        BY <1>1, <1>3, <2>3, <2>4, <3>2, <3>3, <3>4 DEF WatchInv, Entry, Report
    <2>5. CASE type = "shipment"
      <3>1. unfulfilled'[o] = None /\ timerMs'[o] = NoTimer /\ timers'[o] = {}
        BY <2>1, <2>5 DEF OrderUnfulfilled, Unwatch, WatchInv, TypeOK
      <3>2. \A i \in 1 .. n : ~Open(o, i)'
        BY <1>1, <2>2, <2>3, <2>5 DEF Relevant
      <3>3. QED
        BY <1>1, <3>1, <3>2 DEF WatchInv
    <2>6. CASE type \notin Relevant
      <3>1. UNCHANGED ou
        BY <2>1, <2>6 DEF OrderUnfulfilled, Relevant
      <3>2. \A i \in 1 .. n - 1 : Open(o, i)' <=> Open(o, i)
        BY <2>2, <2>6
      <3>3. ~Open(o, n)'
        BY <2>3, <2>6 DEF Relevant
      <3>4. ASSUME unfulfilled[o] # None PROVE unfulfilled[o] \in 1 .. n - 1
        BY <1>1, <2>1, <3>4 DEF WatchInv, Open, TypeOK, Indices
      <3>5. QED
        <4>1. unfulfilled'[o] = unfulfilled[o] /\ timerMs'[o] = timerMs[o] /\ timers'[o] = timers[o]
          BY <3>1 DEF ou
        <4>2. ASSUME unfulfilled[o] # None
              PROVE  /\ Open(o, unfulfilled[o])'
                     /\ reports'[<<"order_unfulfilled", o, unfulfilled[o]>>] = 0
                     /\ timerMs[o] = history'[o][unfulfilled[o]].at + Window
          <5>1. /\ Open(o, unfulfilled[o])
                /\ reports[<<"order_unfulfilled", o, unfulfilled[o]>>] = 0
                /\ timerMs[o] = history[o][unfulfilled[o]].at + Window
            BY <2>1, <4>2 DEF WatchInv, Entry, Report
          <5>2. PICK u \in 1 .. n - 1 : u = unfulfilled[o]
            BY <3>4, <4>2
          <5>3. Open(o, u)'
            BY <3>2, <5>1, <5>2
          <5>4. Open(o, unfulfilled[o])'
            BY <4>1, <5>2, <5>3 DEF Open, Entry
          <5>5. QED
            BY <1>1, <1>3, <5>1, <5>2, <5>4
        <4>3. ASSUME NEW i \in 1 .. n, Open(o, i)'
              PROVE  unfulfilled'[o] = i \/ reports'[<<"order_unfulfilled", o, i>>] = 1
          <5>1. i \in 1 .. n - 1 /\ Open(o, i)
            BY <1>1, <3>2, <3>3, <4>3
          <5>2. unfulfilled[o] = i \/ reports[<<"order_unfulfilled", o, i>>] = 1
            BY <1>1, <2>1, <5>1 DEF WatchInv, Report
          <5>3. QED
            BY <1>3, <4>1, <5>1, <5>2
        <4>4. QED
          BY <1>1, <2>1, <4>1, <4>2, <4>3 DEF WatchInv, Entry, Report
    <2>7. QED
      BY <2>4, <2>5, <2>6 DEF Relevant
  <1>7. QED
    BY <1>4, <1>5, <1>6

\* An event of o disturbs no other key.
LEMMA ProcessStep ==
    ASSUME TypeOK, NEW o \in Orders, NEW type \in Types, NEW time \in 0 .. now,
           Process(o, type, time), NEW q \in Orders, KeyInv(o), KeyInv(q)
    PROVE  KeyInv(q)'
  <1>1. CASE q = o
    <2>1. SeenInv(o)' /\ SwoAt(o)'
      BY SwoStep
    <2>2. AwaitInv(o)' /\ IwsAt(o)'
      BY IwsStep
    <2>3. Past(o)' /\ WatchInv(o)' /\ OuAt(o)'
      BY OuStep
    <2>4. KeyInv(o)'
      BY <2>1, <2>2, <2>3 DEF KeyInv
    <2>5. QED
      BY <1>1, <2>4
  <1>2. CASE q # o
    <2>1. Len(history[o]) + 1 \in Indices /\ history'[q] = history[q]
      BY <1>2, HistoryStep
    <2>2. orderSeen'[q] = orderSeen[q]
      BY <1>2 DEF Process, ShipmentWithoutOrder, TypeOK
    <2>3. invoicing'[q] = invoicing[q] /\ shipmentSeen'[q] = shipmentSeen[q]
      BY <1>2 DEF Process, InvoiceWithoutShipment, TypeOK
    <2>4. unfulfilled'[q] = unfulfilled[q] /\ timerMs'[q] = timerMs[q] /\ timers'[q] = timers[q]
      BY <1>2, <2>1, TimersType DEF Process
    <2>5. ASSUME NEW kind \in Violations, NEW i \in Indices
          PROVE  reports'[<<kind, q, i>>] = reports[<<kind, q, i>>]
      <3>1. Report(kind, q, i)' = Report(kind, q, i)
              + (IF Sinks(kind, o, type) /\ q = o /\ i = Len(history[o]) + 1 THEN 1 ELSE 0)
        BY ReportsStep
      <3>2. reports[<<kind, q, i>>] \in Nat
        BY DEF TypeOK
      <3>3. QED
        BY <1>2, <3>1, <3>2 DEF Report
    <2>6. SameKey(q)
      BY <2>1, <2>2, <2>3, <2>4, <2>5 DEF SameKey
    <2>7. run' = run /\ now' = now /\ now \in Nat
      BY EdiAssumption DEF Process, TypeOK
    <2>8. now' \in Nat /\ now <= now'
      BY <2>7
    <2>9. QED
      BY <2>6, <2>7, <2>8, Frame
  <1>3. QED
    BY <1>1, <1>2

\* A timer that fires is the live one, and reports the open order.
LEMMA TimerStep ==
    ASSUME TypeOK, NEW o \in Orders, NEW t \in timers[o], OnTimer(o, t),
           NEW q \in Orders, KeyInv(o), KeyInv(q)
    PROVE  KeyInv(q)'
  <1>1. /\ timerMs[o] = t /\ unfulfilled[o] # None /\ timers[o] = {t}
        /\ unfulfilled[o] \in Indices /\ "order_unfulfilled" \in Violations
    BY DEF KeyInv, WatchInv, TypeOK, Violations
  <1>2. PICK u \in Indices : u = unfulfilled[o]
    BY <1>1
  <1>3. /\ timers' = [timers EXCEPT ![o] = @ \ {t}] /\ t <= now
        /\ unfulfilled' = [unfulfilled EXCEPT ![o] = None]
        /\ timerMs' = [timerMs EXCEPT ![o] = NoTimer]
        /\ reports' = Sunk("order_unfulfilled", o, u)
        /\ UNCHANGED <<now, run, history, orderSeen, invoicing, shipmentSeen>>
    BY <1>1, <1>2 DEF OnTimer, swo, iws
  <1>4. ASSUME NEW kind \in Violations, NEW p \in Orders, NEW i \in Indices
        PROVE  /\ Report(kind, p, i) \in Nat
               /\ Report(kind, p, i)' = Report(kind, p, i)
                   + (IF kind = "order_unfulfilled" /\ p = o /\ i = u THEN 1 ELSE 0)
    <2>1. Report(kind, p, i)' = Report(kind, p, i)
                   + (IF kind = "order_unfulfilled" /\ p = o /\ i = u THEN 1 ELSE 0)
      BY <1>1, <1>3, SunkReport
    <2>2. Report(kind, p, i) \in Nat
      BY DEF TypeOK, Report
    <2>3. QED
      BY <2>1, <2>2
  <1>5. ASSUME NEW kind \in Violations, NEW p \in Orders, NEW i \in Indices,
               kind # "order_unfulfilled" \/ p # o \/ i # u
        PROVE  reports'[<<kind, p, i>>] = reports[<<kind, p, i>>]
    BY <1>4, <1>5 DEF Report
  <1>6. CASE q # o
    <2>1. SameKey(q)
      BY <1>3, <1>5, <1>6 DEF SameKey, TypeOK
    <2>2. run' = run /\ now' \in Nat /\ now <= now'
      BY <1>3, EdiAssumption DEF TypeOK
    <2>3. QED
      BY <2>1, <2>2, Frame
  <1>7. CASE q = o
    <2>1. /\ Len(history[o]) \in Nat /\ \A i \in 1 .. Len(history[o]) : i \in Indices
          /\ history' = history /\ now' = now /\ run' = run
      BY <1>3, EdiAssumption DEF TypeOK, Indices
    <2>2. Open(o, u) /\ Report("order_unfulfilled", o, u) = 0 /\ t = Entry(o, u).at + Window
      BY <1>1, <1>2 DEF KeyInv, WatchInv
    <2>3. u \in 1 .. Len(history[o]) /\ Entry(o, u).type = "order"
      BY <2>1, <2>2 DEF Open, Indices
    <2>4. reports'[<<"order_unfulfilled", o, u>>] = 1
      BY <1>1, <1>4, <2>2 DEF Report
    <2>5. Past(o)'
      <3>1. \A i \in Indices : i > Len(history[o]) => i # u
        BY <2>1, <2>3
      <3>2. QED
        BY <1>5, <2>1, <3>1 DEF KeyInv, Past, Entry, Report
    <2>6. SeenInv(o)' /\ AwaitInv(o)'
      BY <1>3, <2>1 DEF KeyInv, SeenInv, AwaitInv, Entry
    <2>7. SwoAt(o)'
      <3>1. \A i \in 1 .. Len(history[o]) : reports'[<<"shipment_without_order", o, i>>]
                                             = reports[<<"shipment_without_order", o, i>>]
        BY <1>5, <2>1 DEF Violations
      <3>2. QED
        BY <2>1, <3>1 DEF KeyInv, SwoAt, OrphanShipment, Before, Entry, Report
    <2>8. IwsAt(o)'
      <3>1. \A i \in 1 .. Len(history[o]) : reports'[<<"invoice_without_shipment", o, i>>]
                                             = reports[<<"invoice_without_shipment", o, i>>]
        BY <1>5, <2>1 DEF Violations
      <3>2. QED
        BY <2>1, <3>1 DEF KeyInv, IwsAt, UnshippedInvoice, Before, Entry, Report
    <2>9. WatchInv(o)'
      <3>1. unfulfilled'[o] = None /\ timerMs'[o] = NoTimer /\ timers'[o] = {}
        BY <1>1, <1>3 DEF TypeOK
      <3>2. ASSUME NEW i \in 1 .. Len(history[o]), Open(o, i)
            PROVE  reports'[<<"order_unfulfilled", o, i>>] = 1
        <4>1. unfulfilled[o] = i \/ reports[<<"order_unfulfilled", o, i>>] = 1
          BY <3>2 DEF KeyInv, WatchInv, Report
        <4>2. QED
          BY <1>1, <1>2, <1>5, <2>1, <2>4, <4>1
      <3>3. \A i \in 1 .. Len(history[o]) : Open(o, i)' <=> Open(o, i)
        BY <2>1 DEF Open, Entry
      <3>4. QED
        BY <2>1, <3>1, <3>2, <3>3 DEF WatchInv, Report
    <2>10. OuAt(o)'
      <3>1. ASSUME NEW i \in 1 .. Len(history[o]), i # u PROVE SoundAt(o, i)'
        <4>1. reports'[<<"order_unfulfilled", o, i>>] = reports[<<"order_unfulfilled", o, i>>]
          BY <1>1, <1>5, <2>1, <3>1
        <4>2. SoundAt(o, i)
          BY DEF KeyInv, OuAt
        <4>3. QED
          BY <2>1, <4>1, <4>2 DEF SoundAt, Entry, Report
      <3>2. SoundAt(o, u)'
        <4>1. now >= Entry(o, u).at + Window
          BY <1>3, <2>2
        <4>2. \A j \in u + 1 .. Len(history[o]) : Entry(o, j).type \notin Relevant
          BY <2>2 DEF Open
        <4>3. QED
          BY <2>1, <2>3, <2>4, <4>1, <4>2 DEF SoundAt, Entry, Report
      <3>3. QED
        BY <2>1, <3>1, <3>2 DEF OuAt
    <2>11. QED
      BY <1>7, <2>5, <2>6, <2>7, <2>8, <2>9, <2>10 DEF KeyInv
  <1>8. QED
    BY <1>6, <1>7

\* A new submission starts with empty state, and no event of an earlier one
\* counts for it.
LEMMA ResubmitStep ==
    ASSUME TypeOK, NEW q \in Orders, KeyInv(q), Resubmit
    PROVE  KeyInv(q)'
  <1>1. /\ run' = run + 1 /\ now' = now /\ history' = history /\ reports' = reports
        /\ orderSeen'[q] = FALSE /\ invoicing'[q] = None /\ unfulfilled'[q] = None
        /\ timerMs'[q] = NoTimer /\ timers'[q] = {}
        /\ run \in Nat /\ Len(history[q]) \in Nat
    BY EdiAssumption DEF Resubmit, TypeOK
  <1>2. \A i \in 1 .. Len(history[q]) : history[q][i].run \in Nat /\ history[q][i].run <= run
    <2>1. \A i \in 1 .. Len(history[q]) : history[q][i] \in Event
      BY DEF TypeOK
    <2>2. QED
      BY <2>1 DEF KeyInv, Past, Entry, Event
  <1>3. \A i \in 1 .. Len(history[q]) : history[q][i].run # run + 1 /\ history[q][i].run <= run + 1
    BY <1>1, <1>2
  <1>4. Past(q)'
    BY <1>1, <1>3 DEF KeyInv, Past, Entry, Report
  <1>5. SeenInv(q)' /\ AwaitInv(q)'
    BY <1>1, <1>3 DEF SeenInv, AwaitInv, Entry
  <1>6. WatchInv(q)'
    <2>1. \A i \in 1 .. Len(history[q]) : ~Open(q, i)'
      BY <1>1, <1>3 DEF Open, Entry
    <2>2. QED
      BY <1>1, <2>1 DEF WatchInv
  <1>7. SwoAt(q)'
    BY <1>1 DEF KeyInv, SwoAt, OrphanShipment, Before, Entry, Report
  <1>8. IwsAt(q)'
    BY <1>1 DEF KeyInv, IwsAt, UnshippedInvoice, Before, Entry, Report
  <1>9. OuAt(q)'
    BY <1>1 DEF KeyInv, OuAt, SoundAt, Entry, Report
  <1>10. QED
    BY <1>4, <1>5, <1>6, <1>7, <1>8, <1>9 DEF KeyInv

LEMMA IndNext == IndInv /\ [Next]_vars => IndInv'
  <1> SUFFICES ASSUME IndInv, [Next]_vars PROVE IndInv'
    OBVIOUS
  <1>1. TypeOK /\ TypeOK'
    BY TypeNext DEF IndInv
  <1>2. ASSUME NEW q \in Orders PROVE KeyInv(q)'
    <2>0. \A o \in Orders : KeyInv(o)
      BY DEF IndInv
    <2>1. ASSUME NEW o \in Orders, NEW type \in Types, Arrives(o, type) PROVE KeyInv(q)'
      BY <1>1, <2>0, <2>1, ProcessStep DEF Arrives
    <2>2. ASSUME NEW o \in Orders, NEW t \in timers[o], OnTimer(o, t) PROVE KeyInv(q)'
      BY <1>1, <2>0, <2>2, TimerStep
    <2>3. CASE Tick
      <3>1. SameKey(q)
        BY <2>3 DEF Tick, SameKey, swo, iws, ou
      <3>2. run' = run /\ now' \in Nat /\ now <= now'
        BY <1>1, <2>3, EdiAssumption DEF Tick, TypeOK
      <3>3. QED
        BY <1>1, <2>0, <3>1, <3>2, Frame
    <2>4. CASE Resubmit
      BY <1>1, <2>0, <2>4, ResubmitStep
    <2>5. CASE UNCHANGED vars
      <3>1. SameKey(q)
        BY <2>5 DEF vars, SameKey
      <3>2. run' = run /\ now' \in Nat /\ now <= now'
        BY <1>1, <2>5, EdiAssumption DEF vars, TypeOK
      <3>3. QED
        BY <1>1, <2>0, <3>1, <3>2, Frame
    <2>6. QED
      BY <2>1, <2>2, <2>3, <2>4, <2>5 DEF Next
  <1>3. QED
    BY <1>1, <1>2 DEF IndInv

LEMMA IndInvariant == Spec => []IndInv
  BY IndInit, IndNext, PTL DEF Spec

\* The three detectors do what their javadoc says of one run of the job, for
\* any order ids, any window and any sequence of events.

\* shipment_without_order is sunk for the first shipment of an order id that
\* no order preceded, once, and for nothing else.
THEOREM SwoIsExact == Spec => []SwoExact
  <1>1. IndInv => SwoExact
    BY DEF IndInv, KeyInv, SwoAt, SwoExact, Report
  <1>2. QED
    BY <1>1, IndInvariant, PTL

\* invoice_without_shipment is sunk for each invoice of an order that was not
\* shipped, once, and for nothing else.
THEOREM IwsIsExact == Spec => []IwsExact
  <1>1. IndInv => IwsExact
    BY DEF IndInv, KeyInv, IwsAt, IwsExact, Report
  <1>2. QED
    BY <1>1, IndInvariant, PTL

\* order_unfulfilled is sunk at most once per order and not before its window
\* has passed without a shipment or another order.
THEOREM OuIsSound == Spec => []OuSound
  <1>1. IndInv => OuSound
    BY DEF IndInv, KeyInv, OuAt, SoundAt, OuSound, Report
  <1>2. QED
    BY <1>1, IndInvariant, PTL

\* An order that is still open is reported, or pending with its one timer.
THEOREM OpenStaysWatched == Spec => []OpenIsWatched
  <1>1. IndInv => OpenIsWatched
    <2> SUFFICES ASSUME IndInv, NEW o \in Orders, NEW i \in 1 .. Len(history[o]), Open(o, i)
                 PROVE  \/ reports[<<"order_unfulfilled", o, i>>] = 1
                        \/ unfulfilled[o] = i /\ timers[o] = {Entry(o, i).at + Window}
      BY DEF OpenIsWatched
    <2>1. WatchInv(o) /\ TypeOK
      BY DEF IndInv, KeyInv
    <2>2. unfulfilled[o] = i => i # None
      BY DEF None
    <2>3. QED
      BY <2>1, <2>2 DEF WatchInv, Report
  <1>2. QED
    BY <1>1, IndInvariant, PTL

==============================================================================
