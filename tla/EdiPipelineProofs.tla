-------------------------- MODULE EdiPipelineProofs --------------------------
(***************************************************************************)
(* Theorems about EdiPipeline, for every set of orders, every plan, every  *)
(* delay and lag that fit the window, and any number of producer faults:   *)
(* the pipeline is one of the behaviours EdiDetectors was proved about,    *)
(* and what the job reports is what the events it received call for.       *)
(***************************************************************************)
EXTENDS EdiPipeline, EdiDetectorsProofs

\* All events of o: planned, held by the producer, in the topic, processed.
Elements(s) == {s[i] : i \in 1 .. Len(s)}

Sent(o)   == Elements(topic[o])
Seen(o)   == {[type |-> Entry(o, i).type, time |-> Entry(o, i).time] : i \in 1 .. Len(history[o])}
Events(o) == pending[o] \cup retrying[o] \cup Sent(o) \cup Seen(o)

\* The events of o are those of its plan, at the times of the transaction, and
\* without a fault of the producer none of them is missing.
PlanInv(o) ==
    /\ plan[o] = Unplanned => Events(o) = {}
    /\ \A e \in Events(o) : e.type \in plan[o]
    /\ ~ended /\ faults = 0 /\ plan[o] # Unplanned =>
          \A t \in plan[o] : \E e \in Events(o) : e.type = t
    /\ \A e, f \in Events(o) :
          /\ e.type = f.type => e.time = f.time
          /\ Precedes(e.type, f.type) => e.time < f.time
          /\ e.type = "order" /\ f.type = "shipment" => f.time <= e.time + MaxDelay

\* No event is sent before its time or processed more than MaxLag after it.
ClockInv(o) ==
    /\ \A e \in pending[o] \cup retrying[o] \cup Sent(o) : now <= e.time + MaxLag
    /\ \A e \in retrying[o] \cup Sent(o) : e.time <= now
    /\ \A i \in 1 .. Len(history[o]) :
          /\ Entry(o, i).time <= Entry(o, i).at /\ Entry(o, i).at <= Entry(o, i).time + MaxLag
          /\ Entry(o, i).at <= now /\ Entry(o, i).run = run

InSequence(s) == \A i, j \in 1 .. Len(s) : i < j => s[i].time <= s[j].time

\* Without a fault of the producer the events keep their order on the way.
SequenceInv(o) ==
    faults = 0 =>
        /\ retrying[o] = {}
        /\ InSequence(history[o]) /\ InSequence(topic[o])
        /\ \A i \in 1 .. Len(history[o]) : \A e \in Sent(o) \cup pending[o] :
              Entry(o, i).time <= e.time
        /\ \A e \in Sent(o), f \in pending[o] : e.time <= f.time

FirstIn(h, i) == \A j \in 1 .. i - 1 : h[j].type # h[i].type
LastIn(h, i)  == \A j \in i + 1 .. Len(h) : h[j].type # h[i].type

\* Of each type in a history there is a first and a last event.
Ends(h) ==
    \A i \in 1 .. Len(h) :
        /\ \E f \in 1 .. i : h[f].type = h[i].type /\ FirstIn(h, f)
        /\ \E l \in i .. Len(h) : h[l].type = h[i].type /\ LastIn(h, l)

TransactionInv(o) == PlanInv(o) /\ ClockInv(o) /\ SequenceInv(o) /\ Ends(history[o])

SimulatorTypeOK ==
    /\ plan \in [Orders -> (SUBSET EdiTypes) \cup {Unplanned}]
    /\ pending \in [Orders -> SUBSET EdiEvent]
    /\ retrying \in [Orders -> SUBSET EdiEvent]
    /\ topic \in [Orders -> Seq(EdiEvent)]
    /\ faults \in 0 .. MaxFaults
    /\ ended \in BOOLEAN

PipelineInv == SimulatorTypeOK /\ \A o \in Orders : TransactionInv(o)
------------------------------------------------------------------------------
(* Elements of sequences.                                                   *)

LEMMA ElementsAppended ==
    ASSUME NEW S, NEW s \in Seq(S), NEW e \in S
    PROVE  Elements(Append(s, e)) = Elements(s) \cup {e}
  <1>1. /\ Len(s) \in Nat /\ Len(Append(s, e)) = Len(s) + 1
        /\ \A i \in 1 .. Len(s) : Append(s, e)[i] = s[i]
        /\ Append(s, e)[Len(s) + 1] = e
    BY LenProperties, AppendProperties
  <1>2. ASSUME NEW x \in Elements(Append(s, e)) PROVE x \in Elements(s) \cup {e}
    <2>1. PICK i \in 1 .. Len(s) + 1 : x = Append(s, e)[i]
      BY <1>1 DEF Elements
    <2>2. i \in 1 .. Len(s) \/ i = Len(s) + 1
      BY <1>1
    <2>3. QED
      BY <1>1, <2>1, <2>2 DEF Elements
  <1>3. ASSUME NEW x \in Elements(s) PROVE x \in Elements(Append(s, e))
    <2>1. PICK i \in 1 .. Len(s) : x = s[i]
      BY DEF Elements
    <2>2. i \in 1 .. Len(s) + 1 /\ x = Append(s, e)[i]
      BY <1>1, <2>1
    <2>3. QED
      BY <1>1, <2>2 DEF Elements
  <1>4. e \in Elements(Append(s, e))
    <2>1. Len(s) + 1 \in 1 .. Len(s) + 1
      BY <1>1
    <2>2. QED
      BY <1>1, <2>1 DEF Elements
  <1>5. QED
    BY <1>2, <1>3, <1>4

LEMMA ElementsTaken ==
    ASSUME NEW S, NEW s \in Seq(S), s # <<>>
    PROVE  Head(s) \in S /\ Tail(s) \in Seq(S) /\ Elements(s) = Elements(Tail(s)) \cup {Head(s)}
  <1>1. /\ Head(s) \in S /\ Tail(s) \in Seq(S) /\ Head(s) = s[1]
        /\ Len(s) \in Nat /\ Len(s) # 0 /\ Len(Tail(s)) = Len(s) - 1
        /\ \A i \in 1 .. Len(Tail(s)) : Tail(s)[i] = s[i + 1]
    BY HeadTailProperties, LenProperties, EmptySeq
  <1>2. ASSUME NEW x \in Elements(s) PROVE x \in Elements(Tail(s)) \cup {Head(s)}
    <2>1. PICK i \in 1 .. Len(s) : x = s[i]
      BY DEF Elements
    <2>2. CASE i = 1
      BY <1>1, <2>1, <2>2
    <2>3. CASE i # 1
      <3>1. i - 1 \in 1 .. Len(Tail(s)) /\ (i - 1) + 1 = i
        BY <1>1, <2>3
      <3>2. x = Tail(s)[i - 1]
        BY <1>1, <2>1, <3>1
      <3>3. QED
        BY <3>1, <3>2 DEF Elements
    <2>4. QED
      BY <2>2, <2>3
  <1>3. ASSUME NEW x \in Elements(Tail(s)) PROVE x \in Elements(s)
    <2>1. PICK i \in 1 .. Len(Tail(s)) : x = Tail(s)[i]
      BY DEF Elements
    <2>2. i + 1 \in 1 .. Len(s) /\ x = s[i + 1]
      BY <1>1, <2>1
    <2>3. QED
      BY <2>2 DEF Elements
  <1>4. Head(s) \in Elements(s)
    <2>1. 1 \in 1 .. Len(s)
      BY <1>1
    <2>2. QED
      BY <1>1, <2>1 DEF Elements
  <1>5. QED
    BY <1>1, <1>2, <1>3, <1>4

------------------------------------------------------------------------------
(* The steps of one order's events.                                         *)

\* The plan stands, and events only move on; one is dropped at the end, or
\* after a fault of the producer.
LEMMA PlanKept ==
    ASSUME NEW o \in Orders, PlanInv(o), plan'[o] = plan[o], Events(o)' \subseteq Events(o),
           Events(o)' = Events(o) \/ ended' \/ faults' # 0, ended => ended',
           faults' = 0 => faults = 0
    PROVE  PlanInv(o)'
  BY DEF PlanInv

\* Nothing that the invariants of q speak of has changed.
LEMMA TransactionKept ==
    ASSUME NEW q \in Orders, TransactionInv(q),
           plan'[q] = plan[q], pending'[q] = pending[q], retrying'[q] = retrying[q],
           topic'[q] = topic[q], history'[q] = history[q], UNCHANGED <<now, run, ended>>,
           faults' = 0 => faults = 0
    PROVE  TransactionInv(q)'
  <1>1. PlanInv(q) /\ ClockInv(q) /\ SequenceInv(q) /\ Ends(history[q])
    BY DEF TransactionInv
  <1>2. Sent(q)' = Sent(q) /\ Seen(q)' = Seen(q) /\ Events(q)' = Events(q)
    BY DEF Sent, Seen, Events, Entry
  <1>3. PlanInv(q)'
    BY <1>1, <1>2, PlanKept
  <1>4. ClockInv(q)'
    BY <1>1, <1>2 DEF ClockInv, Entry
  <1>5. SequenceInv(q)'
    BY <1>1, <1>2 DEF SequenceInv, Entry
  <1>6. QED
    BY <1>1, <1>3, <1>4, <1>5 DEF TransactionInv

\* What an attempt to write e does: e is not lost, and unless the attempt is a
\* fault it goes to the end of the topic.
LEMMA AttemptStep ==
    ASSUME SimulatorTypeOK, NEW o \in Orders, NEW e \in EdiEvent, Attempt(o, e)
    PROVE  /\ topic' \in [Orders -> Seq(EdiEvent)] /\ retrying' \in [Orders -> SUBSET EdiEvent]
           /\ faults' \in 0 .. MaxFaults
           /\ faults' = 0 => faults = 0 /\ topic'[o] = Append(topic[o], e)
           /\ e \in retrying'[o] \/ e \in Sent(o)'
           /\ Sent(o) \subseteq Sent(o)' /\ Sent(o)' \subseteq Sent(o) \cup {e}
           /\ retrying[o] \ {e} \subseteq retrying'[o] /\ retrying'[o] \subseteq retrying[o] \cup {e}
           /\ faults' = 0 => retrying'[o] = retrying[o] \ {e}
           /\ \A q \in Orders : q # o => topic'[q] = topic[q] /\ retrying'[q] = retrying[q]
  <1>1. /\ topic \in [Orders -> Seq(EdiEvent)] /\ retrying \in [Orders -> SUBSET EdiEvent]
        /\ faults \in 0 .. MaxFaults /\ MaxFaults \in Nat
    BY PipelineAssumption DEF SimulatorTypeOK
  <1>2. Append(topic[o], e) \in Seq(EdiEvent) /\ topic[o] \in Seq(EdiEvent)
    BY <1>1, AppendProperties
  <1>3. Elements(Append(topic[o], e)) = Elements(topic[o]) \cup {e}
    BY <1>2, ElementsAppended
  <1>4. CASE /\ topic' = [topic EXCEPT ![o] = Append(@, e)]
             /\ retrying' = [retrying EXCEPT ![o] = @ \ {e}]
             /\ faults' = faults
    <2>1. topic'[o] = Append(topic[o], e) /\ retrying'[o] = retrying[o] \ {e}
          /\ \A q \in Orders : q # o => topic'[q] = topic[q] /\ retrying'[q] = retrying[q]
      BY <1>1, <1>4
    <2>2. Sent(o)' = Sent(o) \cup {e}
      BY <1>3, <2>1 DEF Sent, Elements
    <2>3. topic' \in [Orders -> Seq(EdiEvent)] /\ retrying' \in [Orders -> SUBSET EdiEvent]
      BY <1>1, <1>2, <1>4
    <2>4. QED
      BY <1>1, <1>4, <2>1, <2>2, <2>3
  <1>5. CASE /\ topic' = topic \/ topic' = [topic EXCEPT ![o] = Append(@, e)]
             /\ retrying' = [retrying EXCEPT ![o] = @ \cup {e}]
             /\ faults < MaxFaults /\ faults' = faults + 1
    <2>1. retrying'[o] = retrying[o] \cup {e}
          /\ \A q \in Orders : q # o => topic'[q] = topic[q] /\ retrying'[q] = retrying[q]
      BY <1>1, <1>5
    <2>2. Sent(o)' = Sent(o) \/ Sent(o)' = Sent(o) \cup {e}
      BY <1>1, <1>3, <1>5 DEF Sent, Elements
    <2>3. topic' \in [Orders -> Seq(EdiEvent)] /\ retrying' \in [Orders -> SUBSET EdiEvent]
      BY <1>1, <1>2, <1>5
    <2>4. faults' \in 0 .. MaxFaults /\ faults' # 0
      BY <1>1, <1>5
    <2>5. QED
      BY <2>1, <2>2, <2>3, <2>4
  <1>6. QED
    BY <1>4, <1>5 DEF Attempt

LEMMA ScheduleStep ==
    ASSUME TypeOK, SimulatorTypeOK, NEW o \in Orders, NEW emitted \in SUBSET EdiTypes,
           NEW ship \in 1 .. MaxDelay, NEW inv \in 1 .. MaxDelay, Schedule(o, emitted, ship, inv),
           TransactionInv(o)
    PROVE  SimulatorTypeOK' /\ TransactionInv(o)'
  <1> DEFINE T(t) == Times(ship, inv)[t]
             New  == {[type |-> t, time |-> T(t)] : t \in emitted}
  <1>1. /\ now \in Nat /\ ship \in Nat /\ inv \in Nat /\ MaxDelay \in Nat /\ MaxLag \in Nat
        /\ 0 < ship /\ ship <= MaxDelay /\ 0 < inv
    BY EdiAssumption, PipelineAssumption DEF TypeOK
  <1>2. T("order") = now /\ T("shipment") = now + ship /\ T("invoice") = now + ship + inv
    BY DEF Times
  <1>3. /\ plan' = [plan EXCEPT ![o] = emitted] /\ pending' = [pending EXCEPT ![o] = New]
        /\ UNCHANGED <<now, run, history, retrying, topic, faults, ended>>
        /\ ~ended /\ plan[o] = Unplanned
    BY DEF Schedule, detectors
  <1>4. /\ "order" \in EdiTypes /\ \A t \in EdiTypes : t \in {"order", "shipment", "invoice"}
        /\ emitted \subseteq EdiTypes
    BY DEF EdiTypes
  <1>5. \A t \in EdiTypes : T(t) \in Nat /\ now <= T(t)
    BY <1>1, <1>2, <1>4
  <1>6. \A t, u \in EdiTypes : /\ Precedes(t, u) => T(t) < T(u)
                               /\ t = "order" /\ u = "shipment" => T(u) <= T(t) + MaxDelay
    BY <1>1, <1>2, <1>4 DEF Precedes
  <1> HIDE DEF T
  <1>7. New \in SUBSET EdiEvent
    BY <1>4, <1>5 DEF EdiEvent
  <1>8. \A e \in New : e.type \in emitted /\ e.time = T(e.type)
    OBVIOUS
  <1>9. \A t \in emitted : \E e \in New : e.type = t
    <2> TAKE t \in emitted
    <2>1. [type |-> t, time |-> T(t)] \in New
      OBVIOUS
    <2>2. [type |-> t, time |-> T(t)].type = t
      OBVIOUS
    <2>3. QED
      BY <2>1, <2>2
  <1> HIDE DEF New
  <1>10. SimulatorTypeOK'
    BY <1>3, <1>7 DEF SimulatorTypeOK
  <1>11. plan'[o] = emitted /\ pending'[o] = New
    BY <1>3 DEF SimulatorTypeOK
  <1>12. PlanInv(o) /\ ClockInv(o) /\ SequenceInv(o) /\ Ends(history[o])
    BY DEF TransactionInv
  <1>13. Sent(o) = {} /\ Seen(o) = {} /\ retrying[o] = {} /\ 1 .. Len(history[o]) = {}
    <2>1. Sent(o) = {} /\ Seen(o) = {} /\ retrying[o] = {}
      BY <1>3, <1>12 DEF PlanInv, Events
    <2>2. ASSUME NEW i \in 1 .. Len(history[o]) PROVE FALSE
      <3>1. [type |-> Entry(o, i).type, time |-> Entry(o, i).time] \in Seen(o)
        BY DEF Seen
      <3>2. QED
        BY <2>1, <3>1
    <2>3. QED
      BY <2>1, <2>2
  <1>14. Sent(o)' = {} /\ Seen(o)' = {} /\ retrying'[o] = {}
    BY <1>3, <1>13 DEF Sent, Seen, Entry
  <1>15. Events(o)' = New
    BY <1>11, <1>14 DEF Events
  <1>16. PlanInv(o)'
    <2>1. ASSUME NEW e \in New, NEW f \in New
          PROVE  /\ e.type = f.type => e.time = f.time
                 /\ Precedes(e.type, f.type) => e.time < f.time
                 /\ e.type = "order" /\ f.type = "shipment" => f.time <= e.time + MaxDelay
      BY <1>4, <1>6, <1>8
    <2>2. emitted # Unplanned
      BY <1>4 DEF Unplanned
    <2>3. QED
      BY <1>8, <1>9, <1>11, <1>15, <2>1, <2>2 DEF PlanInv
  <1>17. ClockInv(o)'
    <2>1. \A e \in New : now <= e.time + MaxLag
      BY <1>1, <1>4, <1>5, <1>8
    <2>2. QED
      BY <1>3, <1>11, <1>13, <1>14, <2>1 DEF ClockInv, Entry
  <1>18. SequenceInv(o)'
    BY <1>3, <1>12, <1>13, <1>14 DEF SequenceInv, Entry
  <1>19. QED
    BY <1>3, <1>10, <1>12, <1>16, <1>17, <1>18 DEF TransactionInv

LEMMA EmitStep ==
    ASSUME TypeOK, SimulatorTypeOK, NEW o \in Orders, Emit(o), TransactionInv(o)
    PROVE  SimulatorTypeOK' /\ TransactionInv(o)'
  <1>1. PICK e \in Due(o) :
           /\ \A f \in pending[o] : e.time <= f.time
           /\ Attempt(o, e)
           /\ pending' = [pending EXCEPT ![o] = @ \ {e}]
    BY DEF Emit
  <1>2. UNCHANGED <<now, run, history, plan, ended>>
    BY DEF Emit, detectors
  <1>3. e \in pending[o] /\ e.time <= now /\ e \in EdiEvent /\ topic[o] \in Seq(EdiEvent)
    BY DEF Due, SimulatorTypeOK
  <1>4. pending'[o] = pending[o] \ {e}
    BY <1>1 DEF SimulatorTypeOK
  <1>5. /\ topic' \in [Orders -> Seq(EdiEvent)] /\ retrying' \in [Orders -> SUBSET EdiEvent]
        /\ faults' \in 0 .. MaxFaults
        /\ faults' = 0 => faults = 0 /\ topic'[o] = Append(topic[o], e)
        /\ e \in retrying'[o] \/ e \in Sent(o)'
        /\ Sent(o) \subseteq Sent(o)' /\ Sent(o)' \subseteq Sent(o) \cup {e}
        /\ retrying[o] \ {e} \subseteq retrying'[o] /\ retrying'[o] \subseteq retrying[o] \cup {e}
        /\ faults' = 0 => retrying'[o] = retrying[o] \ {e}
    BY <1>1, <1>3, AttemptStep
  <1>6. SimulatorTypeOK'
    <2>1. pending' \in [Orders -> SUBSET EdiEvent]
      BY <1>1 DEF SimulatorTypeOK
    <2>2. QED
      BY <1>2, <1>5, <2>1 DEF SimulatorTypeOK
  <1>7. PlanInv(o) /\ ClockInv(o) /\ SequenceInv(o) /\ Ends(history[o])
    BY DEF TransactionInv
  <1>8. Seen(o)' = Seen(o)
    BY <1>2 DEF Seen, Entry
  <1>9. Events(o)' = Events(o)
    BY <1>3, <1>4, <1>5, <1>8 DEF Events
  <1>10. PlanInv(o)'
    BY <1>2, <1>5, <1>7, <1>9, PlanKept
  <1>11. ClockInv(o)'
    <2>1. \A x \in pending'[o] \cup retrying'[o] \cup Sent(o)' : x \in pending[o] \cup retrying[o] \cup Sent(o)
      BY <1>3, <1>4, <1>5
    <2>2. \A x \in retrying'[o] \cup Sent(o)' : x \in retrying[o] \cup Sent(o) \/ x = e
      BY <1>5
    <2>3. QED
      BY <1>2, <1>3, <1>7, <2>1, <2>2 DEF ClockInv, Entry
  <1>12. SequenceInv(o)'
    <2> SUFFICES ASSUME faults' = 0 PROVE SequenceInv(o)'
      BY DEF SequenceInv
    <2>1. /\ retrying[o] = {} /\ InSequence(history[o]) /\ InSequence(topic[o])
          /\ \A i \in 1 .. Len(history[o]) : \A x \in Sent(o) \cup pending[o] : Entry(o, i).time <= x.time
          /\ \A x \in Sent(o), f \in pending[o] : x.time <= f.time
          /\ topic'[o] = Append(topic[o], e) /\ retrying'[o] = retrying[o] \ {e}
      BY <1>5, <1>7 DEF SequenceInv
    <2>2. InSequence(topic'[o])
      <3>1. /\ Len(topic[o]) \in Nat /\ Len(topic'[o]) = Len(topic[o]) + 1
            /\ \A i \in 1 .. Len(topic[o]) : topic'[o][i] = topic[o][i] /\ topic[o][i] \in Sent(o)
            /\ topic'[o][Len(topic[o]) + 1] = e
        BY <1>3, <2>1, LenProperties, AppendProperties DEF Sent, Elements
      <3>2. ASSUME NEW i \in 1 .. Len(topic[o]) + 1, NEW j \in 1 .. Len(topic[o]) + 1, i < j
            PROVE  topic'[o][i].time <= topic'[o][j].time
        <4>1. i \in 1 .. Len(topic[o]) /\ (j \in 1 .. Len(topic[o]) \/ j = Len(topic[o]) + 1)
          BY <3>1, <3>2
        <4>2. QED
          BY <1>3, <2>1, <3>1, <3>2, <4>1 DEF InSequence
      <3>3. QED
        BY <3>1, <3>2 DEF InSequence
    <2>3. ASSUME NEW x \in Sent(o)', NEW f \in pending'[o] PROVE x.time <= f.time
      BY <1>1, <1>4, <1>5, <2>1
    <2>4. ASSUME NEW i \in 1 .. Len(history[o]), NEW x \in Sent(o)' \cup pending'[o]
          PROVE  Entry(o, i).time <= x.time
      BY <1>3, <1>4, <1>5, <2>1
    <2>5. QED
      BY <1>2, <2>1, <2>2, <2>3, <2>4 DEF SequenceInv, Entry
  <1>13. QED
    BY <1>2, <1>6, <1>7, <1>10, <1>11, <1>12 DEF TransactionInv

LEMMA RetryStep ==
    ASSUME TypeOK, SimulatorTypeOK, NEW o \in Orders, Retry(o), TransactionInv(o)
    PROVE  SimulatorTypeOK' /\ TransactionInv(o)'
  <1>1. PICK e \in retrying[o] : Attempt(o, e)
    BY DEF Retry
  <1>2. UNCHANGED <<now, run, history, plan, pending, ended>>
    BY DEF Retry, detectors
  <1>3. e \in EdiEvent
    BY DEF SimulatorTypeOK
  <1>4. /\ topic' \in [Orders -> Seq(EdiEvent)] /\ retrying' \in [Orders -> SUBSET EdiEvent]
        /\ faults' \in 0 .. MaxFaults /\ (faults' = 0 => faults = 0)
        /\ e \in retrying'[o] \/ e \in Sent(o)'
        /\ Sent(o) \subseteq Sent(o)' /\ Sent(o)' \subseteq Sent(o) \cup {e}
        /\ retrying[o] \ {e} \subseteq retrying'[o] /\ retrying'[o] \subseteq retrying[o] \cup {e}
    BY <1>1, <1>3, AttemptStep
  <1>5. SimulatorTypeOK'
    BY <1>2, <1>4 DEF SimulatorTypeOK
  <1>6. PlanInv(o) /\ ClockInv(o) /\ SequenceInv(o) /\ Ends(history[o])
    BY DEF TransactionInv
  <1>7. Seen(o)' = Seen(o)
    BY <1>2 DEF Seen, Entry
  <1>8. Events(o)' = Events(o)
    BY <1>1, <1>2, <1>4, <1>7 DEF Events
  <1>9. PlanInv(o)'
    BY <1>2, <1>4, <1>6, <1>8, PlanKept
  <1>10. ClockInv(o)'
    <2>1. \A x \in retrying'[o] \cup Sent(o)' : x \in retrying[o] \cup Sent(o)
      BY <1>1, <1>4
    <2>2. QED
      BY <1>2, <1>6, <2>1 DEF ClockInv, Entry
  <1>11. SequenceInv(o)'
    BY <1>1, <1>4, <1>6 DEF SequenceInv
  <1>12. QED
    BY <1>2, <1>5, <1>6, <1>9, <1>10, <1>11 DEF TransactionInv

LEMMA GiveUpStep ==
    ASSUME TypeOK, SimulatorTypeOK, NEW o \in Orders, GiveUp(o), TransactionInv(o)
    PROVE  SimulatorTypeOK' /\ TransactionInv(o)'
  <1>1. PICK e \in retrying[o] : retrying' = [retrying EXCEPT ![o] = @ \ {e}]
    BY DEF GiveUp
  <1>2. UNCHANGED <<now, run, history, plan, pending, topic, faults, ended>>
    BY DEF GiveUp, detectors
  <1>3. PlanInv(o) /\ ClockInv(o) /\ SequenceInv(o) /\ Ends(history[o])
    BY DEF TransactionInv
  <1>4. retrying'[o] = retrying[o] \ {e} /\ SimulatorTypeOK'
    BY <1>1, <1>2 DEF SimulatorTypeOK
  <1>5. faults # 0
    BY <1>1, <1>3 DEF SequenceInv
  <1>6. Sent(o)' = Sent(o) /\ Seen(o)' = Seen(o)
    BY <1>2 DEF Sent, Seen, Entry
  <1>7. Events(o)' \subseteq Events(o)
    BY <1>2, <1>4, <1>6 DEF Events
  <1>8. PlanInv(o)'
    BY <1>2, <1>3, <1>5, <1>7, PlanKept
  <1>9. ClockInv(o)'
    BY <1>2, <1>3, <1>4, <1>6 DEF ClockInv, Entry
  <1>10. SequenceInv(o)'
    BY <1>2, <1>5 DEF SequenceInv
  <1>11. QED
    BY <1>2, <1>3, <1>4, <1>8, <1>9, <1>10 DEF TransactionInv

LEMMA EndsAppended ==
    ASSUME NEW S, NEW h \in Seq(S), NEW e \in S, Ends(h)
    PROVE  Ends(Append(h, e))
  <1> DEFINE g == Append(h, e)
             n == Len(h) + 1
  <1>1. /\ Len(h) \in Nat /\ Len(g) = n /\ g[n] = e
        /\ \A i \in 1 .. Len(h) : g[i] = h[i]
        /\ \A i \in 1 .. n : i \in 1 .. Len(h) \/ i = n
    BY LenProperties, AppendProperties
  <1> HIDE DEF g
  <1>2. ASSUME NEW f \in 1 .. Len(h), FirstIn(h, f) PROVE FirstIn(g, f)
    <2>1. \A j \in 1 .. f - 1 : j \in 1 .. Len(h)
      BY <1>1
    <2>2. QED
      BY <1>1, <1>2, <2>1 DEF FirstIn
  <1>3. ASSUME NEW l \in 1 .. Len(h), LastIn(h, l), h[l].type # e.type PROVE LastIn(g, l)
    <2>1. \A j \in l + 1 .. n : j \in l + 1 .. Len(h) \/ j = n
      BY <1>1
    <2>2. \A j \in l + 1 .. Len(h) : j \in 1 .. Len(h)
      BY <1>1
    <2>3. QED
      BY <1>1, <1>3, <2>1, <2>2 DEF LastIn
  <1>4. LastIn(g, n)
    BY <1>1 DEF LastIn
  <1>5. ASSUME NEW i \in 1 .. n
        PROVE  \E f \in 1 .. i : g[f].type = g[i].type /\ FirstIn(g, f)
    <2>1. ASSUME NEW k \in 1 .. Len(h), k <= i, g[k].type = g[i].type
          PROVE  \E f \in 1 .. i : g[f].type = g[i].type /\ FirstIn(g, f)
      <3>1. PICK f \in 1 .. k : h[f].type = h[k].type /\ FirstIn(h, f)
        BY DEF Ends
      <3>2. f \in 1 .. Len(h) /\ f \in 1 .. i
        BY <1>1, <2>1
      <3>3. QED
        BY <1>1, <1>2, <2>1, <3>1, <3>2
    <2>2. CASE i \in 1 .. Len(h)
      BY <1>1, <2>1, <2>2
    <2>3. CASE i = n /\ \A k \in 1 .. Len(h) : g[k].type # g[n].type
      <3>1. FirstIn(g, n)
        <4>1. \A j \in 1 .. n - 1 : j \in 1 .. Len(h)
          BY <1>1
        <4>2. QED
          BY <2>3, <4>1 DEF FirstIn
      <3>2. n \in 1 .. n
        BY <1>1
      <3>3. QED
        BY <2>3, <3>1, <3>2
    <2>4. CASE i = n /\ \E k \in 1 .. Len(h) : g[k].type = g[n].type
      BY <1>1, <2>1, <2>4
    <2>5. QED
      BY <1>1, <2>2, <2>3, <2>4
  <1>6. ASSUME NEW i \in 1 .. n
        PROVE  \E l \in i .. n : g[l].type = g[i].type /\ LastIn(g, l)
    <2>1. n \in i .. n
      BY <1>1
    <2>2. CASE g[i].type = e.type
      BY <1>1, <1>4, <2>1, <2>2
    <2>3. CASE g[i].type # e.type
      <3>1. i \in 1 .. Len(h) /\ g[i] = h[i]
        BY <1>1, <2>3
      <3>2. PICK l \in i .. Len(h) : h[l].type = h[i].type /\ LastIn(h, l)
        BY <3>1 DEF Ends
      <3>3. l \in 1 .. Len(h) /\ l \in i .. n
        BY <1>1, <3>1
      <3>4. QED
        BY <1>1, <1>3, <2>3, <3>1, <3>2, <3>3
    <2>4. QED
      BY <2>2, <2>3
  <1>7. QED
    BY <1>1, <1>5, <1>6 DEF Ends, g

\* The event at the head of o's topic is there for no longer than MaxLag.
LEMMA HeadFacts ==
    ASSUME TypeOK, SimulatorTypeOK, NEW o \in Orders, topic[o] # <<>>, ClockInv(o)
    PROVE  /\ topic[o] \in Seq(EdiEvent)
           /\ Head(topic[o]) \in EdiEvent /\ Tail(topic[o]) \in Seq(EdiEvent)
           /\ Sent(o) = Elements(Tail(topic[o])) \cup {Head(topic[o])}
           /\ Head(topic[o]).type \in Types
           /\ Head(topic[o]).time \in 0 .. now /\ now <= Head(topic[o]).time + MaxLag
  <1>1. topic[o] \in Seq(EdiEvent)
    BY DEF SimulatorTypeOK
  <1>2. /\ Head(topic[o]) \in EdiEvent /\ Tail(topic[o]) \in Seq(EdiEvent)
        /\ Sent(o) = Elements(Tail(topic[o])) \cup {Head(topic[o])}
    BY <1>1, ElementsTaken DEF Sent
  <1>3. Head(topic[o]).time <= now /\ now <= Head(topic[o]).time + MaxLag /\ now \in Nat
    BY <1>2, EdiAssumption DEF ClockInv, TypeOK
  <1>4. QED
    BY <1>1, <1>2, <1>3 DEF EdiEvent, EdiTypes, Types

LEMMA ConsumeStep ==
    ASSUME TypeOK, SimulatorTypeOK, NEW o \in Orders, Consume(o), TransactionInv(o)
    PROVE  SimulatorTypeOK' /\ TransactionInv(o)'
  <1> DEFINE e == Head(topic[o])
             n == Len(history[o]) + 1
             h == [type |-> e.type, at |-> now, time |-> e.time, run |-> run]
  <1>1. /\ Process(o, e.type, e.time) /\ topic[o] # <<>>
        /\ topic' = [topic EXCEPT ![o] = Tail(@)]
        /\ UNCHANGED <<now, run, plan, pending, retrying, faults, ended>>
    BY DEF Consume, Process
  <1>2. PlanInv(o) /\ ClockInv(o) /\ SequenceInv(o) /\ Ends(history[o])
    BY DEF TransactionInv
  <1>3. /\ topic[o] \in Seq(EdiEvent) /\ e \in EdiEvent /\ Tail(topic[o]) \in Seq(EdiEvent)
        /\ Sent(o) = Elements(Tail(topic[o])) \cup {e} /\ e = Head(topic[o])
        /\ e.type \in Types /\ e.time \in 0 .. now /\ now <= e.time + MaxLag /\ now \in Nat
    BY <1>1, <1>2, HeadFacts, EdiAssumption DEF TypeOK
  <1> HIDE DEF e
  <1>4. /\ Len(history[o]) \in Nat /\ Len(history'[o]) = n
        /\ \A j \in 1 .. Len(history[o]) : history'[o][j] = history[o][j]
        /\ history'[o][n] = h
        /\ \A i \in 1 .. n : i \in 1 .. Len(history[o]) \/ i = n
    BY <1>1, <1>3, HistoryStep
  <1>5. topic'[o] = Tail(topic[o])
    BY <1>1 DEF SimulatorTypeOK
  <1>6. SimulatorTypeOK'
    BY <1>1, <1>3 DEF SimulatorTypeOK
  <1>7. Seen(o)' = Seen(o) \cup {e}
    <2>1. e = [type |-> h.type, time |-> h.time]
      BY <1>3 DEF EdiEvent
    <2>2. \A i \in 1 .. Len(history[o]) : i \in 1 .. n
      BY <1>4
    <2>3. n \in 1 .. n
      BY <1>4
    <2>4. ASSUME NEW x \in Seen(o)' PROVE x \in Seen(o) \cup {e}
      <3>1. PICK i \in 1 .. n : x = [type |-> history'[o][i].type, time |-> history'[o][i].time]
        BY <1>4 DEF Seen, Entry
      <3>2. QED
        BY <1>4, <2>1, <3>1 DEF Seen, Entry
    <2>5. ASSUME NEW x \in Seen(o) PROVE x \in Seen(o)'
      <3>1. PICK i \in 1 .. Len(history[o]) :
               x = [type |-> history[o][i].type, time |-> history[o][i].time]
        BY DEF Seen, Entry
      <3>2. QED
        BY <1>4, <2>2, <3>1 DEF Seen, Entry
    <2>6. e \in Seen(o)'
      BY <1>4, <2>1, <2>3 DEF Seen, Entry
    <2>7. QED
      BY <2>4, <2>5, <2>6
  <1>8. Sent(o)' = Elements(Tail(topic[o]))
    BY <1>5 DEF Sent, Elements
  <1>9. Events(o)' = Events(o)
    BY <1>1, <1>3, <1>7, <1>8 DEF Events
  <1>10. PlanInv(o)'
    BY <1>1, <1>2, <1>9, PlanKept
  <1>11. ClockInv(o)'
    <2>1. ASSUME NEW i \in 1 .. n
          PROVE  /\ history'[o][i].time <= history'[o][i].at
                 /\ history'[o][i].at <= history'[o][i].time + MaxLag
                 /\ history'[o][i].at <= now /\ history'[o][i].run = run
      BY <1>2, <1>3, <1>4 DEF ClockInv, Entry
    <2>2. (\A x \in pending'[o] \cup retrying'[o] \cup Sent(o)' : now' <= x.time + MaxLag)
          /\ \A x \in retrying'[o] \cup Sent(o)' : x.time <= now'
      BY <1>1, <1>2, <1>3, <1>8 DEF ClockInv
    <2>3. QED
      BY <1>1, <1>4, <2>1, <2>2 DEF ClockInv, Entry
  <1>12. SequenceInv(o)'
    <2> SUFFICES ASSUME faults' = 0 PROVE SequenceInv(o)'
      BY DEF SequenceInv
    <2>1. /\ retrying[o] = {} /\ InSequence(history[o]) /\ InSequence(topic[o])
          /\ \A i \in 1 .. Len(history[o]) : \A x \in Sent(o) \cup pending[o] : Entry(o, i).time <= x.time
          /\ \A x \in Sent(o), f \in pending[o] : x.time <= f.time
      BY <1>1, <1>2 DEF SequenceInv
    <2>2. /\ Len(topic[o]) \in Nat /\ Len(topic[o]) # 0 /\ e = topic[o][1]
          /\ Len(Tail(topic[o])) = Len(topic[o]) - 1
          /\ \A i \in 1 .. Len(Tail(topic[o])) : Tail(topic[o])[i] = topic[o][i + 1]
      BY <1>1, <1>3, HeadTailProperties, LenProperties, EmptySeq
    <2>3. InSequence(topic'[o])
      <3>1. ASSUME NEW i \in 1 .. Len(Tail(topic[o])), NEW j \in 1 .. Len(Tail(topic[o])), i < j
            PROVE  Tail(topic[o])[i].time <= Tail(topic[o])[j].time
        <4>1. i + 1 \in 1 .. Len(topic[o]) /\ j + 1 \in 1 .. Len(topic[o]) /\ i + 1 < j + 1
          BY <2>2, <3>1
        <4>2. QED
          BY <2>1, <2>2, <4>1 DEF InSequence
      <3>2. QED
        BY <1>5, <3>1 DEF InSequence
    <2>4. \A x \in Sent(o)' : e.time <= x.time
      <3>1. SUFFICES ASSUME NEW i \in 1 .. Len(Tail(topic[o])) PROVE e.time <= Tail(topic[o])[i].time
        BY <1>8 DEF Elements
      <3>2. 1 \in 1 .. Len(topic[o]) /\ i + 1 \in 1 .. Len(topic[o]) /\ 1 < i + 1
        BY <2>2
      <3>3. QED
        BY <2>1, <2>2, <3>2 DEF InSequence
    <2>5. InSequence(history'[o])
      <3>1. ASSUME NEW i \in 1 .. n, NEW j \in 1 .. n, i < j
            PROVE  history'[o][i].time <= history'[o][j].time
        <4>1. i \in 1 .. Len(history[o])
          BY <1>4, <3>1
        <4>2. CASE j \in 1 .. Len(history[o])
          BY <1>4, <2>1, <3>1, <4>1, <4>2 DEF InSequence
        <4>3. CASE j = n
          BY <1>3, <1>4, <2>1, <4>1, <4>3 DEF Entry
        <4>4. QED
          BY <1>4, <4>2, <4>3
      <3>2. QED
        BY <1>4, <3>1 DEF InSequence
    <2>6. ASSUME NEW i \in 1 .. n, NEW x \in Sent(o)' \cup pending'[o]
          PROVE  history'[o][i].time <= x.time
      <3>1. x \in Sent(o) \cup pending[o] /\ e.time <= x.time
        BY <1>1, <1>3, <1>8, <2>1, <2>4
      <3>2. QED
        BY <1>4, <2>1, <3>1 DEF Entry
    <2>7. QED
      BY <1>1, <1>3, <1>4, <1>8, <2>1, <2>3, <2>5, <2>6 DEF SequenceInv, Entry
  <1>13. Ends(history[o])'
    <2>1. history[o] \in Seq(Event) /\ h \in Event
      <3>1. history[o] \in Seq(Event) /\ run \in Nat
        BY DEF TypeOK
      <3>2. e.type \in Types /\ e.time \in Nat
        BY <1>3
      <3>3. QED
        BY <1>3, <3>1, <3>2 DEF Event
    <2>2. history'[o] = Append(history[o], h)
      BY <1>1 DEF Process, TypeOK
    <2>3. QED
      BY <1>2, <2>1, <2>2, EndsAppended
  <1>14. QED
    BY <1>6, <1>10, <1>11, <1>12, <1>13 DEF TransactionInv

------------------------------------------------------------------------------
(* The pipeline's invariant.                                                *)

LEMMA PipelineInvInit == PipelineInit => PipelineInv
  <1> SUFFICES ASSUME PipelineInit PROVE PipelineInv
    OBVIOUS
  <1>1. SimulatorTypeOK
    <2>1. <<>> \in Seq(EdiEvent)
      OBVIOUS
    <2>2. topic \in [Orders -> Seq(EdiEvent)]
      BY <2>1 DEF PipelineInit
    <2>3. plan \in [Orders -> (SUBSET EdiTypes) \cup {Unplanned}]
      BY DEF PipelineInit
    <2>4. /\ pending \in [Orders -> SUBSET EdiEvent] /\ retrying \in [Orders -> SUBSET EdiEvent]
          /\ ended \in BOOLEAN
      BY DEF PipelineInit
    <2>5. faults \in 0 .. MaxFaults
      BY PipelineAssumption DEF PipelineInit
    <2>6. QED
      BY <2>2, <2>3, <2>4, <2>5 DEF SimulatorTypeOK
  <1>2. ASSUME NEW o \in Orders PROVE TransactionInv(o)
    <2>1. /\ pending[o] = {} /\ retrying[o] = {} /\ topic[o] = <<>> /\ history[o] = <<>>
          /\ plan[o] = Unplanned
      BY DEF PipelineInit, Init
    <2>2. Len(topic[o]) = 0 /\ Len(history[o]) = 0
      BY <2>1
    <2>3. Events(o) = {} /\ Sent(o) = {}
      BY <2>1, <2>2 DEF Events, Sent, Seen, Elements
    <2>4. PlanInv(o) /\ ClockInv(o) /\ SequenceInv(o) /\ Ends(history[o])
      BY <2>1, <2>2, <2>3 DEF PlanInv, ClockInv, SequenceInv, InSequence, Ends
    <2>5. QED
      BY <2>4 DEF TransactionInv
  <1>3. QED
    BY <1>1, <1>2 DEF PipelineInv

\* A step of one order's events.
StepOf(o) ==
    \/ \E emitted \in SUBSET EdiTypes, ship \in 1 .. MaxDelay, inv \in 1 .. MaxDelay :
          Schedule(o, emitted, ship, inv)
    \/ Emit(o) \/ Retry(o) \/ GiveUp(o) \/ Consume(o)

\* Such a step leaves the others' events alone.
LEMMA OthersKept ==
    ASSUME TypeOK, PipelineInv, NEW o \in Orders, StepOf(o), NEW q \in Orders, q # o
    PROVE  TransactionInv(q)'
  <1>1. TransactionInv(q) /\ SimulatorTypeOK
    BY DEF PipelineInv
  <1>2. UNCHANGED <<now, run, ended>>
    BY DEF StepOf, Schedule, Emit, Retry, GiveUp, Consume, Process, detectors
  <1>3. plan'[q] = plan[q] /\ pending'[q] = pending[q]
    BY <1>1 DEF StepOf, Schedule, Emit, Retry, GiveUp, Consume, SimulatorTypeOK
  <1>4. history'[q] = history[q]
    BY DEF StepOf, Schedule, Emit, Retry, GiveUp, Consume, Process, detectors, TypeOK
  <1>5. topic'[q] = topic[q] /\ retrying'[q] = retrying[q] /\ (faults' = 0 => faults = 0)
    <2>1. ASSUME NEW e \in EdiEvent, Attempt(o, e)
          PROVE  topic'[q] = topic[q] /\ retrying'[q] = retrying[q] /\ (faults' = 0 => faults = 0)
      BY <1>1, <2>1, AttemptStep
    <2>2. CASE Emit(o) \/ Retry(o)
      <3>1. \E e \in EdiEvent : Attempt(o, e)
        BY <1>1, <2>2 DEF Emit, Retry, Due, SimulatorTypeOK
      <3>2. QED
        BY <2>1, <3>1
    <2>3. CASE ~(Emit(o) \/ Retry(o))
      BY <1>1, <2>3 DEF StepOf, Schedule, GiveUp, Consume, SimulatorTypeOK
    <2>4. QED
      BY <2>2, <2>3
  <1>6. QED
    BY <1>1, <1>2, <1>3, <1>4, <1>5, TransactionKept

LEMMA PipelineInvNext == TypeOK /\ PipelineInv /\ [PipelineNext]_everything => PipelineInv'
  <1> SUFFICES ASSUME TypeOK, PipelineInv, [PipelineNext]_everything PROVE PipelineInv'
    OBVIOUS
  <1>1. SimulatorTypeOK /\ \A q \in Orders : TransactionInv(q)
    BY DEF PipelineInv
  <1>2. ASSUME NEW o \in Orders, StepOf(o) PROVE PipelineInv'
    <2>1. SimulatorTypeOK' /\ TransactionInv(o)'
      BY <1>1, <1>2, ScheduleStep, EmitStep, RetryStep, GiveUpStep, ConsumeStep DEF StepOf
    <2>2. \A q \in Orders : q # o => TransactionInv(q)'
      BY <1>2, OthersKept
    <2>3. QED
      BY <2>1, <2>2 DEF PipelineInv
  <1>3. ASSUME UNCHANGED <<now, run, history, plan, pending, retrying, topic, faults, ended>>
        PROVE  PipelineInv'
    <2>1. SimulatorTypeOK'
      BY <1>1, <1>3 DEF SimulatorTypeOK
    <2>2. \A q \in Orders : TransactionInv(q)'
      BY <1>1, <1>3, TransactionKept
    <2>3. QED
      BY <2>1, <2>2 DEF PipelineInv
  <1>4. CASE (\E o \in Orders : Fire(o)) \/ UNCHANGED everything
    BY <1>3, <1>4 DEF Fire, OnTimer, simulator, everything
  <1>5. CASE End
    <2>1. /\ ended' = TRUE /\ pending' = [o \in Orders |-> {}]
          /\ UNCHANGED <<now, run, history, plan, retrying, topic, faults>>
      BY <1>5 DEF End, detectors
    <2>2. SimulatorTypeOK'
      BY <1>1, <2>1 DEF SimulatorTypeOK
    <2>3. ASSUME NEW q \in Orders PROVE TransactionInv(q)'
      <3>1. Sent(q)' = Sent(q) /\ Seen(q)' = Seen(q) /\ pending'[q] = {}
        BY <2>1 DEF Sent, Seen, Entry
      <3>2. PlanInv(q) /\ ClockInv(q) /\ SequenceInv(q) /\ Ends(history[q])
        BY <1>1 DEF TransactionInv
      <3>3. Events(q)' \subseteq Events(q)
        BY <2>1, <3>1 DEF Events
      <3>4. PlanInv(q)'
        BY <2>1, <3>2, <3>3, PlanKept
      <3>5. ClockInv(q)'
        BY <2>1, <3>1, <3>2 DEF ClockInv, Entry
      <3>6. SequenceInv(q)'
        BY <2>1, <3>1, <3>2 DEF SequenceInv, Entry
      <3>7. QED
        BY <2>1, <3>2, <3>4, <3>5, <3>6 DEF TransactionInv
    <2>4. QED
      BY <2>2, <2>3 DEF PipelineInv
  <1>6. CASE TimePasses
    <2>1. /\ now' = now + 1 /\ UNCHANGED <<run, history, plan, pending, retrying, topic, faults, ended>>
          /\ \A o \in Orders : \A e \in Waiting(o) : now < e.time + MaxLag
      BY <1>6 DEF TimePasses, Tick, simulator
    <2>2. SimulatorTypeOK'
      BY <1>1, <2>1 DEF SimulatorTypeOK
    <2>3. ASSUME NEW q \in Orders PROVE TransactionInv(q)'
      <3>1. Sent(q)' = Sent(q) /\ Seen(q)' = Seen(q) /\ Events(q)' = Events(q)
        BY <2>1 DEF Sent, Seen, Events, Entry
      <3>2. PlanInv(q) /\ ClockInv(q) /\ SequenceInv(q) /\ Ends(history[q])
        BY <1>1 DEF TransactionInv
      <3>3. PlanInv(q)'
        BY <2>1, <3>1, <3>2, PlanKept
      <3>4. ClockInv(q)'
        <4>1. now \in Nat /\ MaxLag \in Nat
          BY EdiAssumption DEF TypeOK
        <4>2. ASSUME NEW e \in pending[q] \cup retrying[q] \cup Sent(q)
              PROVE  e \in EdiEvent /\ e \in Waiting(q)
          <5>1. topic[q] \in Seq(EdiEvent) /\ DOMAIN topic[q] = 1 .. Len(topic[q])
            BY <1>1, LenProperties DEF SimulatorTypeOK
          <5>2. QED
            BY <1>1, <4>2, <5>1, ElementOfSeq DEF SimulatorTypeOK, Waiting, Sent, Elements
        <4>3. \A e \in pending[q] \cup retrying[q] \cup Sent(q) : now + 1 <= e.time + MaxLag
          BY <2>1, <4>1, <4>2 DEF EdiEvent
        <4>4. \A e \in retrying[q] \cup Sent(q) : e.time <= now + 1
          BY <3>2, <4>1, <4>2 DEF ClockInv, EdiEvent
        <4>5. ASSUME NEW i \in 1 .. Len(history[q])
              PROVE  /\ Entry(q, i).time <= Entry(q, i).at
                     /\ Entry(q, i).at <= Entry(q, i).time + MaxLag
                     /\ Entry(q, i).at <= now + 1 /\ Entry(q, i).run = run
          <5>1. history[q][i] \in Event
            BY ElementOfSeq DEF TypeOK
          <5>2. QED
            BY <3>2, <4>1, <5>1 DEF ClockInv, Entry, Event
        <4>6. QED
          BY <2>1, <3>1, <4>3, <4>4, <4>5 DEF ClockInv, Entry
      <3>5. SequenceInv(q)'
        BY <2>1, <3>1, <3>2 DEF SequenceInv, Entry
      <3>6. QED
        BY <2>1, <3>2, <3>3, <3>4, <3>5 DEF TransactionInv
    <2>4. QED
      BY <2>2, <2>3 DEF PipelineInv
  <1>7. QED
    BY <1>2, <1>4, <1>5, <1>6 DEF PipelineNext, StepOf

------------------------------------------------------------------------------
(* The pipeline implements the detectors' specification.                    *)

LEMMA DetectorStep ==
    TypeOK /\ PipelineInv /\ [PipelineNext]_everything => [Next]_vars
  <1> SUFFICES ASSUME TypeOK, PipelineInv, [PipelineNext]_everything
               PROVE  Next \/ UNCHANGED vars
    OBVIOUS
  <1>1. ASSUME UNCHANGED detectors PROVE UNCHANGED vars
    BY <1>1 DEF detectors, vars
  <1>2. CASE \E o \in Orders, emitted \in SUBSET EdiTypes, ship \in 1 .. MaxDelay, inv \in 1 .. MaxDelay :
                Schedule(o, emitted, ship, inv)
    BY <1>1, <1>2 DEF Schedule
  <1>3. CASE (\E o \in Orders : Emit(o) \/ Retry(o) \/ GiveUp(o)) \/ End
    BY <1>1, <1>3 DEF Emit, Retry, GiveUp, End
  <1>4. ASSUME NEW o \in Orders, Consume(o) PROVE Next
    <2> DEFINE e == Head(topic[o])
    <2>1. /\ e.type \in Types /\ e.time \in 0 .. now /\ now <= e.time + MaxLag
          /\ Process(o, e.type, e.time)
      BY <1>4, HeadFacts DEF Consume, PipelineInv, TransactionInv
    <2>2. now - e.time <= MaxLag
      BY <2>1, EdiAssumption DEF TypeOK
    <2>3. Arrives(o, e.type)
      BY <2>1, <2>2 DEF Arrives
    <2>4. QED
      BY <2>1, <2>3 DEF Next
  <1>5. CASE (\E o \in Orders : Fire(o)) \/ TimePasses
    BY <1>5 DEF Fire, TimePasses, Next
  <1>6. CASE UNCHANGED everything
    BY <1>6 DEF everything, vars
  <1>7. QED
    BY <1>2, <1>3, <1>4, <1>5, <1>6 DEF PipelineNext

LEMMA PipelineInvariance == PipelineSpec => Spec /\ [](IndInv /\ PipelineInv)
  <1>1. PipelineInit => Init /\ IndInv /\ PipelineInv
    BY IndInit, PipelineInvInit DEF PipelineInit
  <1>2. IndInv /\ PipelineInv /\ [PipelineNext]_everything => [Next]_vars
    BY DetectorStep DEF IndInv
  <1>3. IndInv /\ PipelineInv /\ [PipelineNext]_everything => (IndInv /\ PipelineInv)'
    <2>1. IndInv => TypeOK
      BY DEF IndInv
    <2>2. QED
      BY <1>2, <2>1, IndNext, PipelineInvNext
  <1>4. QED
    BY <1>1, <1>2, <1>3, PTL DEF PipelineSpec, Spec

\* Every behaviour of the pipeline is one of the detectors on some stream of
\* events: what is proved of them holds in it.
THEOREM PipelineImplementsDetectors == PipelineSpec => Spec
  BY PipelineInvariance, PTL

\* Type correctness of the simulator, the topic and the job together.
THEOREM EdiPipelineTypeCorrect == PipelineSpec => []PipelineTypeOK
  <1>1. IndInv /\ PipelineInv => PipelineTypeOK
    BY DEF IndInv, PipelineInv, SimulatorTypeOK, PipelineTypeOK
  <1>2. QED
    BY <1>1, PipelineInvariance, PTL

------------------------------------------------------------------------------
(* What is reported of a transaction.                                       *)

\* An event of the history is one of the transaction's, processed in time.
LEMMA EntryEvent ==
    ASSUME IndInv, PipelineInv, NEW o \in Orders, NEW i \in 1 .. Len(history[o])
    PROVE  /\ [type |-> Entry(o, i).type, time |-> Entry(o, i).time] \in Events(o)
           /\ Entry(o, i).type \in EdiTypes /\ Entry(o, i).type \in plan[o]
           /\ Entry(o, i).time \in Nat /\ Entry(o, i).at \in Nat
           /\ Entry(o, i).time <= Entry(o, i).at /\ Entry(o, i).at <= Entry(o, i).time + MaxLag
           /\ Entry(o, i).run = run /\ i \in Indices /\ i \in Nat
  <1> DEFINE e == [type |-> Entry(o, i).type, time |-> Entry(o, i).time]
  <1>1. PlanInv(o) /\ ClockInv(o) /\ SimulatorTypeOK /\ TypeOK
    BY DEF PipelineInv, TransactionInv, IndInv
  <1>2. e \in Events(o)
    BY DEF Events, Seen
  <1>3. e.type \in plan[o]
    BY <1>1, <1>2 DEF PlanInv
  <1>4. plan[o] \subseteq EdiTypes
    <2>1. plan[o] # Unplanned
      BY <1>1, <1>2 DEF PlanInv
    <2>2. QED
      BY <1>1, <2>1 DEF SimulatorTypeOK
  <1>5. history[o][i] \in Event /\ Len(history[o]) \in Nat /\ Len(history[o]) <= MaxEvents
    BY <1>1, LenProperties, ElementOfSeq DEF TypeOK
  <1>6. i \in Indices
    BY <1>5, EdiAssumption DEF Indices
  <1>7. QED
    BY <1>1, <1>2, <1>3, <1>4, <1>5, <1>6 DEF ClockInv, Entry, Event

\* An order that was reported was followed by nothing that settles it, and its
\* shipment is not on the way.
LEMMA ReportedIsLate ==
    ASSUME IndInv, PipelineInv, NEW o \in Orders, NEW i \in Indices,
           Report("order_unfulfilled", o, i) # 0
    PROVE  /\ i \in 1 .. Len(history[o]) /\ Entry(o, i).type = "order"
           /\ Report("order_unfulfilled", o, i) = 1
           /\ \A j \in i + 1 .. Len(history[o]) : Entry(o, j).type \notin Relevant
           /\ \A e \in pending[o] \cup retrying[o] \cup Sent(o) : e.type # "shipment"
  <1>1. /\ KeyInv(o) /\ TypeOK /\ "order_unfulfilled" \in Violations
        /\ PlanInv(o) /\ ClockInv(o) /\ SimulatorTypeOK
        /\ Len(history[o]) \in Nat /\ i \in Nat /\ 0 < i
    BY LenProperties DEF IndInv, TypeOK, Violations, Indices, PipelineInv, TransactionInv
  <1>2. i \in 1 .. Len(history[o])
    BY <1>1 DEF KeyInv, Past
  <1>3. Report("order_unfulfilled", o, i) \in Nat
    BY <1>1 DEF TypeOK, Report
  <1>4. SoundAt(o, i) /\ Report("order_unfulfilled", o, i) > 0
    BY <1>1, <1>2, <1>3 DEF KeyInv, OuAt
  <1>5. /\ Report("order_unfulfilled", o, i) = 1 /\ Entry(o, i).type = "order"
        /\ now >= Entry(o, i).at + Window
        /\ \A j \in i + 1 .. Len(history[o]) :
              Entry(o, j).type \in Relevant => Entry(o, j).at >= Entry(o, i).at + Window
    BY <1>4 DEF SoundAt
  <1>6. /\ Window \in Nat /\ MaxDelay \in Nat /\ MaxLag \in Nat /\ now \in Nat
        /\ MaxDelay + MaxLag < Window
    BY <1>1, EdiAssumption, PipelineAssumption DEF TypeOK
  <1> DEFINE d == [type |-> Entry(o, i).type, time |-> Entry(o, i).time]
  <1>7. /\ d \in Events(o) /\ d.type = "order" /\ d.time \in Nat
        /\ Entry(o, i).at \in Nat /\ d.time <= Entry(o, i).at
    BY <1>2, <1>5, EntryEvent
  <1>8. \A e \in Events(o) : /\ e.type = "order" => e.time = d.time
                             /\ e.type = "shipment" => e.time <= d.time + MaxDelay
    BY <1>1, <1>7 DEF PlanInv
  <1> HIDE DEF d
  <1>9. ASSUME NEW j \in i + 1 .. Len(history[o]), Entry(o, j).type \in Relevant PROVE FALSE
    <2>1. j \in 1 .. Len(history[o])
      BY <1>1
    <2>2. /\ [type |-> Entry(o, j).type, time |-> Entry(o, j).time] \in Events(o)
          /\ Entry(o, j).time \in Nat /\ Entry(o, j).at \in Nat
          /\ Entry(o, j).at <= Entry(o, j).time + MaxLag
      BY <2>1, EntryEvent
    <2>3. Entry(o, j).time <= d.time + MaxDelay
      BY <1>6, <1>7, <1>8, <1>9, <2>2 DEF Relevant
    <2>4. Entry(o, j).at >= Entry(o, i).at + Window
      BY <1>5, <1>9
    <2>5. QED
      BY <1>6, <1>7, <2>2, <2>3, <2>4
  <1>10. ASSUME NEW e \in pending[o] \cup retrying[o] \cup Sent(o), e.type = "shipment" PROVE FALSE
    <2>1. e \in EdiEvent
      BY <1>1, ElementOfSeq DEF SimulatorTypeOK, Sent, Elements
    <2>2. e.time \in Nat /\ e.time <= d.time + MaxDelay /\ now <= e.time + MaxLag
      BY <1>1, <1>8, <1>10, <2>1 DEF Events, ClockInv, EdiEvent
    <2>3. QED
      BY <1>5, <1>6, <1>7, <2>2
  <1>11. QED
    BY <1>2, <1>5, <1>9, <1>10

\* An order is not called unfulfilled while its shipment is planned, being
\* retried or in the topic, whatever was repeated, lost or overtaken.
THEOREM NothingReportedEarly == PipelineSpec => []NoEarlyReport
  <1>1. ASSUME IndInv, PipelineInv PROVE NoEarlyReport
    <2> SUFFICES ASSUME NEW o \in Orders, ~NotReported(o, "order_unfulfilled"),
                        NEW e \in Waiting(o), e.type = "shipment"
                 PROVE  FALSE
      BY DEF NoEarlyReport
    <2>1. PICK i \in Indices : Report("order_unfulfilled", o, i) # 0
      BY DEF NotReported, Report
    <2>2. topic[o] \in Seq(EdiEvent)
      BY <1>1 DEF PipelineInv, SimulatorTypeOK
    <2>3. DOMAIN topic[o] = 1 .. Len(topic[o])
      BY <2>2, LenProperties
    <2>4. e \in pending[o] \cup retrying[o] \cup Sent(o)
      BY <2>3 DEF Waiting, Sent, Elements
    <2>5. QED
      BY <1>1, <2>1, <2>4, ReportedIsLate
  <1>2. QED
    BY <1>1, PipelineInvariance, PTL

------------------------------------------------------------------------------
(* What a transaction that is over was reported for.                        *)

\* When the transaction is over, its events are those of the history, and of
\* each type received there is a first one.
LEMMA FinishedHistory ==
    ASSUME IndInv, PipelineInv, NEW o \in Orders, Finished(o)
    PROVE  /\ Events(o) = Seen(o) /\ Received(o) \subseteq EdiTypes /\ timers[o] = {}
           /\ Len(history[o]) \in Nat
           /\ \A i \in 1 .. Len(history[o]) :
                 /\ Entry(o, i).type \in Received(o) /\ Entry(o, i).run = run
                 /\ i \in Indices /\ i \in Nat
           /\ \A t \in Received(o) : \E f \in 1 .. Len(history[o]) :
                 Entry(o, f).type = t /\ IsFirst(o, f)
  <1>1. Len(history[o]) \in Nat /\ topic[o] \in Seq(EdiEvent) /\ Ends(history[o])
    BY LenProperties DEF IndInv, TypeOK, PipelineInv, SimulatorTypeOK, TransactionInv
  <1>2. Events(o) = Seen(o)
    <2>1. Waiting(o) = {} /\ DOMAIN topic[o] = 1 .. Len(topic[o])
      BY <1>1, LenProperties DEF Finished
    <2>2. Sent(o) = {} /\ pending[o] = {} /\ retrying[o] = {}
      BY <2>1 DEF Waiting, Sent, Elements
    <2>3. QED
      BY <2>2 DEF Events
  <1>3. \A i \in 1 .. Len(history[o]) :
           /\ Entry(o, i).type \in Received(o) /\ Entry(o, i).type \in EdiTypes
           /\ Entry(o, i).run = run /\ i \in Indices /\ i \in Nat
    BY EntryEvent DEF Received
  <1>4. Received(o) \subseteq EdiTypes
    BY <1>3 DEF Received
  <1>5. ASSUME NEW t \in Received(o)
        PROVE  \E f \in 1 .. Len(history[o]) : Entry(o, f).type = t /\ IsFirst(o, f)
    <2>1. PICK i \in 1 .. Len(history[o]) : Entry(o, i).type = t
      BY DEF Received
    <2>2. PICK f \in 1 .. i : history[o][f].type = history[o][i].type /\ FirstIn(history[o], f)
      BY <1>1 DEF Ends
    <2>3. f \in 1 .. Len(history[o])
      BY <1>1
    <2>4. QED
      BY <2>1, <2>2, <2>3 DEF IsFirst, FirstIn, Entry
  <1>6. QED
    BY <1>1, <1>2, <1>3, <1>4, <1>5 DEF Finished

LEMMA FirstIsUnique ==
    ASSUME NEW o \in Orders, NEW i \in Nat \ {0}, NEW j \in Nat \ {0},
           Entry(o, i).type = Entry(o, j).type, IsFirst(o, i), IsFirst(o, j)
    PROVE  i = j
  BY DEF IsFirst

\* Without a fault of the producer all of the plan arrives, and in order.
LEMMA Undisturbed ==
    ASSUME IndInv, PipelineInv, NEW o \in Orders, Finished(o), faults = 0, ~ended
    PROVE  InOrder(o) /\ Received(o) = plan[o]
  <1>1. PlanInv(o) /\ SequenceInv(o) /\ plan[o] # Unplanned /\ Events(o) = Seen(o)
    BY FinishedHistory DEF PipelineInv, TransactionInv, Finished
  <1>2. ASSUME NEW i \in 1 .. Len(history[o]), NEW j \in 1 .. Len(history[o]),
               Precedes(Entry(o, i).type, Entry(o, j).type)
        PROVE  i < j
    <2> DEFINE e == [type |-> Entry(o, i).type, time |-> Entry(o, i).time]
               f == [type |-> Entry(o, j).type, time |-> Entry(o, j).time]
    <2>1. e \in Events(o) /\ f \in Events(o) /\ i \in Nat /\ j \in Nat
          /\ Entry(o, i).time \in Nat /\ Entry(o, j).time \in Nat
      BY EntryEvent
    <2>2. Entry(o, i).time < Entry(o, j).time
      BY <1>1, <1>2, <2>1 DEF PlanInv
    <2>3. CASE j < i
      <3>1. Entry(o, j).time <= Entry(o, i).time
        BY <1>1, <2>3 DEF SequenceInv, InSequence, Entry
      <3>2. QED
        BY <2>1, <2>2, <3>1
    <2>4. CASE i = j
      BY <2>1, <2>2, <2>4
    <2>5. QED
      BY <2>1, <2>3, <2>4
  <1>3. \A t \in plan[o] : \E e \in Seen(o) : e.type = t
    BY <1>1 DEF PlanInv
  <1>4. plan[o] \subseteq Received(o)
    BY <1>3 DEF Seen, Received
  <1>5. Received(o) \subseteq plan[o]
    BY EntryEvent DEF Received
  <1>6. QED
    BY <1>2, <1>4, <1>5 DEF InOrder

\* The orphan is the first shipment of a transaction without order.
LEMMA OrphanOfTypes ==
    ASSUME IndInv, PipelineInv, NEW o \in Orders, Finished(o), FirstsInOrder(o),
           NEW i \in 1 .. Len(history[o])
    PROVE  OrphanShipment(o, i) <=>
              "order" \notin Received(o) /\ Entry(o, i).type = "shipment" /\ IsFirst(o, i)
  <1>1. /\ Len(history[o]) \in Nat /\ \A j \in 1 .. i - 1 : j \in 1 .. Len(history[o])
        /\ \A k \in 1 .. Len(history[o]) :
              Entry(o, k).type \in Received(o) /\ Entry(o, k).run = run /\ k \in Nat
    BY FinishedHistory
  <1>2. Before(o, i) = 1 .. i - 1
    BY <1>1 DEF Before
  <1>3. ASSUME OrphanShipment(o, i)
        PROVE  "order" \notin Received(o) /\ Entry(o, i).type = "shipment" /\ IsFirst(o, i)
    <2>1. Entry(o, i).type = "shipment"
          /\ \A j \in 1 .. i - 1 : Entry(o, j).type \notin {"order", "shipment"}
      BY <1>2, <1>3 DEF OrphanShipment
    <2>2. IsFirst(o, i)
      BY <2>1 DEF IsFirst
    <2>3. ASSUME "order" \in Received(o) PROVE FALSE
      <3>1. PICK f \in 1 .. Len(history[o]) : Entry(o, f).type = "order" /\ IsFirst(o, f)
        BY <2>3, FinishedHistory
      <3>2. f < i
        BY <2>1, <2>2, <3>1 DEF FirstsInOrder, Precedes
      <3>3. f \in 1 .. i - 1
        BY <1>1, <3>2
      <3>4. QED
        BY <2>1, <3>1, <3>3
    <2>4. QED
      BY <2>1, <2>2, <2>3
  <1>4. ASSUME "order" \notin Received(o), Entry(o, i).type = "shipment", IsFirst(o, i)
        PROVE  OrphanShipment(o, i)
    <2>1. \A j \in 1 .. i - 1 : Entry(o, j).type # "shipment"
      BY <1>4 DEF IsFirst
    <2>2. \A j \in 1 .. i - 1 : Entry(o, j).type # "order"
      BY <1>1, <1>4
    <2>3. QED
      BY <1>2, <1>4, <2>1, <2>2 DEF OrphanShipment
  <1>5. QED
    BY <1>3, <1>4

\* The first invoice that follows an order, in a transaction without shipment,
\* is one without shipment for the detector too.
LEMMA FirstInvoiceUnshipped ==
    ASSUME IndInv, PipelineInv, NEW o \in Orders, Finished(o), FirstsInOrder(o),
           "order" \in Received(o), "shipment" \notin Received(o),
           NEW i \in 1 .. Len(history[o]), Entry(o, i).type = "invoice", IsFirst(o, i)
    PROVE  UnshippedInvoice(o, i)
  <1>1. /\ Len(history[o]) \in Nat /\ \A j \in 1 .. i - 1 : j \in 1 .. Len(history[o])
        /\ Received(o) \subseteq EdiTypes
        /\ \A k \in 1 .. Len(history[o]) :
              Entry(o, k).type \in Received(o) /\ Entry(o, k).run = run /\ k \in Nat
    BY FinishedHistory
  <1>2. Before(o, i) = 1 .. i - 1
    BY <1>1 DEF Before
  <1>3. PICK f \in 1 .. Len(history[o]) : Entry(o, f).type = "order" /\ IsFirst(o, f)
    BY FinishedHistory
  <1>4. f < i
    BY <1>3 DEF FirstsInOrder, Precedes
  <1>5. i - 1 \in 1 .. i - 1 /\ i - 1 \in 1 .. Len(history[o])
    BY <1>1, <1>4
  <1>6. Entry(o, i - 1).type # "invoice"
    BY <1>5 DEF IsFirst
  <1>7. Entry(o, i - 1).type = "order"
    BY <1>1, <1>5, <1>6 DEF EdiTypes
  <1>8. \A k \in (i - 1) + 1 .. i - 1 : Entry(o, k).type = "other"
    BY <1>1
  <1>9. QED
    BY <1>2, <1>5, <1>7, <1>8 DEF UnshippedInvoice

\* In order, that is the only one.
LEMMA UnshippedOfTypes ==
    ASSUME IndInv, PipelineInv, NEW o \in Orders, Finished(o), InOrder(o),
           NEW i \in 1 .. Len(history[o])
    PROVE  UnshippedInvoice(o, i) <=>
              /\ "order" \in Received(o) /\ "shipment" \notin Received(o)
              /\ Entry(o, i).type = "invoice" /\ IsFirst(o, i)
  <1>1. /\ Len(history[o]) \in Nat /\ \A j \in 1 .. i - 1 : j \in 1 .. Len(history[o])
        /\ Received(o) \subseteq EdiTypes
        /\ \A k \in 1 .. Len(history[o]) :
              /\ Entry(o, k).type \in Received(o) /\ Entry(o, k).type \in EdiTypes
              /\ Entry(o, k).run = run /\ k \in Nat
    BY FinishedHistory
  <1>2. Before(o, i) = 1 .. i - 1
    BY <1>1 DEF Before
  <1>3. ASSUME UnshippedInvoice(o, i)
        PROVE  /\ "order" \in Received(o) /\ "shipment" \notin Received(o)
               /\ Entry(o, i).type = "invoice" /\ IsFirst(o, i)
    <2>1. Entry(o, i).type = "invoice"
      BY <1>3 DEF UnshippedInvoice
    <2>2. PICK j \in 1 .. i - 1 : Entry(o, j).type = "order"
                                  /\ \A k \in j + 1 .. i - 1 : Entry(o, k).type = "other"
      BY <1>2, <1>3 DEF UnshippedInvoice
    <2>3. j = i - 1
      <3>1. SUFFICES ASSUME j # i - 1 PROVE FALSE
        OBVIOUS
      <3>2. j + 1 \in j + 1 .. i - 1 /\ j + 1 \in 1 .. Len(history[o])
        BY <1>1, <3>1
      <3>3. QED
        BY <1>1, <2>2, <3>2 DEF EdiTypes
    <2>4. "order" \in Received(o) /\ j \in 1 .. Len(history[o])
      BY <1>1, <2>2
    <2>5. ASSUME NEW k \in 1 .. Len(history[o]),
                 Entry(o, k).type = "shipment" \/ (Entry(o, k).type = "invoice" /\ k < i)
          PROVE  FALSE
      <3>1. j < k
        BY <2>2, <2>4, <2>5 DEF InOrder, Precedes
      <3>2. k < i
        BY <2>1, <2>5 DEF InOrder, Precedes
      <3>3. QED
        BY <1>1, <2>3, <3>1, <3>2
    <2>6. IsFirst(o, i)
      BY <1>1, <2>1, <2>5 DEF IsFirst
    <2>7. "shipment" \notin Received(o)
      BY <2>5 DEF Received
    <2>8. QED
      BY <2>1, <2>4, <2>6, <2>7
  <1>4. FirstsInOrder(o)
    BY DEF InOrder, FirstsInOrder
  <1>5. QED
    BY <1>3, <1>4, FirstInvoiceUnshipped

\* A kind reported exactly for the first event of a type, if at all, is
\* reported once or not.
LEMMA OnceOrNot ==
    ASSUME IndInv, PipelineInv, NEW o \in Orders, Finished(o), NEW v \in Violations,
           NEW t, NEW Calls \in BOOLEAN, Calls => t \in Received(o),
           \A i \in 1 .. Len(history[o]) : Report(v, o, i) =
              IF Calls /\ Entry(o, i).type = t /\ IsFirst(o, i) THEN 1 ELSE 0
    PROVE  IF Calls THEN ReportedOnce(o, v) ELSE NotReported(o, v)
  <1>1. Len(history[o]) \in Nat /\ \A k \in 1 .. Len(history[o]) : k \in Indices /\ k \in Nat
    BY FinishedHistory
  <1>2. \A i \in Indices : i \in 1 .. Len(history[o]) \/ Report(v, o, i) = 0
    BY <1>1 DEF IndInv, KeyInv, Past, Indices
  <1>3. CASE ~Calls
    BY <1>2, <1>3 DEF NotReported, Report
  <1>4. CASE Calls
    <2>1. PICK f \in 1 .. Len(history[o]) : Entry(o, f).type = t /\ IsFirst(o, f)
      BY <1>4, FinishedHistory
    <2>2. f \in Indices /\ f \in Nat \ {0}
      BY <1>1
    <2>3. ASSUME NEW j \in Indices PROVE Report(v, o, j) = IF j = f THEN 1 ELSE 0
      <3>1. CASE j = f
        BY <1>4, <2>1, <3>1
      <3>2. CASE j # f /\ j \in 1 .. Len(history[o])
        <4>1. j \in Nat \ {0}
          BY <1>1, <3>2
        <4>2. ~(Entry(o, j).type = t /\ IsFirst(o, j))
          BY <2>1, <2>2, <3>2, <4>1, FirstIsUnique
        <4>3. QED
          BY <3>2, <4>2
      <3>3. QED
        BY <1>2, <2>1, <3>1, <3>2
    <2>4. QED
      BY <1>4, <2>2, <2>3 DEF ReportedOnce, Report
  <1>5. QED
    BY <1>3, <1>4

\* An order without shipment is reported once, whatever was repeated.
LEMMA UnfulfilledOnce ==
    ASSUME IndInv, PipelineInv, NEW o \in Orders, Finished(o),
           "order" \in Received(o), "shipment" \notin Received(o)
    PROVE  ReportedOnce(o, "order_unfulfilled")
  <1>1. /\ Len(history[o]) \in Nat
        /\ \A k \in 1 .. Len(history[o]) :
              /\ Entry(o, k).type \in Received(o) /\ Entry(o, k).run = run
              /\ k \in Indices /\ k \in Nat
    BY FinishedHistory
  <1>2. PICK i \in 1 .. Len(history[o]) : Entry(o, i).type = "order"
    BY FinishedHistory
  <1>3. PICK l \in i .. Len(history[o]) : history[o][l].type = "order" /\ LastIn(history[o], l)
    BY <1>2 DEF PipelineInv, TransactionInv, Ends, Entry
  <1>4. l \in 1 .. Len(history[o]) /\ l \in Indices /\ l \in Nat
    BY <1>1
  <1>5. Open(o, l)
    <2>1. ASSUME NEW j \in l + 1 .. Len(history[o]) PROVE Entry(o, j).type \notin Relevant
      <3>1. Entry(o, j).type # "order"
        BY <1>3 DEF LastIn, Entry
      <3>2. j \in 1 .. Len(history[o])
        BY <1>4
      <3>3. Entry(o, j).type # "shipment"
        BY <1>1, <3>2
      <3>4. QED
        BY <3>1, <3>3 DEF Relevant
    <2>2. QED
      BY <1>1, <1>3, <1>4, <2>1 DEF Open, Entry
  <1>6. Report("order_unfulfilled", o, l) = 1
    <2>1. WatchInv(o) /\ timers[o] = {}
      BY DEF IndInv, KeyInv, Finished
    <2>2. unfulfilled[o] # l
      BY <1>4, <2>1 DEF WatchInv, Indices, None
    <2>3. QED
      BY <1>4, <1>5, <2>1, <2>2 DEF WatchInv
  <1>7. ASSUME NEW j \in Indices, j # l PROVE Report("order_unfulfilled", o, j) = 0
    <2>1. SUFFICES ASSUME Report("order_unfulfilled", o, j) # 0 PROVE FALSE
      OBVIOUS
    <2>2. /\ j \in 1 .. Len(history[o]) /\ Entry(o, j).type = "order"
          /\ \A k \in j + 1 .. Len(history[o]) : Entry(o, k).type \notin Relevant
      BY <2>1, ReportedIsLate
    <2>3. CASE j < l
      BY <1>1, <1>3, <1>4, <2>2, <2>3 DEF Relevant, Entry
    <2>4. CASE l < j
      BY <1>1, <1>3, <1>4, <2>2, <2>4 DEF LastIn, Entry
    <2>5. QED
      BY <1>1, <1>4, <1>7, <2>2, <2>3, <2>4
  <1>8. QED
    BY <1>4, <1>6, <1>7 DEF ReportedOnce, Report

\* And in order, with a shipment or without an order nothing is reported.
LEMMA UnfulfilledOfTypes ==
    ASSUME IndInv, PipelineInv, NEW o \in Orders, Finished(o), InOrder(o)
    PROVE  IF "order" \in Received(o) /\ "shipment" \notin Received(o)
           THEN ReportedOnce(o, "order_unfulfilled") ELSE NotReported(o, "order_unfulfilled")
  <1>1. CASE "order" \in Received(o) /\ "shipment" \notin Received(o)
    BY <1>1, UnfulfilledOnce
  <1>2. CASE ~("order" \in Received(o) /\ "shipment" \notin Received(o))
    <2>1. SUFFICES ASSUME NEW i \in Indices, Report("order_unfulfilled", o, i) # 0 PROVE FALSE
      BY <1>2 DEF NotReported, Report
    <2>2. /\ i \in 1 .. Len(history[o]) /\ Entry(o, i).type = "order"
          /\ \A j \in i + 1 .. Len(history[o]) : Entry(o, j).type \notin Relevant
      BY <2>1, ReportedIsLate
    <2>3. PICK k \in 1 .. Len(history[o]) : Entry(o, k).type = "shipment"
      BY <1>2, <2>2 DEF Received
    <2>4. i < k
      BY <2>2, <2>3 DEF InOrder, Precedes
    <2>5. k \in i + 1 .. Len(history[o])
      BY <2>2, <2>4, FinishedHistory
    <2>6. QED
      BY <2>2, <2>3, <2>5 DEF Relevant
  <1>3. QED
    BY <1>1, <1>2

\* shipment_without_order is reported exactly, if the first copies are in order.
LEMMA OrphanOnce ==
    ASSUME IndInv, PipelineInv, NEW o \in Orders, Finished(o), FirstsInOrder(o)
    PROVE  IF "shipment_without_order" \in Violated(Received(o))
           THEN ReportedOnce(o, "shipment_without_order")
           ELSE NotReported(o, "shipment_without_order")
  <1> DEFINE v == "shipment_without_order"
             calls == "order" \notin Received(o) /\ "shipment" \in Received(o)
  <1>1. SwoAt(o) /\ v \in Violations
    BY DEF IndInv, KeyInv, Violations
  <1>2. \A i \in 1 .. Len(history[o]) : Entry(o, i).type \in Received(o)
    BY FinishedHistory
  <1>3. \A i \in 1 .. Len(history[o]) : Report(v, o, i) =
          IF calls /\ Entry(o, i).type = "shipment" /\ IsFirst(o, i) THEN 1 ELSE 0
    BY <1>1, <1>2, OrphanOfTypes DEF SwoAt
  <1>4. calls \in BOOLEAN /\ (calls => "shipment" \in Received(o))
    OBVIOUS
  <1>5. v \in Violated(Received(o)) <=> calls
    BY <1>1 DEF Violated
  <1> HIDE DEF calls
  <1>6. IF calls THEN ReportedOnce(o, v) ELSE NotReported(o, v)
    BY <1>1, <1>3, <1>4, OnceOrNot
  <1>7. QED
    BY <1>5, <1>6

\* What the docstring says of a transaction, per violation.
LEMMA ViolatedBy ==
    ASSUME NEW types \in SUBSET EdiTypes
    PROVE  /\ "order_unfulfilled" \in Violated(types)
                <=> "order" \in types /\ "shipment" \notin types
           /\ "invoice_without_shipment" \in Violated(types)
                <=> "order" \in types /\ "shipment" \notin types /\ "invoice" \in types
  <1>1. types = {"order", "invoice"}
          <=> "order" \in types /\ "shipment" \notin types /\ "invoice" \in types
    BY DEF EdiTypes
  <1>2. QED
    BY <1>1 DEF Violated, Violations

\* End to end: without a fault of the producer a transaction reaches the job
\* complete and in order.  Of one that reaches it in order, each violation the
\* docstring of plan_transaction names for its events was reported once and no
\* other was, for all delays and lags within the window.
THEOREM ExactlyTheInjectedIsReported == PipelineSpec => []InjectedIsReported
  <1>1. ASSUME IndInv, PipelineInv PROVE InjectedIsReported
    <2> SUFFICES ASSUME NEW o \in Orders, Finished(o)
                 PROVE  /\ faults = 0 /\ ~ended => InOrder(o) /\ Received(o) = plan[o]
                        /\ InOrder(o) => \A v \in Violations :
                              IF v \in Violated(Received(o)) THEN ReportedOnce(o, v) ELSE NotReported(o, v)
      BY DEF InjectedIsReported
    <2>1. faults = 0 /\ ~ended => InOrder(o) /\ Received(o) = plan[o]
      BY <1>1, Undisturbed
    <2>2. ASSUME InOrder(o), NEW v \in Violations
          PROVE  IF v \in Violated(Received(o)) THEN ReportedOnce(o, v) ELSE NotReported(o, v)
      <3>1. /\ Received(o) \in SUBSET EdiTypes /\ IwsAt(o) /\ FirstsInOrder(o)
            /\ \A i \in 1 .. Len(history[o]) : Entry(o, i).type \in Received(o)
        BY <1>1, <2>2, FinishedHistory DEF IndInv, KeyInv, InOrder, FirstsInOrder
      <3>2. CASE v = "shipment_without_order"
        BY <1>1, <3>1, <3>2, OrphanOnce
      <3>3. CASE v = "invoice_without_shipment"
        <4> DEFINE calls == /\ "order" \in Received(o) /\ "shipment" \notin Received(o)
                            /\ "invoice" \in Received(o)
        <4>1. \A i \in 1 .. Len(history[o]) : Report(v, o, i) =
                IF calls /\ Entry(o, i).type = "invoice" /\ IsFirst(o, i) THEN 1 ELSE 0
          BY <1>1, <2>2, <3>1, <3>3, UnshippedOfTypes DEF IwsAt
        <4>2. calls \in BOOLEAN /\ (calls => "invoice" \in Received(o))
          OBVIOUS
        <4>3. v \in Violated(Received(o)) <=> calls
          BY <3>1, <3>3, ViolatedBy
        <4> HIDE DEF calls
        <4>4. IF calls THEN ReportedOnce(o, v) ELSE NotReported(o, v)
          BY <1>1, <4>1, <4>2, OnceOrNot
        <4>5. QED
          BY <4>3, <4>4
      <3>4. CASE v = "order_unfulfilled"
        BY <1>1, <2>2, <3>1, <3>4, ViolatedBy, UnfulfilledOfTypes
      <3>5. QED
        BY <3>2, <3>3, <3>4 DEF Violations
    <2>3. QED
      BY <2>1, <2>2
  <1>2. QED
    BY <1>1, PipelineInvariance, PTL

\* And whatever repeats come later, after whatever events: as long as the first
\* copies are in order no violation of the events received is missed, and
\* shipment_without_order is still reported exactly.
THEOREM NothingInjectedIsMissed == PipelineSpec => []InjectedIsNotMissed
  <1>1. ASSUME IndInv, PipelineInv PROVE InjectedIsNotMissed
    <2> SUFFICES ASSUME NEW o \in Orders, Finished(o), FirstsInOrder(o)
                 PROVE  /\ \A v \in Violated(Received(o)) : ~NotReported(o, v)
                        /\ IF "shipment_without_order" \in Violated(Received(o))
                           THEN ReportedOnce(o, "shipment_without_order")
                           ELSE NotReported(o, "shipment_without_order")
      BY DEF InjectedIsNotMissed
    <2>1. ASSUME NEW v \in Violations, ReportedOnce(o, v) PROVE ~NotReported(o, v)
      <3>1. PICK i \in Indices : \A j \in Indices : reports[<<v, o, j>>] = IF j = i THEN 1 ELSE 0
        BY <2>1 DEF ReportedOnce
      <3>2. reports[<<v, o, i>>] = 1
        BY <3>1
      <3>3. QED
        BY <3>2 DEF NotReported
    <2>2. IF "shipment_without_order" \in Violated(Received(o))
          THEN ReportedOnce(o, "shipment_without_order")
          ELSE NotReported(o, "shipment_without_order")
      BY <1>1, OrphanOnce
    <2>3. ASSUME NEW v \in Violated(Received(o)) PROVE ~NotReported(o, v)
      <3>1. v \in Violations /\ Received(o) \in SUBSET EdiTypes
        BY <1>1, FinishedHistory DEF Violated
      <3>2. CASE v = "shipment_without_order"
        BY <2>1, <2>2, <2>3, <3>1, <3>2
      <3>3. CASE v = "order_unfulfilled"
        BY <1>1, <2>1, <2>3, <3>1, <3>3, ViolatedBy, UnfulfilledOnce
      <3>4. CASE v = "invoice_without_shipment"
        <4>1. "order" \in Received(o) /\ "shipment" \notin Received(o) /\ "invoice" \in Received(o)
          BY <2>3, <3>1, <3>4, ViolatedBy
        <4>2. PICK i \in 1 .. Len(history[o]) : Entry(o, i).type = "invoice" /\ IsFirst(o, i)
          BY <1>1, <4>1, FinishedHistory
        <4>3. UnshippedInvoice(o, i) /\ i \in Indices
          BY <1>1, <4>1, <4>2, FirstInvoiceUnshipped, FinishedHistory
        <4>4. Report(v, o, i) = 1
          BY <1>1, <3>4, <4>3 DEF IndInv, KeyInv, IwsAt
        <4>5. QED
          BY <4>3, <4>4 DEF NotReported, Report
      <3>5. QED
        BY <3>1, <3>2, <3>3, <3>4 DEF Violations
    <2>4. QED
      BY <2>2, <2>3
  <1>2. QED
    BY <1>1, PipelineInvariance, PTL

==============================================================================
