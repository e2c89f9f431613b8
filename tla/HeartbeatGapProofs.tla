------------------------- MODULE HeartbeatGapProofs -------------------------
(***************************************************************************)
(* Theorems about HeartbeatGap, for every interval, threshold and schedule *)
(* of ticks and faults that HeartbeatAssumption allows.                    *)
(***************************************************************************)
EXTENDS HeartbeatGap, SequenceTheorems, TLAPS

Limit == (GapThreshold + 1) * Second     \* the shortest gap reported, in ms
Missing == suppressed \cup undelivered
Newest == topic[Len(topic)]

\* After a tick the marker is younger than an interval.
MarkerInv ==
    /\ sequence > 0 \/ topic # <<>> => marker # NoTime
    /\ marker # NoTime => marker <= simTime /\ simTime < marker + Interval

\* The heartbeat counted last was lost, suppressed, or is the newest beat.
CountedInv ==
    sequence > 0 =>
        \/ sequence \in undelivered
        \/ \E e \in schedule : e.fault = "heartbeat_loss" /\ IsActiveAt(e, marker)
        \/ topic # <<>> /\ Newest.sequence = sequence /\ Newest.event_time = EventTime(marker)

\* The newest beat was sent at some time t: at the marker, or an interval
\* before it when its successor is missing.
NewestInv ==
    topic # <<>> =>
        \E t \in Nat :
            /\ Newest.event_time = EventTime(t)
            /\ \/ Newest.sequence = sequence /\ t = marker
               \/ /\ Newest.sequence < sequence /\ Newest.sequence + 1 \in Missing
                  /\ t + Interval <= marker

\* What two neighbours in the topic can be: a repetition, two heartbeats in a
\* row, or two with a missing one between them and a gap as long as reported.
Neighbours(p, e, missing) ==
    \/ e = p
    \/ e.sequence = p.sequence + 1 /\ e.event_time - p.event_time <= Limit - 1
    \/ /\ e.sequence > p.sequence + 1 /\ p.sequence + 1 \in missing
       /\ e.event_time - p.event_time >= Limit

PairInv == \A i \in 2 .. Len(topic) : Neighbours(topic[i - 1], topic[i], Missing)

\* The detector holds the beat processed last, by this submission.
JobInv == lastEvent = IF first < offset THEN topic[offset] ELSE NoBeat

Inv == TypeOK /\ MarkerInv /\ CountedInv /\ NewestInv /\ PairInv /\ JobInv

------------------------------------------------------------------------------
(* Division: what truncation to milliseconds and to seconds does to a gap.  *)

LEMMA DivDef ==
    ASSUME NEW a \in Int, NEW d \in Nat \ {0}
    PROVE  /\ a \div d \in Int
           /\ d * (a \div d) <= a
           /\ a < d * (a \div d) + d
  BY SMT

LEMMA DivAtLeast ==
    ASSUME NEW a \in Int, NEW b \in Int, NEW d \in Nat \ {0}, NEW k \in Int,
           b - a >= k * d
    PROVE  b \div d - a \div d >= k
  BY DivDef, SMT

LEMMA DivAtMost ==
    ASSUME NEW a \in Int, NEW b \in Int, NEW d \in Nat \ {0}, NEW k \in Int,
           b - a <= k * d
    PROVE  b \div d - a \div d <= k
  BY DivDef, SMT

LEMMA ConstantTypes ==
    Interval \in Nat \ {0} /\ MaxStep \in Nat /\ Steps \subseteq 1 .. MaxStep
  BY HeartbeatAssumption

LEMMA EventTimeNat == \A t \in Nat : EventTime(t) \in Nat
  BY HeartbeatAssumption, DivDef, SMT DEF EventTime

LEMMA EventTimeMonotone ==
    ASSUME NEW t \in Int, NEW u \in Int, t <= u
    PROVE  /\ EventTime(t) \in Int /\ EventTime(u) \in Int
           /\ EventTime(t) <= EventTime(u)
  <1>1. EventTime(t) \in Int /\ EventTime(u) \in Int
    BY HeartbeatAssumption, DivDef DEF EventTime
  <1>2. u - t >= 0 * Milli
    BY HeartbeatAssumption, SMT
  <1>3. u \div Milli - t \div Milli >= 0
    BY <1>2, HeartbeatAssumption, DivAtLeast
  <1> QED
    BY <1>1, <1>3, SMT DEF EventTime

LEMMA LimitNat == Limit \in Nat \ {0}
  BY HeartbeatAssumption, SMT DEF Limit

\* Two heartbeats in a row stay below the limit ...
LEMMA OneInterval ==
    ASSUME NEW t \in Nat, NEW u \in Nat, u - t < Interval + MaxStep
    PROVE  EventTime(u) - EventTime(t) <= Limit - 1
  <1>1. u - t <= (Limit - 1) * Milli
    BY HeartbeatAssumption, SMT DEF Limit
  <1>2. u \div Milli - t \div Milli <= Limit - 1
    BY <1>1, LimitNat, HeartbeatAssumption, DivAtMost
  <1> QED
    BY <1>2 DEF EventTime

\* ... and two intervals reach it.
LEMMA TwoIntervals ==
    ASSUME NEW t \in Nat, NEW u \in Nat, u - t >= 2 * Interval
    PROVE  EventTime(u) - EventTime(t) >= Limit
  <1>1. u - t >= Limit * Milli
    BY HeartbeatAssumption, SMT DEF Limit
  <1>2. u \div Milli - t \div Milli >= Limit
    BY <1>1, LimitNat, HeartbeatAssumption, DivAtLeast
  <1> QED
    BY <1>2 DEF EventTime

\* The detector's comparison, on whole seconds, is one with the limit.
LEMMA GapIsLimit ==
    ASSUME NEW p \in Beat, NEW e \in Beat
    PROVE  GapSeconds(p, e) > GapThreshold <=> e.event_time - p.event_time >= Limit
  <1> DEFINE gap == e.event_time - p.event_time
  <1>1. gap \in Int
    BY DEF Beat
  <1>2. /\ gap \div Second \in Int
        /\ Second * (gap \div Second) <= gap
        /\ gap < Second * (gap \div Second) + Second
    BY <1>1, HeartbeatAssumption, DivDef
  <1>3. CASE gap >= Limit
    <2>1. gap - 0 >= (GapThreshold + 1) * Second
      BY <1>1, <1>3 DEF Limit
    <2>2. gap \div Second - 0 \div Second >= GapThreshold + 1
      BY <1>1, <2>1, HeartbeatAssumption, DivAtLeast
    <2>3. 0 \div Second = 0
      BY HeartbeatAssumption, SMT
    <2> QED
      BY <1>1, <1>2, <1>3, <2>2, <2>3, HeartbeatAssumption, SMT DEF GapSeconds
  <1>4. CASE gap < Limit
    <2>1. ~(gap \div Second >= GapThreshold + 1)
      BY <1>1, <1>2, <1>4, HeartbeatAssumption, SMT DEF Limit
    <2> QED
      BY <1>1, <1>2, <1>4, <2>1, HeartbeatAssumption, LimitNat, SMT DEF GapSeconds
  <1> QED
    BY <1>1, <1>3, <1>4, LimitNat
------------------------------------------------------------------------------
(* Steps.                                                                   *)

LEMMA WindowType ==
    \A e \in Injected \cup FromProfile :
        e.fault \in Faults /\ e.sim_start \in Int /\ e.sim_end \in Int
  <1>1. ASSUME NEW e \in Injected
        PROVE  e.fault \in Faults /\ e.sim_start \in Int /\ e.sim_end \in Int
    BY HeartbeatAssumption, SMT DEF Injected, AddScheduled
  <1>2. ASSUME NEW e \in FromProfile
        PROVE  e.fault \in Faults /\ e.sim_start \in Int /\ e.sim_end \in Int
    BY HeartbeatAssumption, SMT DEF FromProfile, AddScheduled
  <1> QED
    BY <1>1, <1>2

\* A beat is appended: the pairs are the old ones and the last.
LEMMA AppendPair ==
    ASSUME TypeOK, PairInv, NEW b \in Beat, topic' = Append(topic, b),
           Missing \subseteq Missing',
           topic # <<>> => Neighbours(Newest, b, Missing')
    PROVE  /\ PairInv'
           /\ topic' \in Seq(Beat) /\ Len(topic') = Len(topic) + 1
           /\ topic' # <<>> /\ Newest' = b
           /\ \A i \in 1 .. Len(topic) : topic'[i] = topic[i]
  <1>1. /\ topic' \in Seq(Beat) /\ Len(topic') = Len(topic) + 1
        /\ topic'[Len(topic) + 1] = b
        /\ \A i \in 1 .. Len(topic) : topic'[i] = topic[i]
    BY DEF TypeOK
  <1>2. topic' # <<>> /\ Newest' = b
    BY <1>1 DEF Newest, TypeOK
  <1>3. ASSUME NEW i \in 2 .. Len(topic')
        PROVE  Neighbours(topic'[i - 1], topic'[i], Missing')
    <2>1. CASE i <= Len(topic)
      <3>1. i \in 2 .. Len(topic) /\ topic'[i] = topic[i] /\ topic'[i - 1] = topic[i - 1]
        BY <2>1, <1>1 DEF TypeOK
      <3> QED
        BY <3>1 DEF PairInv, Neighbours
    <2>2. CASE i = Len(topic) + 1
      <3>1. topic # <<>> /\ topic'[i] = b /\ topic'[i - 1] = Newest
        BY <2>2, <1>1 DEF Newest, TypeOK
      <3> QED
        BY <3>1
    <2> QED
      BY <2>1, <2>2, <1>1 DEF TypeOK
  <1> QED
    BY <1>1, <1>2, <1>3 DEF PairInv

LEMMA InitInv == Init => Inv
  <1> SUFFICES ASSUME Init PROVE Inv
    OBVIOUS
  <1>1. TypeOK
    <2>1. schedule \subseteq Injected \cup FromProfile
      BY DEF Init, Schedules
    <2> QED
      BY <2>1, HeartbeatAssumption DEF Init, TypeOK, NoTime, Faults
  <1>2. MarkerInv /\ CountedInv /\ NewestInv /\ PairInv
    BY DEF Init, MarkerInv, CountedInv, NewestInv, PairInv, NoTime
  <1>3. JobInv
    BY DEF Init, JobInv
  <1> QED
    BY <1>1, <1>2, <1>3 DEF Inv

\* A tick that counts no heartbeat.
LEMMA UncountedTick ==
    ASSUME Inv, NEW step \in Steps, Tick(step),
           UNCHANGED <<sequence, topic, suppressed, undelivered>>,
           \/ marker' = marker
           \/ marker = NoTime /\ marker' = simTime',
           marker' # NoTime, simTime' - marker' < Interval
    PROVE  Inv'
  <1> USE DEF Inv
  <1>1. simTime' \in Nat /\ simTime < simTime'
    BY HeartbeatAssumption DEF Tick, TypeOK
  <1>2. /\ schedule' = schedule /\ repeats' = repeats /\ run' = run /\ first' = first
        /\ offset' = offset /\ lastEvent' = lastEvent /\ matches' = matches
    BY DEF Tick, job
  <1>3. activeFaults' \subseteq Faults
    BY WindowType DEF Tick, Update, TypeOK
  <1>4. simTime \div Milli <= simTime' \div Milli
        /\ simTime \div Milli \in Int /\ simTime' \div Milli \in Int
    BY <1>1, EventTimeMonotone DEF EventTime, TypeOK
  <1>5. TypeOK'
    <2>1. marker' \in Nat \cup {NoTime}
      BY <1>1 DEF TypeOK
    <2>2. \A i \in 1 .. Len(topic) : topic[i].event_time <= simTime' \div Milli
      <3> TAKE i \in 1 .. Len(topic)
      <3>1. topic[i] \in Beat /\ topic[i].event_time <= simTime \div Milli
        BY DEF TypeOK
      <3> QED
        BY <1>4, <3>1 DEF Beat
    <2> QED
      BY <1>1, <1>2, <1>3, <2>1, <2>2 DEF TypeOK
  <1>6. MarkerInv'
    BY <1>1, HeartbeatAssumption DEF MarkerInv, TypeOK, NoTime
  <1>7. CountedInv' /\ NewestInv'
    <2>1. CASE marker' = marker
      BY <2>1, <1>2 DEF CountedInv, NewestInv, Newest, Missing
    <2>2. CASE marker = NoTime
      BY <2>2 DEF CountedInv, NewestInv, MarkerInv, TypeOK
    <2> QED
      BY <2>1, <2>2
  <1>8. PairInv' /\ JobInv'
    BY <1>2 DEF PairInv, JobInv, Missing
  <1> QED
    BY <1>5, <1>6, <1>7, <1>8

\* The arithmetic of a tick at u, after one at s, with the marker at m.
LEMMA Ages ==
    ASSUME NEW i \in Nat \ {0}, NEW x \in Nat,
           NEW m \in Nat, NEW s \in Nat, NEW u \in Nat
    PROVE  /\ s < m + i /\ u <= s + x => u - m < i + x
           /\ u <= u /\ u < u + i /\ u - u < i /\ u # -1
           /\ u - m >= i => \A t \in Nat : t = m \/ t + i <= m => t + i <= u
           /\ u - m >= i => \A t \in Nat : t + i <= m => u - t >= 2 * i
  OBVIOUS

\* A tick that counts a heartbeat: what all its outcomes share.
LEMMA CountedTick ==
    ASSUME Inv, NEW step \in Steps, Tick(step),
           marker # NoTime, simTime' - marker >= Interval,
           marker' = simTime', sequence' = sequence + 1
    PROVE  /\ simTime' \in Nat /\ marker \in Nat
           /\ simTime' - marker < Interval + MaxStep
           /\ EventTime(simTime') \in Nat
           /\ \A i \in 1 .. Len(topic) : topic[i].event_time <= EventTime(simTime')
           /\ MarkerInv'
  <1> USE DEF Inv
  <1>1. simTime' \in Nat /\ simTime <= simTime' /\ simTime' <= simTime + MaxStep
    BY ConstantTypes DEF Tick, TypeOK
  <1>2. marker \in Nat /\ simTime < marker + Interval
    BY DEF MarkerInv, TypeOK
  <1>3. simTime' - marker < Interval + MaxStep
    <2>1. simTime \in Nat /\ Interval \in Nat /\ MaxStep \in Nat
      BY ConstantTypes DEF TypeOK
    <2> QED
      BY <1>1, <1>2, <2>1, ConstantTypes, Ages
  <1>4. /\ EventTime(simTime') \in Nat /\ EventTime(simTime) \in Nat
        /\ EventTime(simTime) <= EventTime(simTime')
    <2>1. simTime \in Nat
      BY DEF TypeOK
    <2>2. simTime \in Int /\ simTime' \in Int
      BY <1>1, <2>1
    <2> QED
      BY <1>1, <2>1, <2>2, EventTimeMonotone, EventTimeNat, Zenon
  <1>5. ASSUME NEW i \in 1 .. Len(topic) PROVE topic[i].event_time <= EventTime(simTime')
    <2>1. topic[i] \in Beat /\ topic[i].event_time <= EventTime(simTime)
      BY DEF TypeOK, EventTime
    <2> QED
      BY <2>1, <1>4 DEF Beat
  <1>6. MarkerInv'
    <2>1. marker' = simTime' /\ Interval \in Nat \ {0}
      BY ConstantTypes
    <2>2. /\ marker' <= simTime' /\ simTime' < marker' + Interval
          /\ marker' # NoTime
      BY <1>1, <2>1, ConstantTypes, Ages DEF NoTime
    <2> QED
      BY <2>2, Zenon DEF MarkerInv
  <1> QED
    BY <1>1, <1>2, <1>3, <1>4, <1>5, <1>6

\* The heartbeat counted is missing: suppressed or lost.
LEMMA MissingTick ==
    ASSUME Inv, NEW step \in Steps, Tick(step),
           marker # NoTime, simTime' - marker >= Interval,
           marker' = simTime', sequence' = sequence + 1, topic' = topic,
           \/ /\ suppressed' = suppressed \cup {sequence + 1} /\ undelivered' = undelivered
              /\ "heartbeat_loss" \in activeFaults'
           \/ suppressed' = suppressed /\ undelivered' = undelivered \cup {sequence + 1}
    PROVE  Inv'
  <1> USE DEF Inv
  <1>1. /\ simTime' \in Nat /\ marker \in Nat /\ EventTime(simTime') \in Nat
        /\ \A i \in 1 .. Len(topic) : topic[i].event_time <= EventTime(simTime')
        /\ MarkerInv'
    BY CountedTick
  <1>2. /\ schedule' = schedule /\ repeats' = repeats /\ run' = run /\ first' = first
        /\ offset' = offset /\ lastEvent' = lastEvent /\ matches' = matches
    BY DEF Tick, job
  <1>3. activeFaults' \subseteq Faults
    BY WindowType DEF Tick, Update, TypeOK
  <1>4. Missing' = Missing \cup {sequence + 1}
    BY DEF Missing
  <1>5. TypeOK'
    <2>1. suppressed' \subseteq 1 .. sequence' /\ undelivered' \subseteq 1 .. sequence'
      <3>1. 1 .. sequence \subseteq 1 .. sequence' /\ sequence + 1 \in 1 .. sequence'
        BY DEF TypeOK
      <3> QED
        BY <3>1 DEF TypeOK
    <2> QED
      BY <1>1, <1>2, <1>3, <2>1 DEF TypeOK, EventTime
  <1>6. CountedInv'
    BY <1>2 DEF CountedInv, Tick, Update, TypeOK
  <1>7. NewestInv'
    <2> SUFFICES ASSUME topic # <<>>
                 PROVE  \E t \in Nat :
                          /\ Newest.event_time = EventTime(t)
                          /\ Newest.sequence < sequence + 1
                          /\ Newest.sequence + 1 \in Missing'
                          /\ t + Interval <= simTime'
      BY DEF NewestInv, Newest
    <2>1. Newest \in Beat
      BY DEF Newest, TypeOK
    <2>2. PICK t \in Nat :
            /\ Newest.event_time = EventTime(t)
            /\ \/ Newest.sequence = sequence /\ t = marker
               \/ /\ Newest.sequence < sequence /\ Newest.sequence + 1 \in Missing
                  /\ t + Interval <= marker
      BY DEF NewestInv
    <2>3. t + Interval <= simTime'
      <3>1. simTime' \in Nat /\ marker \in Nat /\ Interval \in Nat /\ simTime' - marker >= Interval
        BY <1>1, ConstantTypes
      <3>2. t = marker \/ t + Interval <= marker
        BY <2>2
      <3> QED
        BY <3>1, <3>2, ConstantTypes, Ages
    <2>4. Newest.sequence < sequence + 1
      BY <2>1, <2>2 DEF TypeOK, Beat
    <2>5. Newest.sequence + 1 \in Missing'
      BY <1>4, <2>2
    <2> QED
      BY <2>2, <2>3, <2>4, <2>5
  <1>8. PairInv'
    BY <1>4 DEF PairInv, Neighbours
  <1>9. JobInv'
    BY <1>2 DEF JobInv
  <1> QED
    BY <1>1, <1>5, <1>6, <1>7, <1>8, <1>9

\* The heartbeat counted is delivered.
LEMMA DeliveredTick ==
    ASSUME Inv, NEW step \in Steps, Tick(step),
           marker # NoTime, simTime' - marker >= Interval,
           marker' = simTime', sequence' = sequence + 1,
           topic' = Append(topic, [sequence |-> sequence + 1, event_time |-> EventTime(simTime')]),
           suppressed' = suppressed, undelivered' = undelivered
    PROVE  Inv'
  <1> USE DEF Inv
  <1> DEFINE b == [sequence |-> sequence + 1, event_time |-> EventTime(simTime')]
  <1>1. /\ simTime' \in Nat /\ marker \in Nat /\ EventTime(simTime') \in Nat
        /\ simTime' - marker < Interval + MaxStep
        /\ \A i \in 1 .. Len(topic) : topic[i].event_time <= EventTime(simTime')
        /\ MarkerInv'
    BY CountedTick
  <1>2. /\ schedule' = schedule /\ repeats' = repeats /\ run' = run /\ first' = first
        /\ offset' = offset /\ lastEvent' = lastEvent /\ matches' = matches
    BY DEF Tick, job
  <1>3. activeFaults' \subseteq Faults
    BY WindowType DEF Tick, Update, TypeOK
  <1>4. b \in Beat /\ Missing' = Missing
    BY <1>1 DEF Beat, Missing, TypeOK
  <1>5. ASSUME topic # <<>> PROVE Neighbours(Newest, b, Missing')
    <2>1. Newest \in Beat
      BY <1>5 DEF Newest, TypeOK
    <2>2. PICK t \in Nat :
            /\ Newest.event_time = EventTime(t)
            /\ \/ Newest.sequence = sequence /\ t = marker
               \/ /\ Newest.sequence < sequence /\ Newest.sequence + 1 \in Missing
                  /\ t + Interval <= marker
      BY <1>5 DEF NewestInv
    <2>3. CASE Newest.sequence = sequence /\ t = marker
      <3>1. b.event_time - Newest.event_time <= Limit - 1
        BY <1>1, <2>2, <2>3, OneInterval
      <3> QED
        BY <2>3, <3>1 DEF Neighbours
    <2>4. CASE /\ Newest.sequence < sequence /\ Newest.sequence + 1 \in Missing
               /\ t + Interval <= marker
      <3>1. simTime' - t >= 2 * Interval
        BY <1>1, <2>4, ConstantTypes, Ages
      <3>2. b.event_time - Newest.event_time >= Limit
        BY <1>1, <2>2, <3>1, TwoIntervals
      <3>3. sequence + 1 > Newest.sequence + 1
        BY <2>1, <2>4 DEF Beat, TypeOK
      <3> QED
        BY <1>4, <2>4, <3>2, <3>3 DEF Neighbours
    <2> QED
      BY <2>2, <2>3, <2>4
  <1>6. /\ PairInv'
        /\ topic' \in Seq(Beat) /\ Len(topic') = Len(topic) + 1
        /\ topic' # <<>> /\ Newest' = b
        /\ \A i \in 1 .. Len(topic) : topic'[i] = topic[i]
    <2>1. topic' = Append(topic, b) /\ Missing \subseteq Missing'
      BY <1>4
    <2> HIDE DEF b
    <2> QED
      BY <1>4, <1>5, <2>1, AppendPair
  <1>7. TypeOK'
    <2>1. suppressed' \subseteq 1 .. sequence' /\ undelivered' \subseteq 1 .. sequence'
      <3>1. 1 .. sequence \subseteq 1 .. sequence' /\ sequence + 1 \in 1 .. sequence'
        BY DEF TypeOK
      <3> QED
        BY <3>1 DEF TypeOK
    <2>2. \A i \in 1 .. Len(topic') : topic'[i].event_time <= EventTime(simTime')
      <3> TAKE i \in 1 .. Len(topic')
      <3>1. CASE i \in 1 .. Len(topic)
        BY <1>1, <1>6, <3>1
      <3>2. CASE i = Len(topic')
        BY <1>1, <1>6, <3>2 DEF Newest
      <3> QED
        BY <1>6, <3>1, <3>2 DEF TypeOK
    <2>3. offset' \in 0 .. Len(topic')
      BY <1>2, <1>6 DEF TypeOK
    <2> QED
      BY <1>1, <1>2, <1>3, <1>6, <2>1, <2>2, <2>3 DEF TypeOK, EventTime
  <1>8. CountedInv'
    BY <1>6 DEF CountedInv
  <1>9. NewestInv'
    BY <1>1, <1>6 DEF NewestInv
  <1>10. JobInv'
    BY <1>2, <1>6 DEF JobInv, TypeOK
  <1> QED
    BY <1>1, <1>6, <1>7, <1>8, <1>9, <1>10

LEMMA TickStep ==
    ASSUME Inv, NEW step \in Steps, Tick(step)
    PROVE  Inv'
  <1> DEFINE suppress == "heartbeat_loss" \in activeFaults'
  <1>1. simTime' = simTime + step /\ MaybeHeartbeat(simTime', suppress)
    BY DEF Tick
  <1>2. simTime' \in Nat /\ Interval \in Nat \ {0}
    BY <1>1, ConstantTypes DEF Inv, TypeOK
  <1>3. CASE marker = NoTime /\ marker' = simTime'
             /\ UNCHANGED <<sequence, topic, suppressed, undelivered>>
    <2>1. marker' # NoTime /\ simTime' - marker' < Interval
      BY <1>2, <1>3, ConstantTypes, Ages DEF NoTime
    <2> QED
      BY <1>3, <2>1, UncountedTick
  <1>4. CASE marker # NoTime /\ simTime' - marker < Interval
             /\ UNCHANGED <<marker, sequence, topic, suppressed, undelivered>>
    BY <1>4, UncountedTick
  <1>5. CASE marker # NoTime /\ simTime' - marker >= Interval /\ marker' = simTime'
             /\ sequence' = sequence + 1 /\ Emit(simTime', suppress)
    <2>1. \/ /\ topic' = topic /\ undelivered' = undelivered
             /\ suppressed' = suppressed \cup {sequence + 1} /\ suppress
          \/ /\ topic' = topic /\ suppressed' = suppressed
             /\ undelivered' = undelivered \cup {sequence + 1}
          \/ /\ topic' = Append(topic, [sequence |-> sequence + 1,
                                        event_time |-> EventTime(simTime')])
             /\ suppressed' = suppressed /\ undelivered' = undelivered
      BY <1>5 DEF Emit, Send
    <2> QED
      BY <1>5, <2>1, MissingTick, DeliveredTick
  <1> QED
    BY <1>1, <1>3, <1>4, <1>5 DEF MaybeHeartbeat

LEMMA RepeatStep ==
    ASSUME Inv, Repeat
    PROVE  Inv'
  <1> USE DEF Inv
  <1>1. topic # <<>> /\ topic' = Append(topic, Newest) /\ repeats' = repeats + 1
        /\ repeats < MaxRepeats
        /\ UNCHANGED <<schedule, machine, suppressed, undelivered, job>>
    BY DEF Repeat, Newest
  <1>2. Newest \in Beat /\ Newest.event_time <= simTime \div Milli
    BY <1>1 DEF Newest, TypeOK
  <1>3. Missing' = Missing /\ Neighbours(Newest, Newest, Missing')
    BY <1>1 DEF Missing, Neighbours
  <1>4. /\ PairInv'
        /\ topic' \in Seq(Beat) /\ Len(topic') = Len(topic) + 1
        /\ topic' # <<>> /\ Newest' = Newest
        /\ \A i \in 1 .. Len(topic) : topic'[i] = topic[i]
    BY <1>1, <1>2, <1>3, AppendPair
  <1>5. TypeOK'
    <2>1. \A i \in 1 .. Len(topic') : topic'[i].event_time <= simTime \div Milli
      <3> TAKE i \in 1 .. Len(topic')
      <3>1. CASE i \in 1 .. Len(topic)
        BY <1>4, <3>1 DEF TypeOK
      <3>2. CASE i = Len(topic')
        BY <1>2, <1>4, <3>2 DEF Newest
      <3> QED
        BY <1>4, <3>1, <3>2 DEF TypeOK
    <2>2. offset' \in 0 .. Len(topic') /\ repeats' \in 0 .. MaxRepeats
      BY <1>1, <1>4, HeartbeatAssumption DEF TypeOK, job
    <2> QED
      BY <1>1, <1>4, <2>1, <2>2 DEF TypeOK, machine, job
  <1>6. MarkerInv' /\ CountedInv' /\ NewestInv'
    BY <1>1, <1>3, <1>4 DEF MarkerInv, CountedInv, NewestInv, machine
  <1>7. JobInv'
    BY <1>1, <1>4 DEF JobInv, job, TypeOK
  <1> QED
    BY <1>4, <1>5, <1>6, <1>7

\* What the machine and its topic are does not depend on the job.
LEMMA JobStep ==
    ASSUME Inv, UNCHANGED <<schedule, machine, transport>>
    PROVE  MarkerInv' /\ CountedInv' /\ NewestInv' /\ PairInv'
  BY DEF Inv, MarkerInv, CountedInv, NewestInv, PairInv, Newest, Missing, machine, transport

LEMMA ConsumeStep ==
    ASSUME Inv, Consume
    PROVE  Inv'
  <1> USE DEF Inv
  <1>1. /\ offset < Len(topic) /\ offset' = offset + 1 /\ lastEvent' = topic[offset + 1]
        /\ matches' = IF IsGap(topic[offset + 1])
                        THEN Append(matches, [detected |-> topic[offset + 1], source |-> lastEvent])
                        ELSE matches
        /\ UNCHANGED <<schedule, machine, transport, run, first>>
    BY DEF Consume, ProcessElement
  <1>2. topic[offset + 1] \in Beat
    BY <1>1 DEF TypeOK
  <1>3. TypeOK'
    <2>1. matches' \in Seq([detected : Beat, source : Beat])
      <3>1. CASE IsGap(topic[offset + 1])
        <4>1. lastEvent \in Beat
          BY <3>1 DEF IsGap, TypeOK
        <4> QED
          BY <1>1, <1>2, <3>1, <4>1 DEF TypeOK
      <3> QED
        BY <1>1, <3>1 DEF TypeOK
    <2> QED
      BY <1>1, <1>2, <2>1 DEF TypeOK, machine, transport
  <1>4. JobInv'
    BY <1>1 DEF JobInv, TypeOK, transport
  <1> QED
    BY <1>1, <1>3, <1>4, JobStep

LEMMA ResubmitStep ==
    ASSUME Inv, NEW from \in {0, Len(topic)}, Resubmit(from)
    PROVE  Inv'
  <1> USE DEF Inv
  <1>1. /\ run <= MaxRuns /\ run' = run + 1 /\ first' = from /\ offset' = from
        /\ lastEvent' = NoBeat
        /\ UNCHANGED <<schedule, machine, transport, matches>>
    BY DEF Resubmit
  <1>2. TypeOK'
    BY <1>1, HeartbeatAssumption DEF TypeOK, machine, transport
  <1>3. JobInv'
    BY <1>1 DEF JobInv, TypeOK
  <1> QED
    BY <1>1, <1>2, <1>3, JobStep

LEMMA Inductive == Inv /\ [Next]_vars => Inv'
  <1> SUFFICES ASSUME Inv, [Next]_vars PROVE Inv'
    OBVIOUS
  <1>1. CASE \E step \in Steps : Tick(step)
    BY <1>1, TickStep
  <1>2. CASE Repeat
    BY <1>2, RepeatStep
  <1>3. CASE Consume
    BY <1>3, ConsumeStep
  <1>4. CASE \E from \in {0, Len(topic)} : Resubmit(from)
    BY <1>4, ResubmitStep
  <1>5. CASE UNCHANGED vars
    <2>1. UNCHANGED <<schedule, machine, transport>> /\ UNCHANGED job
      BY <1>5 DEF vars
    <2>2. TypeOK'
      BY <2>1 DEF Inv, TypeOK, machine, transport, job
    <2>3. JobInv'
      BY <2>1 DEF Inv, JobInv, transport, job
    <2> QED
      BY <2>1, <2>2, <2>3, JobStep DEF Inv
  <1> QED
    BY <1>1, <1>2, <1>3, <1>4, <1>5 DEF Next

LEMMA GapStep ==
    ASSUME Inv, Consume, NEW i \in 1 .. Len(topic),
           offset' = i, offset = i - 1, first < offset
    PROVE  LET previous == topic[i - 1]
               missing == {n \in suppressed \cup undelivered :
                             previous.sequence < n /\ n < topic[i].sequence}
           IN matches' = IF missing # {}
                           THEN Append(matches, [detected |-> topic[i], source |-> previous])
                           ELSE matches
  <1> DEFINE p == topic[i - 1]
             e == topic[i]
             missing == {n \in suppressed \cup undelivered :
                           p.sequence < n /\ n < e.sequence}
  <1>1. i \in 2 .. Len(topic) /\ p \in Beat /\ e \in Beat
    BY DEF Inv, TypeOK
  <1>2. lastEvent = p
    BY <1>1 DEF Inv, JobInv
  <1>3. matches' = IF IsGap(e) THEN Append(matches, [detected |-> e, source |-> p]) ELSE matches
    BY <1>1, <1>2 DEF Consume, ProcessElement, Inv, TypeOK
  <1>4. IsGap(e) <=> e.event_time - p.event_time >= Limit
    BY <1>1, <1>2, GapIsLimit DEF IsGap, NoBeat, Beat
  <1>5. Neighbours(p, e, Missing)
    BY <1>1 DEF Inv, PairInv
  <1>6. missing # {} <=> e.event_time - p.event_time >= Limit
    <2>1. suppressed \cup undelivered \subseteq Nat
      BY DEF Inv, TypeOK
    <2>2. CASE e = p
      BY <1>1, <2>1, <2>2, LimitNat DEF Beat
    <2>3. CASE e.sequence = p.sequence + 1 /\ e.event_time - p.event_time <= Limit - 1
      BY <1>1, <2>1, <2>3, LimitNat DEF Beat
    <2>4. CASE /\ e.sequence > p.sequence + 1 /\ p.sequence + 1 \in Missing
               /\ e.event_time - p.event_time >= Limit
      BY <1>1, <2>4 DEF Beat, Missing
    <2> QED
      BY <1>5, <2>2, <2>3, <2>4 DEF Neighbours
  <1> QED
    BY <1>3, <1>4, <1>6

LEMMA InvSilenceEnds == Inv => SilenceEnds
  <1> SUFFICES ASSUME Inv, sequence > 0, sequence \notin undelivered,
                      ~LossDuring(simTime - Interval, simTime)
               PROVE  /\ topic # <<>> /\ Newest.sequence = sequence
                      /\ Newest.event_time >= EventTime(simTime - Interval)
    BY DEF SilenceEnds, Newest
  <1>1. /\ marker \in Nat /\ simTime \in Nat /\ Interval \in Nat
        /\ marker <= simTime /\ simTime < marker + Interval
    BY ConstantTypes DEF Inv, TypeOK, MarkerInv
  <1>2. ~ \E e \in schedule : e.fault = "heartbeat_loss" /\ IsActiveAt(e, marker)
    <2> SUFFICES ASSUME NEW e \in schedule, e.fault = "heartbeat_loss", IsActiveAt(e, marker)
                 PROVE  e.sim_start <= simTime /\ simTime - Interval < e.sim_end
      BY DEF LossDuring
    <2>1. e.sim_start \in Int /\ e.sim_end \in Int
      BY WindowType DEF Inv, TypeOK
    <2> QED
      BY <1>1, <2>1 DEF IsActiveAt
  <1>3. topic # <<>> /\ Newest.sequence = sequence /\ Newest.event_time = EventTime(marker)
    BY <1>2 DEF Inv, CountedInv
  <1>4. EventTime(simTime - Interval) <= EventTime(marker)
    <2>1. simTime - Interval \in Int /\ marker \in Int /\ simTime - Interval <= marker
      BY <1>1
    <2> QED
      BY <2>1, EventTimeMonotone
  <1>5. EventTime(simTime - Interval) \in Int /\ EventTime(marker) \in Int
    BY <1>1, HeartbeatAssumption, DivDef DEF EventTime
  <1> QED
    BY <1>3, <1>4, <1>5

------------------------------------------------------------------------------
(* Theorems.                                                                *)

LEMMA Invariance == Spec => []Inv
  BY InitInv, Inductive, PTL DEF Spec

\* Every reachable state has its types, and no beat is dated after the tick
\* that sent it.
THEOREM HeartbeatTypeCorrect == Spec => []TypeOK
  <1>1. Inv => TypeOK
    BY DEF Inv
  <1> QED
    BY <1>1, Invariance, PTL

\* Two beats processed in a row are reported as a gap exactly when a heartbeat
\* between them was suppressed or lost.
THEOREM GapMeansMissing == Spec => GapIffMissing
  <1> DEFINE Exact == \A i \in 1 .. Len(topic) :
                 (run' = run /\ offset' = i /\ offset = i - 1 /\ first < offset) =>
                    LET previous == topic[i - 1]
                        missing == {n \in suppressed \cup undelivered :
                                      previous.sequence < n /\ n < topic[i].sequence}
                    IN matches' = IF missing # {}
                                    THEN Append(matches, [detected |-> topic[i], source |-> previous])
                                    ELSE matches
  <1>1. Inv /\ [Next]_vars => [Exact]_vars
    <2> SUFFICES ASSUME Inv, Next, NEW i \in 1 .. Len(topic),
                        run' = run, offset' = i, offset = i - 1, first < offset
                 PROVE  Consume
      BY GapStep
    <2>1. i # i - 1 /\ run # run + 1
      BY DEF Inv, TypeOK
    <2>2. ASSUME NEW step \in Steps, Tick(step) PROVE FALSE
      BY <2>1, <2>2 DEF Tick, job
    <2>3. ASSUME Repeat PROVE FALSE
      BY <2>1, <2>3 DEF Repeat, job
    <2>4. ASSUME NEW from \in {0, Len(topic)}, Resubmit(from) PROVE FALSE
      BY <2>1, <2>4 DEF Resubmit
    <2> QED
      BY <2>2, <2>3, <2>4 DEF Next
  <1> QED
    BY <1>1, Invariance, PTL DEF Spec, GapIffMissing

\* After a fault, the machine's next beat is in the topic within an interval.
THEOREM SilenceAlwaysEnds == Spec => []SilenceEnds
  BY Invariance, InvSilenceEnds, PTL

=============================================================================
