------------------------ MODULE AgentConsumerProofs ------------------------
(***************************************************************************)
(* Theorems about AgentConsumer, for any set of partitions, any length of  *)
(* the logs and any number of faults.                                      *)
(***************************************************************************)
EXTENDS AgentConsumer, SequenceTheorems, TLAPS

------------------------------------------------------------------------------
(* Types.                                                                   *)

\* A record is in hand exactly while it is being handled, it was published,
\* and it comes from a partition assigned to this process.
CurOK ==
    /\ (cur = NoRecord) <=> pc \in {"down", "idle", "closing"}
    /\ cur # NoRecord => /\ cur[2] < Len(log[cur[1]])
                         /\ cur[1] \in assigned

TypeInv == TypeOK /\ CurOK

LEMMA RecordPair ==
    \A r \in Records : /\ r = <<r[1], r[2]>> /\ r # NoRecord
                       /\ r[1] \in Partitions /\ r[2] \in Nat /\ r[2] < MaxLog
  <1> TAKE r \in Records
  <1>1. r = <<r[1], r[2]>> /\ r[1] \in Partitions /\ r[2] \in Offsets
    BY DEF Records
  <1>2. r # <<>>
    <2>1. \A a, b : <<a, b>> # <<>>
      OBVIOUS
    <2>2. QED
      BY <1>1, <2>1
  <1>3. QED
    BY <1>1, <1>2, LogAssumption DEF Offsets, NoRecord

LEMMA PairRecord ==
    \A p \in Partitions, o \in Nat : o < MaxLog => <<p, o>> \in Records
  BY LogAssumption DEF Records, Offsets

LEMMA NoneType == None \in [Records -> Nat]
  BY DEF None

LEMMA IncrementedType ==
    \A f \in [Records -> Nat], r \in Records : Incremented(f, r) \in [Records -> Nat]
  BY DEF Incremented

LEMMA TypeInit == Init => TypeInv
  <1> SUFFICES ASSUME Init PROVE TypeInv
    OBVIOUS
  <1> USE LogAssumption, AgentAssumption DEF Init
  <1>1. log \in Logs /\ \A p \in Partitions : Len(log[p]) <= MaxLog
    BY DEF Logs
  <1>2. committed \in [Partitions -> Nat \cup {NoOffset}]
    BY DEF NoOffset
  <1>3. assigned \in SUBSET Partitions /\ position \in [Partitions -> Nat]
    OBVIOUS
  <1>4. delay \in INITIAL_BACKOFF_SECONDS .. MAX_BACKOFF_SECONDS /\ pause \in 0 .. MAX_BACKOFF_SECONDS
    BY DEF INITIAL_BACKOFF_SECONDS, MAX_BACKOFF_SECONDS
  <1>5. pc \in Stages /\ CurOK
    BY DEF Stages, CurOK
  <1>6. /\ produced \in [Records -> Nat] /\ outbox \in [Records -> Nat] /\ acked \in [Records -> Nat]
        /\ episodes \in [Records -> Nat] /\ training \in [Records -> Nat]
    BY NoneType
  <1>7. faults \in 0 .. MaxFaults
    OBVIOUS
  <1>8. QED
    BY <1>1, <1>2, <1>3, <1>4, <1>5, <1>6, <1>7 DEF TypeInv, TypeOK

\* However the process ends, what it leaves behind is well typed.
LEMMA GoneType ==
    ASSUME TypeInv, Gone, faults' \in 0 .. MaxFaults,
           UNCHANGED <<kafka, position, delay, produced, acked, episodes, training>>
    PROVE  TypeInv'
  <1> USE DEF TypeInv, TypeOK, Gone, kafka
  <1>1. CurOK'
    BY DEF CurOK
  <1>2. pause' \in 0 .. MAX_BACKOFF_SECONDS /\ pc' \in Stages /\ outbox' \in [Records -> Nat]
    BY NoneType DEF MAX_BACKOFF_SECONDS, Stages
  <1>3. assigned' \in SUBSET Partitions /\ stop' \in BOOLEAN /\ cur' \in Records \cup {NoRecord}
    OBVIOUS
  <1>4. /\ log' \in Logs /\ \A p \in Partitions : Len(log'[p]) <= MaxLog
        /\ committed' \in [Partitions -> Nat \cup {NoOffset}] /\ position' \in [Partitions -> Nat]
    OBVIOUS
  <1>5. /\ produced' \in [Records -> Nat] /\ acked' \in [Records -> Nat]
        /\ episodes' \in [Records -> Nat] /\ training' \in [Records -> Nat]
        /\ delay' \in INITIAL_BACKOFF_SECONDS .. MAX_BACKOFF_SECONDS
    OBVIOUS
  <1>6. QED
    BY <1>1, <1>2, <1>3, <1>4, <1>5

LEMMA TypeNext == TypeInv /\ [Next]_vars => TypeInv'
  <1> SUFFICES ASSUME TypeInv, [Next]_vars PROVE TypeInv'
    OBVIOUS
  <1> USE LogAssumption, AgentAssumption DEF TypeInv, TypeOK, CurOK
  <1>1. ASSUME NEW p \in Partitions, NEW k \in Kinds, Publish(p, k) PROVE TypeInv'
    <2>1. log' \in Logs /\ Len(log'[p]) = Len(log[p]) + 1
          /\ \A q \in Partitions : q # p => log'[q] = log[q]
      BY <1>1 DEF Publish, Published, Logs
    <2>2. \A q \in Partitions : Len(log[q]) <= Len(log'[q]) /\ Len(log'[q]) <= MaxLog
      <3>1. \A q \in Partitions : Len(log[q]) \in Nat /\ Len(log[q]) <= MaxLog
        BY DEF Logs
      <3>2. Len(log[p]) + 1 <= MaxLog
        BY <1>1, <3>1 DEF Publish
      <3>3. ASSUME NEW q \in Partitions
            PROVE  Len(log[q]) <= Len(log'[q]) /\ Len(log'[q]) <= MaxLog
        <4>1. CASE q = p
          BY <2>1, <3>1, <3>2, <4>1
        <4>2. CASE q # p
          BY <2>1, <3>1, <4>2
        <4>3. QED
          BY <4>1, <4>2
      <3>4. QED
        BY <3>3
    <2>3. CurOK'
      BY <1>1, <2>2, RecordPair DEF Publish, loop, Logs
    <2>4. TypeOK'
      BY <1>1, <2>1, <2>2 DEF Publish, loop, retry, effects
    <2>5. QED
      BY <2>3, <2>4
  <1>2. ASSUME NEW D \in SUBSET Partitions, Rebalance(D) PROVE TypeInv'
    <2>1. \A p \in Partitions : ResumeAt(log, committed, p, AutoOffsetReset) \in Nat
      BY DEF ResumeAt, NoOffset, Logs
    <2>2. position' \in [Partitions -> Nat] /\ assigned' \in SUBSET Partitions
          /\ assigned \subseteq assigned'
      BY <1>2, <2>1 DEF Rebalance
    <2>3. UNCHANGED <<kafka, pc, cur, retry, stop, effects, faults>>
      BY <1>2 DEF Rebalance
    <2>4. CurOK'
      BY <2>2, <2>3 DEF kafka
    <2>5. QED
      BY <2>2, <2>3, <2>4 DEF kafka, retry, effects
  <1>3. ASSUME NEW r \in Records, Acknowledge(r) PROVE TypeInv'
    BY <1>3 DEF Acknowledge, Incremented, kafka, loop, retry
  <1>4. ASSUME NEW r \in Records, Expire(r) PROVE TypeInv'
    BY <1>4 DEF Expire, kafka, loop, retry
  <1>5. ASSUME Start PROVE TypeInv'
    BY <1>5 DEF Start, kafka, loop, effects, Stages, INITIAL_BACKOFF_SECONDS, MAX_BACKOFF_SECONDS
  <1>6. ASSUME Close PROVE TypeInv'
    BY <1>6, GoneType DEF Close
  <1>7. ASSUME NEW p \in Partitions, Poll(p) PROVE TypeInv'
    <2>1. cur' \in Records /\ cur'[1] = p /\ cur'[2] = position[p] /\ Len(log[p]) \in Nat
      BY <1>7, PairRecord DEF Poll, Logs
    <2>2. CurOK'
      BY <1>7, <2>1, RecordPair DEF Poll, kafka
    <2>3. TypeOK'
      BY <1>7, <2>1 DEF Poll, kafka, retry, effects, Stages, Busy
    <2>4. QED
      BY <2>2, <2>3
  <1>8. ASSUME Crash PROVE TypeInv'
    <2>1. faults' \in 0 .. MaxFaults
      BY <1>8 DEF Crash
    <2>2. QED
      BY <1>8, <2>1, GoneType DEF Crash
  <1>9. ASSUME Signal PROVE TypeInv'
    BY <1>9 DEF Signal, kafka, loop, retry, effects
  <1>10. ASSUME Skip PROVE TypeInv'
    BY <1>10, RecordPair DEF Skip, CommitCurrent, NextTurn, loop, retry, effects, Stages
  <1>11. ASSUME Commit PROVE TypeInv'
    BY <1>11, RecordPair DEF Commit, CommitCurrent, NextTurn, loop, effects, Stages,
       INITIAL_BACKOFF_SECONDS, MAX_BACKOFF_SECONDS
  <1>12. ASSUME SeekBack PROVE TypeInv'
    <2>1. Doubled(delay) \in INITIAL_BACKOFF_SECONDS .. MAX_BACKOFF_SECONDS
          /\ delay \in 0 .. MAX_BACKOFF_SECONDS
      BY DEF Doubled, INITIAL_BACKOFF_SECONDS, MAX_BACKOFF_SECONDS
    <2>2. position' \in [Partitions -> Nat] /\ CurOK'
      BY <1>12, RecordPair DEF SeekBack, BackOff, kafka
    <2>3. QED
      BY <1>12, <2>1, <2>2 DEF SeekBack, BackOff, kafka, effects, Stages, Busy
  <1>13. ASSUME Wake PROVE TypeInv'
    BY <1>13 DEF Wake, NextTurn, kafka, loop, effects, Stages, MAX_BACKOFF_SECONDS
  <1>14. ASSUME Decode \/ DecodeFails PROVE TypeInv'
    BY <1>14 DEF Decode, DecodeFails, kafka, loop, retry, effects, Stages, Busy, Nodes
  <1>15. ASSUME DecodeDies PROVE TypeInv'
    BY <1>15, GoneType DEF DecodeDies
  <1>16. ASSUME \/ ParsePatternMatch \/ ParseRejects \/ RetrieveHistory
                \/ Reason \/ ReasonNeverSucceeds \/ ValidateConfidence \/ NodeFails
         PROVE TypeInv'
    <2>1. /\ pc \in Nodes /\ pc' \in Nodes \cup {"skip", "seek"}
          /\ UNCHANGED <<kafka, loop, cur, retry, stop, effects>>
      BY <1>16 DEF ParsePatternMatch, ParseRejects, RetrieveHistory, Reason,
         ReasonNeverSucceeds, ValidateConfidence, NodeFails, Edge, Nodes
    <2>2. faults' \in 0 .. MaxFaults
      BY <1>16 DEF ParsePatternMatch, ParseRejects, RetrieveHistory, Reason,
         ReasonNeverSucceeds, ValidateConfidence, NodeFails
    <2>3. pc \notin {"down", "idle", "closing"} /\ pc' \in Stages \ {"down", "idle", "closing"}
      BY <2>1 DEF Stages, Busy, Nodes
    <2>4. CurOK'
      BY <2>1, <2>3 DEF kafka, loop
    <2>5. QED
      BY <2>1, <2>2, <2>3, <2>4 DEF kafka, loop, retry, effects
  <1>17. ASSUME EmitAlert PROVE TypeInv'
    <2>1. cur \in Records
      BY <1>17 DEF EmitAlert
    <2>2. produced' \in [Records -> Nat] /\ outbox' \in [Records -> Nat] /\ acked' \in [Records -> Nat]
      <3>1. Incremented(outbox, cur) \in [Records -> Nat] /\ Incremented(produced, cur) \in [Records -> Nat]
        BY <2>1, IncrementedType
      <3>2. [r \in Records |-> acked[r] + Incremented(outbox, cur)[r]] \in [Records -> Nat]
        BY <3>1
      <3>3. QED
        BY <1>17, <3>1, <3>2, NoneType DEF EmitAlert
    <2>3. pc' = "reify" /\ CurOK'
      BY <1>17 DEF EmitAlert, Edge, kafka, loop
    <2>4. QED
      BY <1>17, <2>2, <2>3 DEF EmitAlert, kafka, loop, retry, Stages, Busy, Nodes
  <1>18. ASSUME ReifyMemory \/ ReifyHalfFails PROVE TypeInv'
    <2>1. cur \in Records
      BY <1>18 DEF ReifyMemory, ReifyHalfFails
    <2>2. episodes' \in [Records -> Nat] /\ faults' \in 0 .. MaxFaults
      <3>1. Incremented(episodes, cur) \in [Records -> Nat]
        BY <2>1, IncrementedType
      <3>2. QED
        BY <1>18, <3>1 DEF ReifyMemory, ReifyHalfFails
    <2>3. pc' \in {"train", "seek"} /\ CurOK'
      BY <1>18 DEF ReifyMemory, ReifyHalfFails, Edge, kafka, loop
    <2>4. QED
      BY <1>18, <2>2, <2>3 DEF ReifyMemory, ReifyHalfFails, kafka, loop, retry, alerts, Stages, Busy, Nodes
  <1>19. ASSUME EmitTrainingRecord PROVE TypeInv'
    BY <1>19, IncrementedType DEF EmitTrainingRecord, Edge, kafka, loop, retry, alerts,
       Stages, Busy, Nodes
  <1>20. CASE UNCHANGED vars
    BY <1>20 DEF vars
  <1>21. QED
    BY <1>1, <1>2, <1>3, <1>4, <1>5, <1>6, <1>7, <1>8, <1>9, <1>10, <1>11, <1>12, <1>13,
       <1>14, <1>15, <1>16, <1>17, <1>18, <1>19, <1>20
    DEF Next, Broker, Handle, Invoke, Fault

\* Type correctness of the agent, with the discipline on the record in hand.
THEOREM TypeCorrect == Spec => []TypeOK
  <1>1. TypeInv => TypeOK
    BY DEF TypeInv
  <1>2. QED
    BY TypeInit, TypeNext, <1>1, PTL DEF Spec

------------------------------------------------------------------------------
(* The order of the graph's effects.                                        *)

\* EffectsOrdered is not inductive: what makes the next effect safe is where
\* the process is in the graph.
OrderInv ==
    /\ EffectsOrdered
    /\ pc = "reify" => episodes[cur] < produced[cur]
    /\ pc = "train" => training[cur] < episodes[cur]
    /\ pc = "commit" => training[cur] > 0
    /\ pc = "skip" => Kind \in Poison

LEMMA IncrementedValue ==
    \A f \in [Records -> Nat], r, q \in Records :
       Incremented(f, r)[q] = IF q = r THEN f[q] + 1 ELSE f[q]
  BY DEF Incremented

LEMMA IncrementedGrows ==
    ASSUME NEW f \in [Records -> Nat], NEW r \in Records, NEW q \in Records
    PROVE  f[q] <= Incremented(f, r)[q]
  <1>1. f[q] \in Nat
    OBVIOUS
  <1>2. Incremented(f, r)[q] \in {f[q], f[q] + 1}
    BY IncrementedValue
  <1>3. QED
    BY <1>1, <1>2

LEMMA OrderInit == Init => OrderInv
  BY DEF Init, OrderInv, EffectsOrdered, None

LEMMA OrderNext == TypeInv /\ OrderInv /\ [Next]_vars => OrderInv'
  <1> SUFFICES ASSUME TypeInv, OrderInv, [Next]_vars PROVE OrderInv'
    OBVIOUS
  <1> USE DEF TypeInv, TypeOK, CurOK, OrderInv, EffectsOrdered
  <1>1. ASSUME NEW p \in Partitions, NEW k \in Kinds, Publish(p, k) PROVE OrderInv'
    <2>1. pc = "skip" => Kind' = Kind
      BY <1>1, RecordPair DEF Publish, Published, Kind, KindAt, Logs
    <2>2. QED
      BY <1>1, <2>1 DEF Publish, effects
  <1>2. ASSUME UNCHANGED <<log, cur, produced, episodes, training>>,
               pc' = pc \/ pc' \notin {"reify", "train", "commit", "skip"}
        PROVE  OrderInv'
    BY <1>2 DEF Kind
  <1>3. ASSUME UNCHANGED <<produced, episodes, training>>, pc' \in {"down", "idle", "closing", "decode"}
        PROVE  OrderInv'
    BY <1>3
  <1>4. ASSUME DecodeFails \/ ParseRejects PROVE OrderInv'
    BY <1>4 DEF DecodeFails, ParseRejects, kafka, effects, Kind, Poison
  <1>5. ASSUME EmitAlert PROVE OrderInv'
    <2>1. cur \in Records /\ pc' = "reify"
      BY <1>5 DEF EmitAlert, Edge
    <2>2. \A r \in Records : produced'[r] = IF r = cur THEN produced[r] + 1 ELSE produced[r]
      BY <1>5, <2>1, IncrementedValue DEF EmitAlert
    <2>3. UNCHANGED <<cur, episodes, training>>
      BY <1>5 DEF EmitAlert
    <2>4. \A r \in Records : produced[r] \in Nat /\ episodes[r] \in Nat
      OBVIOUS
    <2>5. ASSUME NEW r \in Records
          PROVE  training'[r] <= episodes'[r] /\ episodes'[r] <= produced'[r]
      <3>1. produced'[r] = produced[r] \/ produced'[r] = produced[r] + 1
        BY <2>2
      <3>2. QED
        BY <2>3, <2>4, <3>1
    <2>6. episodes'[cur] < produced'[cur]
      <3>1. produced'[cur] = produced[cur] + 1 /\ episodes[cur] <= produced[cur]
        BY <2>1, <2>2
      <3>2. QED
        BY <2>1, <2>3, <2>4, <3>1
    <2>7. QED
      BY <2>1, <2>3, <2>5, <2>6
  <1>6. ASSUME ReifyMemory \/ ReifyHalfFails PROVE OrderInv'
    <2>1. cur \in Records /\ pc = "reify" /\ pc' \in {"train", "seek"}
      BY <1>6 DEF ReifyMemory, ReifyHalfFails, Edge
    <2>2. \A r \in Records : episodes'[r] = IF r = cur THEN episodes[r] + 1 ELSE episodes[r]
      <3>1. episodes' = Incremented(episodes, cur)
        BY <1>6 DEF ReifyMemory, ReifyHalfFails
      <3>2. QED
        BY <2>1, <3>1, IncrementedValue
    <2>3. UNCHANGED <<cur, produced, training>>
      BY <1>6 DEF ReifyMemory, ReifyHalfFails, alerts
    <2>4. \A r \in Records : produced[r] \in Nat /\ episodes[r] \in Nat /\ training[r] \in Nat
      OBVIOUS
    <2>5. ASSUME NEW r \in Records
          PROVE  /\ training'[r] <= episodes'[r] /\ episodes'[r] <= produced'[r]
                 /\ r = cur => training'[r] < episodes'[r]
      <3>1. CASE r = cur
        BY <2>1, <2>2, <2>3, <2>4, <3>1
      <3>2. CASE r # cur
        BY <2>2, <2>3, <2>4, <3>2
      <3>3. QED
        BY <3>1, <3>2
    <2>6. QED
      BY <2>1, <2>3, <2>5
  <1>7. ASSUME EmitTrainingRecord PROVE OrderInv'
    <2>1. cur \in Records /\ pc = "train" /\ pc' = "commit"
      BY <1>7 DEF EmitTrainingRecord, Edge
    <2>2. \A r \in Records : training'[r] = IF r = cur THEN training[r] + 1 ELSE training[r]
      BY <1>7, <2>1, IncrementedValue DEF EmitTrainingRecord
    <2>3. UNCHANGED <<cur, produced, episodes>>
      BY <1>7 DEF EmitTrainingRecord, alerts
    <2>4. QED
      BY <2>1, <2>2, <2>3
  <1>8. CASE \/ \E D \in SUBSET Partitions : Rebalance(D)
             \/ \E r \in Records : Acknowledge(r) \/ Expire(r)
             \/ Signal \/ Decode \/ SeekBack \/ ParsePatternMatch \/ RetrieveHistory \/ Reason
             \/ ReasonNeverSucceeds \/ ValidateConfidence \/ NodeFails
    BY <1>8, <1>2 DEF Rebalance, Acknowledge, Expire, Signal, Decode, SeekBack, BackOff,
       ParsePatternMatch, RetrieveHistory, Reason, ReasonNeverSucceeds, ValidateConfidence,
       NodeFails, Edge, kafka, effects
  <1>9. CASE Start \/ Close \/ Crash \/ DecodeDies \/ Skip \/ Commit \/ Wake
             \/ \E p \in Partitions : Poll(p)
    BY <1>9, <1>3 DEF Start, Close, Crash, DecodeDies, Gone, Skip, Commit, Wake, NextTurn, Poll, effects
  <1>10. CASE UNCHANGED vars
    BY <1>10, <1>2 DEF vars
  <1>11. QED
    BY <1>1, <1>4, <1>5, <1>6, <1>7, <1>8, <1>9, <1>10
    DEF Next, Broker, Handle, Invoke, Fault

\* The edge order of the graph survives every retry, restart and rebalance.
THEOREM EffectsAlwaysOrdered == Spec => []EffectsOrdered
  <1>1. OrderInv => EffectsOrdered
    BY DEF OrderInv
  <1>2. QED
    BY TypeInit, TypeNext, OrderInit, OrderNext, <1>1, PTL DEF Spec

------------------------------------------------------------------------------
(* At-least-once.                                                           *)

\* Where the consumer reads next, on a partition of a group that has committed
\* there: at the committed offset; right after the record there while that is
\* in hand, until the seek back.
PositionInv ==
    \A p \in assigned :
       position[p] = IF cur # NoRecord /\ cur[1] = p /\ pc # "sleep"
                       THEN committed[p] + 1 ELSE committed[p]

CommitInv ==
    /\ \A p \in Partitions : committed[p] \in Nat /\ committed[p] <= Len(log[p])
    /\ cur # NoRecord => cur[2] = committed[cur[1]]
    /\ PositionInv
    /\ \A p \in Partitions : \A o \in 0 .. committed[p] - 1 : Settled(<<p, o>>)

EffectsGrow == \A r \in Records : /\ produced[r] <= produced'[r]
                                  /\ episodes[r] <= episodes'[r]
                                  /\ training[r] <= training'[r]

\* A step that neither moves the consumer nor takes or drops a record.
Work == /\ UNCHANGED <<kafka, loop, cur>>
        /\ pc' = "sleep" <=> pc = "sleep"
        /\ EffectsGrow

\* The process is gone; what it did to the outside world stays.
Vanish == Gone /\ UNCHANGED <<kafka, position, produced, episodes, training>>

LEMMA StepShapes ==
    ASSUME TypeInv, [Next]_vars
    PROVE  \/ \E p \in Partitions, k \in Kinds : Publish(p, k)
           \/ \E D \in SUBSET Partitions : Rebalance(D)
           \/ \E p \in Partitions : Poll(p)
           \/ Skip \/ Commit \/ SeekBack \/ Wake
           \/ Vanish \/ Work
  <1> USE DEF TypeInv, TypeOK
  <1>1. \A r \in Records : produced[r] \in Nat /\ episodes[r] \in Nat /\ training[r] \in Nat
    OBVIOUS
  <1>2. ASSUME UNCHANGED <<kafka, loop, cur, produced, episodes, training>>,
               pc' = "sleep" <=> pc = "sleep"
        PROVE  Work
    BY <1>1, <1>2 DEF Work, EffectsGrow
  <1>3. CASE \/ \E r \in Records : Acknowledge(r) \/ Expire(r)
             \/ Start \/ Signal \/ Decode \/ DecodeFails
             \/ ParsePatternMatch \/ ParseRejects \/ RetrieveHistory \/ Reason
             \/ ReasonNeverSucceeds \/ ValidateConfidence \/ NodeFails
             \/ UNCHANGED vars
    BY <1>3, <1>2 DEF Acknowledge, Expire, Start, Signal, Decode, DecodeFails, ParsePatternMatch,
       ParseRejects, RetrieveHistory, Reason, ReasonNeverSucceeds, ValidateConfidence, NodeFails,
       Edge, effects, vars, kafka, loop
  <1>4. CASE Close \/ Crash \/ DecodeDies
    BY <1>4 DEF Close, Crash, DecodeDies, Vanish
  <1>5. CASE EmitAlert
    <2>1. UNCHANGED <<kafka, loop, cur, episodes, training>> /\ pc = "emit" /\ pc' = "reify"
          /\ cur \in Records
          /\ produced' = Incremented(produced, cur)
      BY <1>5 DEF EmitAlert, Edge, CurOK
    <2>2. EffectsGrow
      <3>1. \A r \in Records : produced[r] <= produced'[r]
        BY <2>1, IncrementedGrows
      <3>2. QED
        BY <1>1, <2>1, <3>1 DEF EffectsGrow
    <2>3. QED
      BY <2>1, <2>2 DEF Work
  <1>6. CASE ReifyMemory \/ ReifyHalfFails
    <2>1. UNCHANGED <<kafka, loop, cur, produced, training>> /\ pc = "reify" /\ pc' # "sleep"
          /\ cur \in Records
          /\ episodes' = Incremented(episodes, cur)
      BY <1>6 DEF ReifyMemory, ReifyHalfFails, Edge, alerts, CurOK
    <2>2. EffectsGrow
      <3>1. \A r \in Records : episodes[r] <= episodes'[r]
        BY <2>1, IncrementedGrows
      <3>2. QED
        BY <1>1, <2>1, <3>1 DEF EffectsGrow
    <2>3. QED
      BY <2>1, <2>2 DEF Work
  <1>7. CASE EmitTrainingRecord
    <2>1. UNCHANGED <<kafka, loop, cur, produced, episodes>> /\ pc = "train" /\ pc' # "sleep"
          /\ cur \in Records
          /\ training' = Incremented(training, cur)
      BY <1>7 DEF EmitTrainingRecord, Edge, alerts, CurOK
    <2>2. EffectsGrow
      <3>1. \A r \in Records : training[r] <= training'[r]
        BY <2>1, IncrementedGrows
      <3>2. QED
        BY <1>1, <2>1, <3>1 DEF EffectsGrow
    <2>3. QED
      BY <2>1, <2>2 DEF Work
  <1>8. QED
    BY <1>3, <1>4, <1>5, <1>6, <1>7 DEF Next, Broker, Handle, Invoke, Fault

\* A published record keeps its kind, and its effects never disappear.
LEMMA SettledStable ==
    ASSUME TypeInv, [Next]_vars, NEW r \in Records, r[2] < Len(log[r[1]])
    PROVE  /\ KindAt(log', r) = KindAt(log, r)
           /\ Settled(r) => Settled(r)'
  <1> USE DEF TypeInv, TypeOK
  <1>1. /\ produced[r] \in Nat /\ episodes[r] \in Nat /\ training[r] \in Nat
        /\ produced'[r] \in Nat /\ episodes'[r] \in Nat /\ training'[r] \in Nat
    BY TypeNext
  <1>2. CASE \E p \in Partitions, k \in Kinds : Publish(p, k)
    <2>1. PICK p \in Partitions, k \in Kinds : Publish(p, k)
      BY <1>2
    <2>2. log[r[1]] \in Seq(Kinds) /\ log[p] \in Seq(Kinds) /\ r[2] \in Nat /\ r[1] \in Partitions
      BY RecordPair DEF Logs
    <2>3. KindAt(log', r) = KindAt(log, r)
      <3>1. CASE r[1] = p
        <4>1. log'[p] = Append(log[p], k)
          BY <2>1 DEF Publish, Published, Logs
        <4>2. \A i \in 1 .. Len(log[p]) : Append(log[p], k)[i] = log[p][i]
          BY <2>2, AppendProperties
        <4>3. r[2] + 1 \in 1 .. Len(log[p])
          <5>1. r[2] < Len(log[p])
            BY <3>1
          <5>2. Len(log[p]) \in Nat
            BY <2>2, LenProperties
          <5>3. QED
            BY <2>2, <5>1, <5>2, SMTT(30)
        <4>4. QED
          BY <2>2, <3>1, <4>1, <4>2, <4>3 DEF KindAt
      <3>2. CASE r[1] # p
        BY <2>1, <2>2, <3>2 DEF Publish, Published, KindAt, Logs
      <3>3. QED
        BY <3>1, <3>2
    <2>4. QED
      BY <2>1, <2>3 DEF Publish, effects, Settled
  <1>3. CASE \/ \E D \in SUBSET Partitions : Rebalance(D)
             \/ \E p \in Partitions : Poll(p)
             \/ Skip \/ Commit \/ SeekBack \/ Wake
    <2>1. UNCHANGED <<log, produced, episodes, training>>
      BY <1>3 DEF Rebalance, Poll, Skip, Commit, SeekBack, BackOff, Wake, kafka, effects
    <2>2. QED
      BY <2>1 DEF Settled
  <1>4. CASE Vanish
    BY <1>4 DEF Vanish, kafka, Settled
  <1>5. CASE Work
    BY <1>5, <1>1 DEF Work, kafka, EffectsGrow, Settled
  <1>6. QED
    BY <1>2, <1>3, <1>4, <1>5, StepShapes

CommitOK == \A p \in Partitions : committed[p] \in Nat /\ committed[p] <= Len(log[p])

HandOK == cur # NoRecord => cur[2] = committed[cur[1]]

AllSettled == \A p \in Partitions : \A o \in 0 .. committed[p] - 1 : Settled(<<p, o>>)

\* A record about to be committed is settled.
LEMMA CurrentSettled ==
    TypeInv /\ OrderInv /\ pc \in {"skip", "commit"} => cur \in Records /\ Settled(cur)
  <1> SUFFICES ASSUME TypeInv, OrderInv, pc \in {"skip", "commit"}
               PROVE  cur \in Records /\ Settled(cur)
    OBVIOUS
  <1>1. cur \in Records
    BY DEF TypeInv, TypeOK, CurOK
  <1>2. produced[cur] \in Nat /\ episodes[cur] \in Nat /\ training[cur] \in Nat
    BY <1>1 DEF TypeInv, TypeOK
  <1>3. CASE pc = "skip"
    BY <1>1, <1>3 DEF OrderInv, Settled, Kind
  <1>4. CASE pc = "commit"
    BY <1>1, <1>2, <1>4 DEF OrderInv, EffectsOrdered, Settled
  <1>5. QED
    BY <1>1, <1>3, <1>4

LEMMA CommitInit == Established /\ Init => CommitInv
  BY DEF Init, CommitInv, PositionInv

\* What Skip and Commit have in common.
LEMMA CommitStep ==
    ASSUME TypeInv, OrderInv, CommitInv, [Next]_vars, CommitCurrent, NextTurn,
           UNCHANGED <<log, loop>>, pc \in {"skip", "commit"}
    PROVE  /\ CommitInv'
           /\ \A p \in Partitions : committed'[p] >= committed[p]
  <1> USE DEF CommitInv
  <1>1. /\ cur \in Records /\ cur = <<cur[1], cur[2]>> /\ cur # NoRecord
        /\ cur[1] \in Partitions /\ cur[2] \in Nat
        /\ cur[2] < Len(log[cur[1]])
    BY CurrentSettled, RecordPair DEF TypeInv, CurOK
  <1>2. \A p \in Partitions : committed'[p] = IF p = cur[1] THEN cur[2] + 1 ELSE committed[p]
    BY <1>1 DEF CommitCurrent, TypeInv, TypeOK
  <1>3. \A p \in Partitions : Len(log[p]) \in Nat
    BY DEF TypeInv, TypeOK, Logs
  <1>4. \A p \in Partitions : committed'[p] >= committed[p]
    BY <1>1, <1>2
  <1>5. \A p \in Partitions : committed'[p] \in Nat /\ committed'[p] <= Len(log'[p])
    BY <1>1, <1>2, <1>3
  <1>6. PositionInv'
    <2> SUFFICES ASSUME NEW p \in assigned
                 PROVE  position[p] = committed'[p]
      BY DEF PositionInv, NextTurn, loop
    <2>1. p \in Partitions
      BY DEF TypeInv, TypeOK
    <2>2. CASE p = cur[1]
      BY <1>1, <1>2, <2>1, <2>2 DEF PositionInv
    <2>3. CASE p # cur[1]
      BY <1>2, <2>1, <2>3 DEF PositionInv
    <2>4. QED
      BY <2>2, <2>3
  <1>7. ASSUME NEW p \in Partitions, NEW o \in 0 .. committed'[p] - 1
        PROVE  Settled(<<p, o>>)'
    <2>1. o \in Nat /\ o < Len(log[p]) /\ o < committed'[p]
      BY <1>5
    <2>2. <<p, o>> \in Records
      BY <1>3, <2>1, PairRecord, LogAssumption DEF TypeInv, TypeOK
    <2>3. Settled(<<p, o>>)
      <3>1. CASE o < committed[p]
        BY <3>1, <2>1
      <3>2. CASE o >= committed[p]
        <4>1. p = cur[1] /\ o = cur[2]
          BY <1>1, <1>2, <2>1, <3>2
        <4>2. QED
          BY <4>1, <1>1, CurrentSettled
      <3>3. QED
        BY <3>1, <3>2, <2>1
    <2>4. QED
      BY <2>1, <2>2, <2>3, SettledStable
  <1>8. QED
    BY <1>4, <1>5, <1>6, <1>7 DEF NextTurn

LEMMA CommitNext == TypeInv /\ OrderInv /\ CommitInv /\ [Next]_vars => CommitInv'
  <1> SUFFICES ASSUME TypeInv, OrderInv, CommitInv, [Next]_vars PROVE CommitInv'
    OBVIOUS
  <1>a. \A p \in Partitions : Len(log[p]) \in Nat /\ Len(log[p]) <= MaxLog
    BY DEF TypeInv, TypeOK, Logs
  <1>b. ASSUME UNCHANGED committed, \A p \in Partitions : Len(log[p]) <= Len(log'[p])
        PROVE  CommitOK' /\ AllSettled'
    <2>1. \A p \in Partitions : Len(log'[p]) \in Nat
      BY TypeNext DEF TypeInv, TypeOK, Logs
    <2>2. CommitOK'
      BY <1>a, <1>b, <2>1 DEF CommitInv, CommitOK
    <2>3. ASSUME NEW p \in Partitions, NEW o \in 0 .. committed[p] - 1
          PROVE  Settled(<<p, o>>)'
      <3>1. o \in Nat /\ o < Len(log[p]) /\ o < MaxLog
        BY <1>a, LogAssumption DEF CommitInv
      <3>2. <<p, o>> \in Records /\ Settled(<<p, o>>)
        BY <3>1, PairRecord DEF CommitInv
      <3>3. QED
        BY <3>1, <3>2, SettledStable
    <2>4. QED
      BY <1>b, <2>2, <2>3 DEF AllSettled
  <1>c. CommitOK' /\ HandOK' /\ PositionInv' /\ AllSettled' => CommitInv'
    BY DEF CommitInv, CommitOK, HandOK, AllSettled
  <1>1. CASE \E p \in Partitions, k \in Kinds : Publish(p, k)
    <2>1. PICK p \in Partitions, k \in Kinds : Publish(p, k)
      BY <1>1
    <2>2. ASSUME NEW q \in Partitions PROVE Len(log[q]) <= Len(log'[q])
      <3>1. log'[q] = log[q] \/ Len(log'[q]) = Len(log[q]) + 1
        BY <2>1, AppendProperties DEF Publish, Published, TypeInv, TypeOK, Logs
      <3>2. QED
        BY <1>a, <3>1
    <2>3. HandOK' /\ PositionInv'
      BY <2>1 DEF Publish, loop, CommitInv, HandOK, PositionInv
    <2>4. QED
      BY <1>b, <1>c, <2>1, <2>2, <2>3 DEF Publish
  <1>2. CASE \E D \in SUBSET Partitions : Rebalance(D)
    <2>1. UNCHANGED <<kafka, pc, cur>> /\ cur = NoRecord
      BY <1>2 DEF Rebalance, TypeInv, CurOK
    <2>2. \A p \in assigned' : position'[p] = committed[p]
      BY <1>2 DEF Rebalance, ResumeAt, CommitInv, NoOffset, TypeInv, TypeOK
    <2>3. PositionInv'
      BY <2>1, <2>2 DEF PositionInv, kafka
    <2>4. HandOK' /\ UNCHANGED <<log, committed>>
      BY <2>1 DEF kafka, HandOK, CommitInv
    <2>5. QED
      BY <1>a, <1>b, <1>c, <2>3, <2>4
  <1>3. CASE \E p \in Partitions : Poll(p)
    <2>1. PICK p \in Partitions : Poll(p)
      BY <1>3
    <2>2. /\ UNCHANGED <<log, committed, assigned>> /\ p \in assigned
          /\ cur = NoRecord /\ cur' = <<p, position[p]>> /\ cur' # NoRecord /\ pc' = "decode"
          /\ cur'[1] = p /\ cur'[2] = position[p] /\ position[p] \in Nat
      BY <2>1, RecordPair, TypeNext DEF Poll, kafka, TypeInv, TypeOK, CurOK
    <2>3. \A q \in Partitions : position'[q] = IF q = p THEN position[p] + 1 ELSE position[q]
      BY <2>1 DEF Poll, TypeInv, TypeOK
    <2>4. HandOK'
      BY <2>2 DEF CommitInv, PositionInv, HandOK
    <2>5. PositionInv'
      BY <2>2, <2>3 DEF CommitInv, PositionInv, TypeInv, TypeOK
    <2>6. QED
      BY <1>a, <1>b, <1>c, <2>2, <2>4, <2>5
  <1>4. CASE Skip \/ Commit
    BY <1>4, CommitStep DEF Skip, Commit
  <1>5. CASE SeekBack
    <2>1. /\ UNCHANGED <<log, committed, assigned, cur>> /\ cur \in Records /\ cur # NoRecord
          /\ cur[2] = committed[cur[1]] /\ pc' = "sleep"
      BY <1>5, RecordPair DEF SeekBack, BackOff, kafka, CommitInv, TypeInv, TypeOK, CurOK
    <2>2. \A q \in Partitions : position'[q] = IF q = cur[1] THEN cur[2] ELSE position[q]
      BY <1>5 DEF SeekBack, BackOff, TypeInv, TypeOK
    <2>3. PositionInv'
      BY <2>1, <2>2 DEF CommitInv, PositionInv, TypeInv, TypeOK
    <2>4. HandOK'
      BY <2>1 DEF HandOK, CommitInv
    <2>5. QED
      BY <1>a, <1>b, <1>c, <2>1, <2>3, <2>4
  <1>6. CASE Wake
    <2>1. UNCHANGED <<log, committed, assigned, position>> /\ cur \in Records /\ cur' = NoRecord
          /\ cur # NoRecord /\ pc = "sleep"
      BY <1>6, RecordPair DEF Wake, NextTurn, kafka, loop, TypeInv, TypeOK, CurOK
    <2>2. PositionInv'
      BY <2>1 DEF CommitInv, PositionInv, TypeInv, TypeOK
    <2>3. HandOK'
      BY <2>1 DEF HandOK
    <2>4. QED
      BY <1>a, <1>b, <1>c, <2>1, <2>2, <2>3
  <1>7. CASE Vanish
    <2>1. UNCHANGED <<log, committed>> /\ assigned' = {} /\ cur' = NoRecord
      BY <1>7 DEF Vanish, Gone, kafka
    <2>2. PositionInv' /\ HandOK'
      BY <2>1 DEF PositionInv, HandOK
    <2>3. QED
      BY <1>a, <1>b, <1>c, <2>1, <2>2
  <1>8. CASE Work
    <2>1. UNCHANGED <<log, committed, assigned, position, cur>> /\ (pc' = "sleep" <=> pc = "sleep")
      BY <1>8 DEF Work, kafka, loop
    <2>2. PositionInv' /\ HandOK'
      BY <2>1 DEF PositionInv, HandOK, CommitInv
    <2>3. QED
      BY <1>a, <1>b, <1>c, <2>1, <2>2
  <1>9. QED
    BY <1>1, <1>2, <1>3, <1>4, <1>5, <1>6, <1>7, <1>8, StepShapes

IndInv == TypeInv /\ OrderInv /\ CommitInv

\* A group that has committed is served at least once: behind its committed
\* offset every record is poison or went through the whole graph.
THEOREM AtLeastOnceHolds == Established => (Spec => []CommittedIsSettled)
  <1> SUFFICES ASSUME Established PROVE Spec => []CommittedIsSettled
    OBVIOUS
  <1>1. Init => IndInv
    BY TypeInit, OrderInit, CommitInit DEF IndInv
  <1>2. IndInv /\ [Next]_vars => IndInv'
    BY TypeNext, OrderNext, CommitNext DEF IndInv
  <1>3. IndInv => CommittedIsSettled
    BY DEF IndInv, CommitInv, CommittedIsSettled
  <1>4. QED
    BY <1>1, <1>2, <1>3, PTL DEF Spec

\* Whatever is in hand is the next record to commit.
THEOREM ReplayIsShallow == Established => (Spec => []NoDeepReplay)
  <1> SUFFICES ASSUME Established PROVE Spec => []NoDeepReplay
    OBVIOUS
  <1>1. Init => IndInv
    BY TypeInit, OrderInit, CommitInit DEF IndInv
  <1>2. IndInv /\ [Next]_vars => IndInv'
    BY TypeNext, OrderNext, CommitNext DEF IndInv
  <1>3. IndInv => NoDeepReplay
    BY DEF IndInv, CommitInv, NoDeepReplay
  <1>4. QED
    BY <1>1, <1>2, <1>3, PTL DEF Spec

\* No step of a group that has committed takes a committed offset back.
THEOREM CommitIsMonotonic == Established => (Spec => CommitNeverRegresses)
  <1> SUFFICES ASSUME Established PROVE Spec => CommitNeverRegresses
    OBVIOUS
  <1> DEFINE Forward == \A p \in Partitions : committed'[p] >= committed[p]
  <1>1. Init => IndInv
    BY TypeInit, OrderInit, CommitInit DEF IndInv
  <1>2. IndInv /\ [Next]_vars => IndInv'
    BY TypeNext, OrderNext, CommitNext DEF IndInv
  <1>3. ASSUME IndInv, [Next]_vars PROVE Established => Forward
    <2> USE <1>3 DEF IndInv
    <2>1. \A p \in Partitions : committed[p] \in Nat
      BY DEF CommitInv
    <2>2. CASE Skip \/ Commit
      BY <2>2, CommitStep DEF Skip, Commit
    <2>3. CASE UNCHANGED committed
      BY <2>1, <2>3
    <2>4. \/ Skip \/ Commit \/ UNCHANGED committed
      BY StepShapes DEF Publish, Rebalance, Poll, SeekBack, BackOff, Wake, Vanish, Work, kafka
    <2>5. QED
      BY <2>2, <2>3, <2>4
  <1>4. QED
    BY <1>1, <1>2, <1>3, PTL DEF Spec, CommitNeverRegresses

------------------------------------------------------------------------------
(* Duplicates.                                                              *)

AfterEmit == {"reify", "train", "commit"}

\* The consumer will poll the record, again or for the first time.
ToRead(r) == r[1] \in assigned /\ position[r[1]] <= r[2]

\* DuplicatesNeedFaults is not inductive: the alerts of a record may be one
\* ahead of the faults only from emit on, and only as long as the record will
\* not be read again.
AlertsPaid(r) ==
    /\ produced[r] <= 1 + faults
    /\ r = cur /\ pc \notin AfterEmit => produced[r] <= faults
    /\ r # cur /\ (ToRead(r) \/ committed[r[1]] <= r[2]) => produced[r] <= faults

DuplicateInv == \A r \in Records : AlertsPaid(r)

LEMMA DuplicateInit == Init => DuplicateInv
  <1> SUFFICES ASSUME Init, NEW r \in Records PROVE AlertsPaid(r)
    BY DEF DuplicateInv
  <1>1. produced[r] = 0 /\ faults = 0 /\ cur = NoRecord /\ r # NoRecord /\ pc = "down"
    BY RecordPair DEF Init, None
  <1>2. QED
    BY <1>1 DEF AlertsPaid, AfterEmit

\* A step that produces no alert, moves nothing, and leaves the part of the
\* graph after emit only at the price of a fault.
Quiet ==
    /\ UNCHANGED <<committed, loop, cur, produced>>
    /\ faults' \in {faults, faults + 1}
    /\ pc \in AfterEmit => pc' \in AfterEmit \/ faults' = faults + 1

LEMMA DuplicateShapes ==
    ASSUME TypeInv, [Next]_vars
    PROVE  \/ \E D \in SUBSET Partitions : Rebalance(D)
           \/ \E p \in Partitions : Poll(p)
           \/ EmitAlert \/ Skip \/ Commit \/ SeekBack \/ Wake
           \/ Close \/ Crash \/ DecodeDies \/ Quiet
  <1> USE DEF TypeInv, TypeOK
  <1>1. CASE \/ \E p \in Partitions, k \in Kinds : Publish(p, k)
             \/ \E r \in Records : Acknowledge(r) \/ Expire(r)
             \/ Signal \/ UNCHANGED vars
    BY <1>1 DEF Publish, Acknowledge, Expire, Signal, vars, kafka, loop, effects, Quiet
  <1>2. CASE \/ Decode \/ ParsePatternMatch \/ RetrieveHistory \/ Reason \/ ValidateConfidence
             \/ ReifyMemory \/ EmitTrainingRecord
    BY <1>2 DEF Decode, ParsePatternMatch, RetrieveHistory, Reason, ValidateConfidence,
       ReifyMemory, EmitTrainingRecord, Edge, kafka, loop, effects, alerts, Quiet, AfterEmit
  <1>3. CASE \/ Start \/ DecodeFails \/ ParseRejects \/ ReasonNeverSucceeds
             \/ NodeFails \/ ReifyHalfFails
    BY <1>3 DEF Start, DecodeFails, ParseRejects, ReasonNeverSucceeds, NodeFails, ReifyHalfFails,
       kafka, loop, effects, alerts, Quiet, AfterEmit
  <1>4. QED
    BY <1>1, <1>2, <1>3 DEF Next, Broker, Handle, Invoke, Fault

LEMMA DuplicateNext ==
    TypeInv /\ CommitInv /\ DuplicateInv /\ [Next]_vars => DuplicateInv'
  <1> SUFFICES ASSUME TypeInv, CommitInv, DuplicateInv, [Next]_vars, NEW r \in Records
               PROVE  AlertsPaid(r)'
    BY DEF DuplicateInv
  <1>1. AlertsPaid(r) /\ produced[r] \in Nat /\ faults \in Nat
    BY AgentAssumption DEF DuplicateInv, TypeInv, TypeOK
  <1>2. /\ r = <<r[1], r[2]>> /\ r # NoRecord /\ r[1] \in Partitions /\ r[2] \in Nat
        /\ committed[r[1]] \in Nat /\ position[r[1]] \in Nat
    BY RecordPair DEF CommitInv, TypeInv, TypeOK
  <1>3. cur # NoRecord => /\ cur \in Records /\ cur = <<cur[1], cur[2]>> /\ cur[1] \in Partitions
                          /\ cur[2] = committed[cur[1]] /\ cur[2] \in Nat /\ cur[1] \in assigned
                          /\ pc \notin {"down", "idle", "closing"}
    BY RecordPair DEF CommitInv, TypeInv, TypeOK, CurOK
  <1>4. CASE Quiet
    <2>1. ToRead(r)' <=> ToRead(r)
      BY <1>4 DEF Quiet, ToRead, loop
    <2>2. QED
      BY <1>1, <1>4, <2>1 DEF Quiet, AlertsPaid, AfterEmit
  <1>5. CASE \E D \in SUBSET Partitions : Rebalance(D)
    <2>1. PICK D \in SUBSET Partitions : Rebalance(D)
      BY <1>5
    <2>2. UNCHANGED <<committed, cur, pc, produced, faults>> /\ cur = NoRecord
      BY <2>1, <1>3 DEF Rebalance, kafka, effects
    <2>3. ToRead(r)' => committed[r[1]] <= r[2]
      BY <2>1, <1>2 DEF Rebalance, ToRead, ResumeAt, NoOffset
    <2>4. QED
      BY <1>1, <1>2, <1>3, <2>2, <2>3 DEF AlertsPaid, AfterEmit
  <1>6. CASE \E p \in Partitions : Poll(p)
    <2>1. PICK p \in Partitions : Poll(p)
      BY <1>6
    <2>2. /\ UNCHANGED <<committed, assigned, produced, faults>> /\ pc' = "decode"
          /\ cur = NoRecord /\ cur' = <<p, position[p]>> /\ p \in assigned
      BY <2>1 DEF Poll, kafka, effects, TypeInv, CurOK
    <2>3. position'[r[1]] = IF r[1] = p THEN position[p] + 1 ELSE position[r[1]]
      BY <2>1, <1>2 DEF Poll, TypeInv, TypeOK
    <2>4. ToRead(r)' => ToRead(r) /\ r # cur'
      BY <1>2, <2>2, <2>3 DEF ToRead
    <2>5. r = cur' => ToRead(r) /\ r # cur
      BY <1>2, <2>2 DEF ToRead
    <2>6. QED
      BY <1>1, <1>2, <2>2, <2>4, <2>5 DEF AlertsPaid, AfterEmit
  <1>7. CASE EmitAlert
    <2>1. cur \in Records /\ pc = "emit" /\ pc' = "reify" /\ UNCHANGED <<committed, loop, cur, faults>>
      BY <1>7 DEF EmitAlert, Edge, kafka, TypeInv, TypeOK, CurOK
    <2>2. produced'[r] = IF r = cur THEN produced[r] + 1 ELSE produced[r]
      BY <1>7, <2>1, IncrementedValue DEF EmitAlert, TypeInv, TypeOK
    <2>3. ToRead(r)' <=> ToRead(r)
      BY <2>1 DEF ToRead, loop
    <2>4. QED
      BY <1>1, <2>1, <2>2, <2>3 DEF AlertsPaid, AfterEmit
  <1>8. CASE Skip \/ Commit
    <2>1. /\ cur # NoRecord /\ pc \in {"skip", "commit"} /\ cur' = NoRecord
          /\ pc' \notin AfterEmit /\ UNCHANGED <<loop, produced, faults>>
          /\ committed' = [committed EXCEPT ![cur[1]] = cur[2] + 1]
      BY <1>8 DEF Skip, Commit, CommitCurrent, NextTurn, effects, AfterEmit, TypeInv, CurOK
    <2>2. committed'[r[1]] = IF r[1] = cur[1] THEN cur[2] + 1 ELSE committed[r[1]]
      BY <1>2, <2>1 DEF TypeInv, TypeOK
    <2>3. committed'[r[1]] <= r[2] => committed[r[1]] <= r[2] /\ r # cur
      BY <1>2, <1>3, <2>1, <2>2
    <2>4. ToRead(r)' <=> ToRead(r)
      BY <2>1 DEF ToRead, loop
    <2>5. r = cur => ~ToRead(r)
      BY <1>3, <2>1 DEF CommitInv, PositionInv, ToRead
    <2>6. QED
      BY <1>1, <1>2, <2>1, <2>3, <2>4, <2>5 DEF AlertsPaid, AfterEmit
  <1>9. CASE SeekBack
    <2>1. /\ cur # NoRecord /\ pc = "seek" /\ pc' = "sleep"
          /\ UNCHANGED <<committed, assigned, cur, produced, faults>>
      BY <1>9 DEF SeekBack, BackOff, kafka, effects, TypeInv, CurOK
    <2>2. position'[r[1]] = IF r[1] = cur[1] THEN cur[2] ELSE position[r[1]]
      BY <1>9, <1>2 DEF SeekBack, BackOff, TypeInv, TypeOK
    <2>3. r # cur /\ ToRead(r)' => ToRead(r) \/ committed[r[1]] <= r[2]
      BY <1>2, <1>3, <2>1, <2>2 DEF ToRead
    <2>4. QED
      BY <1>1, <2>1, <2>3 DEF AlertsPaid, AfterEmit
  <1>10. CASE Wake
    <2>1. /\ pc = "sleep" /\ cur' = NoRecord /\ pc' \notin AfterEmit
          /\ UNCHANGED <<committed, loop, produced, faults>>
      BY <1>10 DEF Wake, NextTurn, kafka, effects, AfterEmit
    <2>2. ToRead(r)' <=> ToRead(r)
      BY <2>1 DEF ToRead, loop
    <2>3. QED
      BY <1>1, <1>2, <2>1, <2>2 DEF AlertsPaid, AfterEmit
  <1>11. CASE Close \/ Crash \/ DecodeDies
    <2>1. /\ cur' = NoRecord /\ pc' = "down" /\ assigned' = {} /\ UNCHANGED <<committed, produced>>
          /\ faults' \in {faults, faults + 1} /\ (pc \in AfterEmit => faults' = faults + 1)
      BY <1>11 DEF Close, Crash, DecodeDies, Gone, kafka, AfterEmit
    <2>2. ~ToRead(r)'
      BY <2>1 DEF ToRead
    <2>3. QED
      BY <1>1, <1>2, <2>1, <2>2 DEF AlertsPaid, AfterEmit
  <1>12. QED
    BY <1>4, <1>5, <1>6, <1>7, <1>8, <1>9, <1>10, <1>11, DuplicateShapes

\* Every alert of a record but the first is paid for by a fault of its own.
THEOREM DuplicatesArePaidFor == Spec => []DuplicatesNeedFaults
  <1>1. CASE Established
    <2>1. Init => IndInv /\ DuplicateInv
      BY <1>1, TypeInit, OrderInit, CommitInit, DuplicateInit DEF IndInv
    <2>2. IndInv /\ DuplicateInv /\ [Next]_vars => (IndInv /\ DuplicateInv)'
      BY TypeNext, OrderNext, CommitNext, DuplicateNext DEF IndInv
    <2>3. DuplicateInv => DuplicatesNeedFaults
      BY DEF DuplicateInv, AlertsPaid, DuplicatesNeedFaults
    <2>4. QED
      BY <2>1, <2>2, <2>3, PTL DEF Spec
  <1>2. CASE ~Established
    <2>1. DuplicatesNeedFaults
      BY <1>2 DEF DuplicatesNeedFaults
    <2>2. QED
      BY <2>1, PTL
  <1>3. QED
    BY <1>1, <1>2

------------------------------------------------------------------------------
(* The agent implements AtLeastOnce.                                        *)

\* Past the parser, the record in hand is no poison.
KindInv == /\ pc \in Nodes => Kind # "bad_json"
           /\ pc \in (Nodes \ {"parse"}) \cup {"commit"} => Kind \notin Poison

LEMMA KindInit == Init => KindInv
  BY DEF Init, KindInv, Nodes

LEMMA KindNext == TypeInv /\ KindInv /\ [Next]_vars => KindInv'
  <1> SUFFICES ASSUME TypeInv, KindInv, [Next]_vars PROVE KindInv'
    OBVIOUS
  <1> USE DEF KindInv, Nodes
  <1>1. cur' = cur /\ pc \notin {"down", "idle", "closing"} => Kind' = Kind
    <2> SUFFICES ASSUME cur' = cur, pc \notin {"down", "idle", "closing"} PROVE Kind' = Kind
      OBVIOUS
    <2>1. cur \in Records /\ cur[2] < Len(log[cur[1]])
      BY DEF TypeInv, TypeOK, CurOK
    <2>2. KindAt(log', cur) = KindAt(log, cur)
      BY <2>1, SettledStable
    <2>3. QED
      BY <2>2 DEF Kind, KindAt
  <1>2. CASE pc' \notin Nodes \cup {"commit"}
    BY <1>2
  <1>3. ASSUME UNCHANGED <<pc, cur>> PROVE KindInv'
    BY <1>1, <1>3
  <1>4. CASE \/ Decode \/ ParsePatternMatch
    BY <1>4, <1>1 DEF Decode, ParsePatternMatch, Edge, Poison
  <1>5. CASE \/ RetrieveHistory \/ Reason \/ ValidateConfidence \/ EmitAlert
             \/ ReifyMemory \/ EmitTrainingRecord
    BY <1>5, <1>1 DEF RetrieveHistory, Reason, ValidateConfidence, EmitAlert, ReifyMemory,
       EmitTrainingRecord, Edge
  <1>6. CASE \/ DecodeFails \/ ParseRejects \/ ReasonNeverSucceeds \/ NodeFails \/ ReifyHalfFails
             \/ Skip \/ Commit \/ SeekBack \/ Wake \/ Start \/ Close \/ Crash \/ DecodeDies
             \/ \E p \in Partitions : Poll(p)
    BY <1>6, <1>2 DEF DecodeFails, ParseRejects, ReasonNeverSucceeds, NodeFails, ReifyHalfFails,
       Skip, Commit, NextTurn, SeekBack, BackOff, Wake, Start, Close, Crash, DecodeDies, Gone, Poll
  <1>7. CASE \/ \E p \in Partitions, k \in Kinds : Publish(p, k)
             \/ \E D \in SUBSET Partitions : Rebalance(D)
             \/ \E r \in Records : Acknowledge(r) \/ Expire(r)
             \/ Signal \/ UNCHANGED vars
    BY <1>7, <1>3 DEF Publish, Rebalance, Acknowledge, Expire, Signal, vars
  <1>8. QED
    BY <1>4, <1>5, <1>6, <1>7 DEF Next, Broker, Handle, Invoke, Fault

\* The refinement mapping's state functions, by name.
Processed == {r \in Records : training[r] > 0}
Refused   == {r \in Records : r[2] < committed[r[1]] /\ KindAt(log, r) \in Poison}

\* A step that leaves the offsets alone refuses nothing new.
LEMMA RefusedStable ==
    ASSUME TypeInv, CommitInv, [Next]_vars, UNCHANGED committed
    PROVE  Refused' = Refused
  <1>1. ASSUME NEW r \in Records
        PROVE  (r[2] < committed[r[1]] /\ KindAt(log', r) \in Poison)
                 <=> (r[2] < committed[r[1]] /\ KindAt(log, r) \in Poison)
    <2>1. CASE r[2] < committed[r[1]]
      <3>1. r[2] < Len(log[r[1]])
        BY <2>1, RecordPair DEF CommitInv, TypeInv, TypeOK, Logs
      <3>2. QED
        BY <3>1, SettledStable
    <2>2. CASE ~(r[2] < committed[r[1]])
      BY <2>2
    <2>3. QED
      BY <2>1, <2>2
  <1>2. QED
    BY <1>1 DEF Refused, KindAt

LEMMA RefinedInit == Established /\ Init => Abstract!Init
  <1> SUFFICES ASSUME Established, Init PROVE Abstract!Init
    OBVIOUS
  <1>1. Processed = {}
    BY DEF Init, Processed, None
  <1>2. Refused = {}
    <2>1. \A r \in Records : ~(r[2] < committed[r[1]])
      BY RecordPair DEF Init
    <2>2. QED
      BY <2>1 DEF Refused
  <1>3. QED
    BY <1>1, <1>2 DEF Init, Abstract!Init, Processed, Refused

\* Skip refuses the record in hand.
LEMMA RefinedSkip ==
    ASSUME IndInv, [Next]_vars, Skip
    PROVE  Abstract!Refuse(cur)
  <1> USE DEF IndInv
  <1>1. /\ cur \in Records /\ cur[1] \in Partitions /\ cur[2] \in Nat /\ cur # NoRecord
        /\ cur[2] < Len(log[cur[1]]) /\ cur = <<cur[1], cur[2]>>
    BY RecordPair, CurrentSettled DEF Skip, TypeInv, CurOK
  <1>2. cur[2] = committed[cur[1]]
    BY <1>1 DEF CommitInv
  <1>3. UNCHANGED <<log, training>> /\ committed' = [committed EXCEPT ![cur[1]] = cur[2] + 1]
    BY DEF Skip, CommitCurrent, effects
  <1>4. KindAt(log, cur) \in Poison
    BY DEF Skip, OrderInv, Kind
  <1>5. Abstract!Readable(cur)
    BY <1>1, <1>2 DEF Abstract!Readable
  <1>6. committed' = [committed EXCEPT ![cur[1]] = @ + 1]
    BY <1>2, <1>3
  <1>7. Refused' = Refused \cup {cur}
    <2>1. ASSUME NEW r \in Records
          PROVE  r[2] < committed'[r[1]] <=> (r[2] < committed[r[1]] \/ r = cur)
      <3>1. r = <<r[1], r[2]>> /\ r[1] \in Partitions /\ r[2] \in Nat
        BY RecordPair
      <3>2. CASE r[1] = cur[1]
        <4>1. committed'[r[1]] = cur[2] + 1
          BY <1>1, <1>3, <3>2 DEF TypeInv, TypeOK
        <4>2. r = cur <=> r[2] = cur[2]
          BY <1>1, <3>1, <3>2
        <4>3. QED
          BY <1>1, <1>2, <3>1, <3>2, <4>1, <4>2
      <3>3. CASE r[1] # cur[1]
        BY <1>1, <1>3, <3>1, <3>3 DEF TypeInv, TypeOK
      <3>4. QED
        BY <3>2, <3>3
    <2>2. QED
      BY <1>1, <1>3, <1>4, <2>1 DEF Refused
  <1>8. Processed' = Processed
    BY <1>3 DEF Processed
  <1>9. QED
    BY <1>3, <1>4, <1>5, <1>6, <1>7, <1>8 DEF Abstract!Refuse, Abstract!KindAt, KindAt, Processed, Refused

\* Commit settles the record in hand.
LEMMA RefinedCommit ==
    ASSUME IndInv, KindInv, [Next]_vars, Commit
    PROVE  Abstract!Settle(cur)
  <1> USE DEF IndInv
  <1>1. /\ cur \in Records /\ cur[1] \in Partitions /\ cur[2] \in Nat /\ cur # NoRecord
        /\ cur = <<cur[1], cur[2]>>
    BY RecordPair, CurrentSettled DEF Commit, TypeInv, CurOK
  <1>2. cur[2] = committed[cur[1]]
    BY <1>1 DEF CommitInv
  <1>3. UNCHANGED <<log, training>> /\ committed' = [committed EXCEPT ![cur[1]] = cur[2] + 1]
    BY DEF Commit, CommitCurrent, effects
  <1>4. KindAt(log, cur) \notin Poison /\ cur \in Processed
    BY <1>1 DEF Commit, KindInv, Kind, OrderInv, Processed
  <1>5. Refused' = Refused
    <2>1. ASSUME NEW r \in Records, r # cur
          PROVE  r[2] < committed'[r[1]] <=> r[2] < committed[r[1]]
      <3>1. r = <<r[1], r[2]>> /\ r[1] \in Partitions /\ r[2] \in Nat
        BY RecordPair
      <3>2. CASE r[1] = cur[1]
        <4>1. committed'[r[1]] = cur[2] + 1
          BY <1>1, <1>3, <3>2 DEF TypeInv, TypeOK
        <4>2. r[2] # cur[2]
          BY <1>1, <2>1, <3>1, <3>2
        <4>3. QED
          BY <1>1, <1>2, <3>1, <3>2, <4>1, <4>2
      <3>3. CASE r[1] # cur[1]
        BY <1>1, <1>3, <3>1, <3>3 DEF TypeInv, TypeOK
      <3>4. QED
        BY <3>2, <3>3
    <2>2. QED
      BY <1>1, <1>3, <1>4, <2>1 DEF Refused
  <1>6. Processed' = Processed
    BY <1>3 DEF Processed
  <1>7. committed' = [committed EXCEPT ![cur[1]] = @ + 1]
    BY <1>2, <1>3
  <1>8. QED
    BY <1>2, <1>3, <1>4, <1>5, <1>6, <1>7 DEF Abstract!Settle, Processed, Refused

LEMMA RefinedStep ==
    IndInv /\ KindInv /\ [Next]_vars => [Abstract!Next]_(Abstract!vars)
  <1> SUFFICES ASSUME IndInv, KindInv, [Next]_vars
               PROVE  Abstract!Next \/ UNCHANGED Abstract!vars
    OBVIOUS
  <1> USE DEF IndInv
  <1>1. ASSUME UNCHANGED <<log, committed, training>> PROVE UNCHANGED Abstract!vars
    <2>1. Refused' = Refused /\ Processed' = Processed
      BY <1>1, RefusedStable DEF Processed
    <2>2. QED
      BY <1>1, <2>1 DEF Abstract!vars, Processed, Refused
  <1>2. CASE \E p \in Partitions, k \in Kinds : Publish(p, k)
    <2>1. PICK p \in Partitions, k \in Kinds : Publish(p, k)
      BY <1>2
    <2>2. Refused' = Refused /\ Processed' = Processed
      BY <2>1, RefusedStable DEF Publish, effects, Processed
    <2>3. Abstract!Publish(p, k)
      BY <2>1, <2>2 DEF Publish, Abstract!Publish, Published, Abstract!Published, Processed, Refused
    <2>4. QED
      BY <2>3 DEF Abstract!Next
  <1>3. CASE Skip
    <2>1. cur \in Records
      BY <1>3, CurrentSettled DEF Skip
    <2>2. cur \in Abstract!Records
      BY <2>1 DEF Abstract!Records, Abstract!Offsets, Records, Offsets
    <2>3. Abstract!Refuse(cur)
      BY <1>3, RefinedSkip
    <2>4. PICK r \in Abstract!Records : r = cur
      BY <2>2
    <2>5. Abstract!Refuse(r)
      BY <2>3, <2>4 DEF Abstract!Refuse, Abstract!Readable, Processed, Refused
    <2>6. QED
      BY <2>5 DEF Abstract!Next
  <1>4. CASE Commit
    <2>1. cur \in Records
      BY <1>4, CurrentSettled DEF Commit
    <2>2. cur \in Abstract!Records
      BY <2>1 DEF Abstract!Records, Abstract!Offsets, Records, Offsets
    <2>3. Abstract!Settle(cur)
      BY <1>4, RefinedCommit
    <2>4. QED
      BY <2>2, <2>3 DEF Abstract!Next
  <1>5. CASE EmitTrainingRecord
    <2>1. /\ cur \in Records /\ cur # NoRecord /\ cur[2] < Len(log[cur[1]])
          /\ cur[1] \in Partitions /\ cur[2] \in Nat /\ cur = <<cur[1], cur[2]>>
      BY <1>5, RecordPair DEF EmitTrainingRecord, TypeInv, TypeOK, CurOK
    <2>2. Abstract!Readable(cur)
      <3>1. cur[2] = committed[cur[1]]
        BY <2>1 DEF CommitInv
      <3>2. QED
        BY <2>1, <3>1 DEF Abstract!Readable
    <2>3. UNCHANGED <<log, committed>> /\ Refused' = Refused
      BY <1>5, RefusedStable DEF EmitTrainingRecord, kafka
    <2>4. Processed' = Processed \cup {cur}
      <3>1. \A r \in Records : training'[r] = IF r = cur THEN training[r] + 1 ELSE training[r]
        BY <1>5, <2>1, IncrementedValue DEF EmitTrainingRecord, TypeInv, TypeOK
      <3>2. \A r \in Records : training[r] \in Nat
        BY DEF TypeInv, TypeOK
      <3>3. ASSUME NEW r \in Records PROVE training'[r] > 0 <=> training[r] > 0 \/ r = cur
        <4>1. CASE r = cur
          BY <3>1, <3>2, <4>1
        <4>2. CASE r # cur
          BY <3>1, <4>2
        <4>3. QED
          BY <4>1, <4>2
      <3>4. QED
        BY <2>1, <3>3 DEF Processed
    <2>5. Abstract!Process(cur)
      BY <2>2, <2>3, <2>4 DEF Abstract!Process, Processed, Refused
    <2>6. cur \in Abstract!Records
      BY <2>1 DEF Abstract!Records, Abstract!Offsets, Records, Offsets
    <2>7. PICK r \in Abstract!Records : r = cur
      BY <2>6
    <2>8. Abstract!Process(r)
      BY <2>5, <2>7 DEF Abstract!Process, Abstract!Readable, Processed, Refused
    <2>9. QED
      BY <2>8 DEF Abstract!Next
  <1>6. CASE UNCHANGED <<log, committed, training>>
    BY <1>1, <1>6
  <1>7. \/ \E p \in Partitions, k \in Kinds : Publish(p, k)
        \/ Skip \/ Commit \/ EmitTrainingRecord
        \/ UNCHANGED <<log, committed, training>>
    BY DEF Next, Broker, Handle, Invoke, Fault, Rebalance, Acknowledge, Expire, Start, Close, Crash,
       Signal, Gone, Poll, Decode, DecodeFails, DecodeDies, SeekBack, BackOff, Wake,
       ParsePatternMatch, ParseRejects, RetrieveHistory, Reason, ReasonNeverSucceeds,
       ValidateConfidence, EmitAlert, ReifyMemory, ReifyHalfFails, NodeFails,
       kafka, effects, alerts, vars
  <1>8. QED
    BY <1>2, <1>3, <1>4, <1>5, <1>6, <1>7

\* A group that has committed is an AtLeastOnce consumer: its initial state is
\* one, and each of its steps is a step of it or changes nothing it can see.
THEOREM AgentRefinesAtLeastOnce == Established => (Spec => ImplementsAtLeastOnce)
  <1> SUFFICES ASSUME Established PROVE Spec => ImplementsAtLeastOnce
    OBVIOUS
  <1>1. Init => IndInv /\ KindInv /\ Abstract!Init
    BY TypeInit, OrderInit, CommitInit, KindInit, RefinedInit DEF IndInv
  <1>2. IndInv /\ KindInv /\ [Next]_vars => (IndInv /\ KindInv)'
    BY TypeNext, OrderNext, CommitNext, KindNext DEF IndInv
  <1>3. QED
    BY <1>1, <1>2, RefinedStep, PTL DEF Spec, ImplementsAtLeastOnce, Abstract!Spec
==============================================================================
