----------------------- MODULE PatternIngesterProofs -----------------------
(***************************************************************************)
(* Theorems about PatternIngester, for any set of partitions, any length   *)
(* of the logs and any number of faults.  Unlike the agent's group, the    *)
(* ingester's needs no earlier commit: it starts at the earliest record.   *)
(***************************************************************************)
EXTENDS PatternIngester, SequenceTheorems, TLAPS

------------------------------------------------------------------------------
(* Types.                                                                   *)

\* A record is in hand exactly while it is being handled, it was published,
\* and it comes from a partition assigned to this process.
CurOK ==
    /\ (cur = NoRecord) <=> pc \in {"down", "idle", "closing"}
    /\ cur # NoRecord => /\ cur[2] < Len(log[cur[1]])
                         /\ cur[1] \in assigned

TypeInv == TypeOK /\ CurOK

LEMMA RecordPair ==
    \A r \in Records : /\ r = <<r[1], r[2]>> /\ r # NoRecord
                       /\ r[1] \in Partitions /\ r[2] \in Nat /\ r[2] < MaxLog
  <1> TAKE r \in Records
  <1>1. r = <<r[1], r[2]>> /\ r[1] \in Partitions /\ r[2] \in Offsets
    BY DEF Records
  <1>2. r # <<>>
    <2>1. \A a, b : <<a, b>> # <<>>
      OBVIOUS
    <2>2. QED
      BY <1>1, <2>1
  <1>3. QED
    BY <1>1, <1>2, LogAssumption DEF Offsets, NoRecord

LEMMA PairRecord ==
    \A p \in Partitions, o \in Nat : o < MaxLog => <<p, o>> \in Records
  BY LogAssumption DEF Records, Offsets

\* What another episode of record r does to the counts.
LEMMA OneMore ==
    ASSUME TypeOK, NEW r \in Records, occurrences' = [occurrences EXCEPT ![r] = @ + 1]
    PROVE  /\ occurrences' \in [Records -> Nat]
           /\ \A q \in Records : occurrences'[q] = IF q = r THEN occurrences[q] + 1
                                                            ELSE occurrences[q]
  BY DEF TypeOK

LEMMA TypeInit == Init => TypeInv
  <1> SUFFICES ASSUME Init PROVE TypeInv
    OBVIOUS
  <1> USE LogAssumption, IngesterAssumption DEF Init
  <1>1. log \in Logs /\ \A p \in Partitions : Len(log[p]) <= MaxLog
    BY DEF Logs
  <1>2. committed \in [Partitions -> Nat \cup {NoOffset}]
    OBVIOUS
  <1>3. assigned \in SUBSET Partitions /\ position \in [Partitions -> Nat]
    OBVIOUS
  <1>4. pc \in Stages /\ CurOK
    BY DEF Stages, CurOK
  <1>5. occurrences \in [Records -> Nat] /\ skipped \subseteq Records /\ faults \in 0 .. MaxFaults
    OBVIOUS
  <1>6. QED
    BY <1>1, <1>2, <1>3, <1>4, <1>5 DEF TypeInv, TypeOK

\* However the process ends, what it leaves behind is well typed.
LEMMA GoneType ==
    ASSUME TypeInv, Gone, faults' \in 0 .. MaxFaults
    PROVE  TypeInv'
  <1> USE DEF TypeInv, TypeOK, Gone, kafka
  <1>1. CurOK'
    BY DEF CurOK
  <1>2. QED
    BY <1>1 DEF Stages

\* A stage of _handle_message that does nothing but choose the next one.
LEMMA GotoType ==
    ASSUME TypeInv, NEW stage \in Stages \ {"down", "idle", "closing"}, Goto(stage),
           pc \notin {"down", "idle", "closing"}, faults' \in 0 .. MaxFaults
    PROVE  TypeInv'
  <1> USE DEF TypeInv, TypeOK, Goto, kafka, loop
  <1>1. CurOK'
    BY DEF CurOK
  <1>2. QED
    BY <1>1

LEMMA TypeNext == TypeInv /\ [Next]_vars => TypeInv'
  <1> SUFFICES ASSUME TypeInv, [Next]_vars PROVE TypeInv'
    OBVIOUS
  <1> USE LogAssumption, IngesterAssumption DEF TypeInv, TypeOK, CurOK
  <1>1. ASSUME NEW p \in Partitions, NEW k \in Kinds, Publish(p, k) PROVE TypeInv'
    <2>1. log' \in Logs /\ Len(log'[p]) = Len(log[p]) + 1
          /\ \A q \in Partitions : q # p => log'[q] = log[q]
      BY <1>1 DEF Publish, Published, Logs
    <2>2. ASSUME NEW q \in Partitions
          PROVE  Len(log[q]) <= Len(log'[q]) /\ Len(log'[q]) <= MaxLog
      <3>1. Len(log[q]) \in Nat /\ Len(log[q]) <= MaxLog
        BY DEF Logs
      <3>2. CASE q = p
        BY <1>1, <2>1, <3>1, <3>2 DEF Publish
      <3>3. CASE q # p
        BY <2>1, <3>1, <3>3
      <3>4. QED
        BY <3>2, <3>3
    <2>3. CurOK'
      BY <1>1, <2>2, RecordPair DEF Publish, loop, Logs
    <2>4. TypeOK'
      BY <1>1, <2>1, <2>2 DEF Publish, loop
    <2>5. QED
      BY <2>3, <2>4
  <1>2. ASSUME NEW D \in SUBSET Partitions, Rebalance(D) PROVE TypeInv'
    <2>1. \A p \in Partitions : ResumeAt(log, committed, p, AutoOffsetReset) \in Nat
      BY DEF ResumeAt, NoOffset, Logs
    <2>2. position' \in [Partitions -> Nat] /\ assigned' \in SUBSET Partitions
          /\ assigned \subseteq assigned'
      BY <1>2, <2>1 DEF Rebalance
    <2>3. UNCHANGED <<kafka, pc, cur, stop, occurrences, skipped, faults>>
      BY <1>2 DEF Rebalance
    <2>4. CurOK'
      BY <2>2, <2>3 DEF kafka
    <2>5. QED
      BY <2>2, <2>3, <2>4 DEF kafka
  <1>3. ASSUME Start PROVE TypeInv'
    BY <1>3 DEF Start, kafka, loop, Stages
  <1>4. ASSUME Close \/ DecodeDies \/ Crash PROVE TypeInv'
    <2>1. Gone /\ faults' \in 0 .. MaxFaults
      BY <1>4 DEF Close, DecodeDies, Crash
    <2>2. QED
      BY <2>1, GoneType
  <1>5. ASSUME NEW p \in Partitions, Poll(p) PROVE TypeInv'
    <2>1. cur' \in Records /\ cur'[1] = p /\ cur'[2] = position[p] /\ Len(log[p]) \in Nat
      BY <1>5, PairRecord DEF Poll, Logs
    <2>2. CurOK'
      BY <1>5, <2>1, RecordPair DEF Poll, kafka
    <2>3. TypeOK'
      BY <1>5, <2>1 DEF Poll, kafka, Stages
    <2>4. QED
      BY <2>2, <2>3
  <1>6. ASSUME Signal PROVE TypeInv'
    BY <1>6 DEF Signal, kafka, loop
  <1>7. ASSUME Decode \/ FormatEpisode \/ AddEpisodeValueError PROVE TypeInv'
    <2>1. faults' \in 0 .. MaxFaults /\ pc \notin {"down", "idle", "closing"}
      BY <1>7 DEF Decode, FormatEpisode, Format, AddEpisodeValueError
    <2>2. \E stage \in {"skip", "format", "seek", "write"} : Goto(stage)
      BY <1>7 DEF Decode, FormatEpisode, Format, AddEpisodeValueError
    <2>3. QED
      BY <2>1, <2>2, GotoType DEF Stages
  <1>8. ASSUME AddEpisode \/ AddEpisodeFails PROVE TypeInv'
    <2>1. /\ pc = "write" /\ pc' \in {"commit", "seek"} /\ cur \in Records
          /\ UNCHANGED <<kafka, loop, cur, stop, skipped>> /\ faults' \in 0 .. MaxFaults
      BY <1>8 DEF AddEpisode, AddEpisodeFails
    <2>2. occurrences' \in [Records -> Nat]
      BY <1>8, <2>1, OneMore DEF AddEpisode, AddEpisodeFails
    <2>3. QED
      BY <2>1, <2>2 DEF kafka, loop, Stages
  <1>9. ASSUME Skip \/ Commit PROVE TypeInv'
    <2>1. /\ cur \in Records /\ NextTurn /\ skipped' \in {skipped, skipped \cup {cur}}
          /\ committed' = [committed EXCEPT ![cur[1]] = cur[2] + 1]
          /\ UNCHANGED <<log, loop, stop, occurrences, faults>>
      BY <1>9 DEF Skip, Commit
    <2>2. committed' \in [Partitions -> Nat \cup {NoOffset}] /\ skipped' \subseteq Records
      BY <2>1, RecordPair
    <2>3. QED
      BY <2>1, <2>2 DEF NextTurn, loop, Stages
  <1>10. ASSUME SeekBack PROVE TypeInv'
    BY <1>10, RecordPair DEF SeekBack, SeekTo, kafka, Stages
  <1>11. ASSUME Wake PROVE TypeInv'
    BY <1>11 DEF Wake, NextTurn, kafka, loop, Stages
  <1>12. CASE UNCHANGED vars
    BY <1>12 DEF vars
  <1>13. QED
    BY <1>1, <1>2, <1>3, <1>4, <1>5, <1>6, <1>7, <1>8, <1>9, <1>10, <1>11, <1>12
    DEF Next, Handle, Fault

\* Type correctness of the ingester, whatever fails and is retried.
THEOREM IngesterTypeCorrect == Spec => []TypeOK
  <1>1. TypeInv => TypeOK
    BY DEF TypeInv
  <1>2. QED
    BY TypeInit, TypeNext, <1>1, PTL DEF Spec
------------------------------------------------------------------------------
(* What a stage of the handler knows of the record in hand.                 *)

\* The kinds of record that may be skipped.
MayRefuse == IF GraphitiValueErrors THEN Poison \cup {"ok"} ELSE Poison

StageInv ==
    /\ pc = "format" => Kind \notin {"bad_json", "undecodable"}
    /\ pc \in {"write", "commit"} => Kind = "ok"
    /\ pc = "commit" => occurrences[cur] > 0
    /\ pc = "skip" => Kind \in MayRefuse

\* Only published records of such a kind were ever skipped.
SkippedInv == \A r \in skipped : r[2] < Len(log[r[1]]) /\ KindAt(log, r) \in MayRefuse

\* A step within a message, or outside of any, that moves no offset.
Work == /\ UNCHANGED <<kafka, loop, cur, skipped>>
        /\ pc' = "sleep" <=> pc = "sleep"
        /\ \A r \in Records : occurrences[r] <= occurrences'[r]

LEMMA StepShapes ==
    ASSUME TypeInv, [Next]_vars
    PROVE  \/ \E p \in Partitions, k \in Kinds : Publish(p, k)
           \/ \E D \in SUBSET Partitions : Rebalance(D)
           \/ \E p \in Partitions : Poll(p)
           \/ Skip \/ Commit \/ SeekBack \/ Wake
           \/ Gone \/ Work
  <1> USE DEF TypeInv, TypeOK
  <1>1. \A r \in Records : occurrences[r] \in Nat
    OBVIOUS
  <1>2. CASE Start \/ Signal \/ Decode \/ FormatEpisode \/ AddEpisodeValueError \/ UNCHANGED vars
    <2>1. UNCHANGED <<kafka, loop, cur, occurrences, skipped>> /\ (pc' = "sleep" <=> pc = "sleep")
      BY <1>2 DEF Start, Signal, Decode, FormatEpisode, Format, Goto, AddEpisodeValueError,
         vars, kafka, loop
    <2>2. QED
      BY <1>1, <2>1 DEF Work
  <1>3. CASE AddEpisode \/ AddEpisodeFails
    <2>1. UNCHANGED <<kafka, loop, cur, skipped>> /\ pc = "write" /\ pc' # "sleep" /\ cur \in Records
          /\ (occurrences' = occurrences \/ occurrences' = [occurrences EXCEPT ![cur] = @ + 1])
      BY <1>3 DEF AddEpisode, AddEpisodeFails, CurOK
    <2>2. ASSUME NEW r \in Records PROVE occurrences[r] <= occurrences'[r]
      <3>1. occurrences'[r] \in {occurrences[r], occurrences[r] + 1}
        BY <2>1, OneMore
      <3>2. QED
        BY <1>1, <3>1
    <2>3. QED
      BY <2>1, <2>2 DEF Work
  <1>4. CASE Close \/ Crash \/ DecodeDies
    BY <1>4 DEF Close, Crash, DecodeDies
  <1>5. QED
    BY <1>2, <1>3, <1>4 DEF Next, Handle, Fault

\* Counts never go down, the log only grows, a published record keeps its
\* kind, and a skipped one stays skipped.
LEMMA StableStep ==
    ASSUME TypeInv, [Next]_vars
    PROVE  /\ \A p \in Partitions : Len(log[p]) <= Len(log'[p])
           /\ \A r \in Records : occurrences[r] <= occurrences'[r]
           /\ skipped \subseteq skipped'
           /\ \A r \in Records : r[2] < Len(log[r[1]]) => KindAt(log', r) = KindAt(log, r)
  <1> USE DEF TypeInv, TypeOK
  <1>1. /\ \A p \in Partitions : Len(log[p]) \in Nat /\ log[p] \in Seq(Kinds)
        /\ \A r \in Records : occurrences[r] \in Nat
    BY DEF Logs
  <1>2. ASSUME UNCHANGED log PROVE /\ \A p \in Partitions : Len(log[p]) <= Len(log'[p])
                                   /\ \A r \in Records : KindAt(log', r) = KindAt(log, r)
    BY <1>1, <1>2
  <1>3. CASE \E p \in Partitions, k \in Kinds : Publish(p, k)
    <2>1. PICK p \in Partitions, k \in Kinds : Publish(p, k)
      BY <1>3
    <2>2. ASSUME NEW q \in Partitions
          PROVE  /\ Len(log[q]) <= Len(log'[q])
                 /\ \A i \in 1 .. Len(log[q]) : log'[q][i] = log[q][i]
      <3>1. log'[q] = IF q = p THEN Append(log[q], k) ELSE log[q]
        BY <2>1 DEF Publish, Published, Logs
      <3>2. CASE q = p
        <4>1. /\ Len(Append(log[q], k)) = Len(log[q]) + 1
              /\ \A i \in 1 .. Len(log[q]) : Append(log[q], k)[i] = log[q][i]
          BY <1>1, AppendProperties
        <4>2. QED
          BY <1>1, <3>1, <3>2, <4>1
      <3>3. CASE q # p
        BY <1>1, <3>1, <3>3
      <3>4. QED
        BY <3>2, <3>3
    <2>3. ASSUME NEW r \in Records, r[2] < Len(log[r[1]])
          PROVE  KindAt(log', r) = KindAt(log, r)
      <3>1. r[1] \in Partitions /\ r[2] + 1 \in 1 .. Len(log[r[1]])
        BY <1>1, <2>3, RecordPair
      <3>2. QED
        BY <2>2, <3>1 DEF KindAt
    <2>4. QED
      BY <1>1, <2>1, <2>2, <2>3 DEF Publish
  <1>4. CASE \/ \E D \in SUBSET Partitions : Rebalance(D)
             \/ \E p \in Partitions : Poll(p)
             \/ Skip \/ Commit \/ SeekBack \/ Wake \/ Gone
    <2>1. UNCHANGED <<log, occurrences>> /\ skipped \subseteq skipped'
      BY <1>4 DEF Rebalance, Poll, Skip, Commit, SeekBack, SeekTo, Wake, Gone, kafka
    <2>2. QED
      BY <1>1, <1>2, <2>1
  <1>5. CASE Work
    BY <1>2, <1>5 DEF Work, kafka
  <1>6. QED
    BY <1>3, <1>4, <1>5, StepShapes

\* The record in hand keeps its kind while it is in hand.
LEMMA KindKept ==
    ASSUME TypeInv, [Next]_vars, cur' = cur, cur # NoRecord
    PROVE  Kind' = Kind /\ Kind \in AllKinds
  <1>1. cur \in Records /\ cur[2] < Len(log[cur[1]])
    BY DEF TypeInv, TypeOK, CurOK
  <1>2. KindAt(log', cur) = KindAt(log, cur)
    BY <1>1, StableStep
  <1>3. KindAt(log, cur) \in AllKinds
    <2>1. cur[1] \in Partitions /\ log[cur[1]] \in Seq(Kinds)
      BY <1>1, RecordPair DEF TypeInv, TypeOK, Logs
    <2>2. cur[2] + 1 \in 1 .. Len(log[cur[1]])
      BY <1>1, <2>1, RecordPair
    <2>3. QED
      BY <2>1, <2>2, ElementOfSeq, LogAssumption DEF KindAt
  <1>4. QED
    BY <1>2, <1>3 DEF Kind, KindAt

LEMMA StageInit == Init => StageInv /\ SkippedInv
  BY DEF Init, StageInv, SkippedInv

LEMMA StageNext == TypeInv /\ StageInv /\ [Next]_vars => StageInv'
  <1> SUFFICES ASSUME TypeInv, StageInv, [Next]_vars PROVE StageInv'
    OBVIOUS
  <1> USE DEF StageInv
  <1>1. CASE pc' \notin {"format", "write", "commit", "skip"}
    BY <1>1
  <1>2. cur' = cur /\ pc \notin {"down", "idle", "closing"} => Kind' = Kind /\ Kind \in AllKinds
    BY KindKept DEF TypeInv, CurOK
  <1>3. CASE Decode \/ FormatEpisode \/ AddEpisodeValueError
    BY <1>2, <1>3 DEF Decode, FormatEpisode, Format, AddEpisodeValueError, Goto, MayRefuse, Poison, AllKinds
  <1>4. CASE AddEpisode
    <2>1. cur \in Records /\ pc = "write" /\ cur' = cur /\ pc' = "commit"
      BY <1>4 DEF AddEpisode, TypeInv, TypeOK, CurOK
    <2>2. occurrences'[cur] > 0
      <3>1. occurrences[cur] \in Nat /\ occurrences'[cur] = occurrences[cur] + 1
        BY <1>4, <2>1, OneMore DEF AddEpisode, TypeInv, TypeOK
      <3>2. QED
        BY <3>1
    <2>3. QED
      BY <1>2, <2>1, <2>2
  <1>5. CASE \/ \E p \in Partitions, k \in Kinds : Publish(p, k)
             \/ \E D \in SUBSET Partitions : Rebalance(D)
             \/ Signal \/ UNCHANGED vars
    <2>1. UNCHANGED <<pc, cur, occurrences>>
      BY <1>5 DEF Publish, Rebalance, Signal, vars
    <2>2. QED
      BY <1>2, <2>1
  <1>6. CASE \/ Start \/ Close \/ DecodeDies \/ Crash \/ AddEpisodeFails
             \/ Skip \/ Commit \/ SeekBack \/ Wake \/ \E p \in Partitions : Poll(p)
    BY <1>1, <1>6 DEF Start, Close, DecodeDies, Crash, Gone, AddEpisodeFails, Skip, Commit, NextTurn,
       SeekBack, SeekTo, Wake, Poll
  <1>7. QED
    BY <1>3, <1>4, <1>5, <1>6 DEF Next, Handle, Fault

LEMMA SkippedNext == TypeInv /\ StageInv /\ SkippedInv /\ [Next]_vars => SkippedInv'
  <1> SUFFICES ASSUME TypeInv, StageInv, SkippedInv, [Next]_vars, NEW r \in skipped'
               PROVE  r[2] < Len(log'[r[1]]) /\ KindAt(log', r) \in MayRefuse
    BY DEF SkippedInv, KindAt
  <1>1. ASSUME r \in Records, r[2] < Len(log[r[1]]), KindAt(log, r) \in MayRefuse
        PROVE  r[2] < Len(log'[r[1]]) /\ KindAt(log', r) \in MayRefuse
    <2>1. r[1] \in Partitions /\ r[2] \in Nat
      BY <1>1, RecordPair
    <2>2. Len(log[r[1]]) \in Nat /\ Len(log'[r[1]]) \in Nat /\ Len(log[r[1]]) <= Len(log'[r[1]])
      BY <2>1, StableStep, TypeNext DEF TypeInv, TypeOK, Logs
    <2>3. QED
      BY <1>1, <2>1, <2>2, StableStep
  <1>2. CASE r \in skipped
    BY <1>1, <1>2 DEF SkippedInv, TypeInv, TypeOK
  <1>3. CASE r \notin skipped
    <2>1. pc = "skip" /\ r = cur
      BY <1>3, StepShapes DEF Publish, Rebalance, Poll, Skip, Commit, SeekBack, SeekTo, Wake, Gone, Work
    <2>2. cur \in Records /\ cur[2] < Len(log[cur[1]]) /\ Kind \in MayRefuse
      BY <2>1 DEF TypeInv, TypeOK, CurOK, StageInv
    <2>3. QED
      BY <1>1, <2>1, <2>2 DEF Kind
  <1>4. QED
    BY <1>2, <1>3

------------------------------------------------------------------------------
(* At-least-once.                                                           *)

SettledRecord(r) == occurrences[r] > 0 \/ r \in skipped

\* Where the consumer reads next: at the committed offset; right after the
\* record there while that is in hand, until the seek back.
PositionInv ==
    \A p \in assigned :
       position[p] = IF cur # NoRecord /\ cur[1] = p /\ pc # "sleep" THEN Done(p) + 1 ELSE Done(p)

DoneOK == \A p \in Partitions : Done(p) \in Nat /\ Done(p) <= Len(log[p])

HandOK == cur # NoRecord => cur[2] = Done(cur[1])

AllSettled == \A p \in Partitions : \A o \in 0 .. Done(p) - 1 : SettledRecord(<<p, o>>)

CommitInv == DoneOK /\ HandOK /\ PositionInv /\ AllSettled

LEMMA CommitInit == Init => CommitInv
  BY DEF Init, CommitInv, DoneOK, HandOK, PositionInv, AllSettled, Done, NoOffset

\* A settled record stays settled.
LEMMA SettledKept ==
    ASSUME TypeInv, [Next]_vars, NEW r \in Records, SettledRecord(r)
    PROVE  SettledRecord(r)'
  <1>1. occurrences[r] \in Nat /\ occurrences'[r] \in Nat /\ occurrences[r] <= occurrences'[r]
    BY StableStep, TypeNext DEF TypeInv, TypeOK
  <1>2. skipped \subseteq skipped'
    BY StableStep
  <1>3. QED
    BY <1>1, <1>2 DEF SettledRecord

\* Every record behind an offset that did not move is still settled.
LEMMA OffsetsStill ==
    ASSUME TypeInv, CommitInv, [Next]_vars, UNCHANGED committed
    PROVE  DoneOK' /\ AllSettled'
  <1>1. \A p \in Partitions : Len(log[p]) \in Nat /\ Len(log[p]) <= MaxLog /\ Len(log'[p]) \in Nat
    BY TypeNext DEF TypeInv, TypeOK, Logs
  <1>2. \A p \in Partitions : /\ Done(p)' = Done(p) /\ Done(p) \in Nat /\ Done(p) <= Len(log[p])
                              /\ Len(log[p]) <= Len(log'[p])
    BY StableStep DEF CommitInv, DoneOK, Done
  <1>3. ASSUME NEW p \in Partitions, NEW o \in 0 .. Done(p) - 1
        PROVE  SettledRecord(<<p, o>>)'
    <2>1. o \in Nat /\ o < MaxLog
      BY <1>1, <1>2, LogAssumption
    <2>2. <<p, o>> \in Records /\ SettledRecord(<<p, o>>)
      BY <2>1, PairRecord DEF CommitInv, AllSettled
    <2>3. QED
      BY <2>2, SettledKept
  <1>4. AllSettled'
    BY <1>2, <1>3 DEF AllSettled
  <1>5. DoneOK'
    BY <1>1, <1>2 DEF DoneOK
  <1>6. QED
    BY <1>4, <1>5

\* What Skip and Commit do to the offsets, and what is known of their record.
LEMMA CommitFacts ==
    ASSUME TypeInv, StageInv, CommitInv, Skip \/ Commit
    PROVE  /\ cur \in Records /\ cur = <<cur[1], cur[2]>> /\ cur # NoRecord
           /\ cur[1] \in Partitions /\ cur[2] \in Nat /\ cur[2] < Len(log[cur[1]])
           /\ cur[2] = Done(cur[1])
           /\ \A p \in Partitions : Done(p)' = IF p = cur[1] THEN Done(p) + 1 ELSE Done(p)
  <1>1. /\ cur \in Records /\ cur # NoRecord /\ cur[2] < Len(log[cur[1]])
        /\ committed' = [committed EXCEPT ![cur[1]] = cur[2] + 1]
    BY RecordPair DEF Skip, Commit, TypeInv, TypeOK, CurOK
  <1>2. cur = <<cur[1], cur[2]>> /\ cur[1] \in Partitions /\ cur[2] \in Nat
    BY <1>1, RecordPair
  <1>3. cur[2] = Done(cur[1])
    BY <1>1 DEF CommitInv, HandOK
  <1>4. ASSUME NEW p \in Partitions
        PROVE  Done(p)' = IF p = cur[1] THEN Done(p) + 1 ELSE Done(p)
    <2>1. committed'[p] = IF p = cur[1] THEN cur[2] + 1 ELSE committed[p]
      BY <1>1, <1>2 DEF TypeInv, TypeOK
    <2>2. QED
      BY <1>2, <1>3, <2>1 DEF Done, NoOffset
  <1>5. QED
    BY <1>1, <1>2, <1>3, <1>4

\* Skipping reports the record in hand, committing found its episode written.
LEMMA CurrentSettled ==
    ASSUME TypeInv, StageInv, CommitInv, Skip \/ Commit, NEW r \in Records, r = cur
    PROVE  SettledRecord(r)'
  BY DEF Skip, Commit, StageInv, SettledRecord

LEMMA CommitStep ==
    ASSUME TypeInv, StageInv, CommitInv, [Next]_vars, Skip \/ Commit
    PROVE  CommitInv'
  <1>1. \A p \in Partitions : /\ Len(log[p]) \in Nat /\ Len(log[p]) <= MaxLog
                              /\ Done(p) \in Nat /\ Done(p) <= Len(log[p])
    BY DEF TypeInv, TypeOK, Logs, CommitInv, DoneOK
  <1>2. UNCHANGED <<log, assigned, position>> /\ cur' = NoRecord
    BY DEF Skip, Commit, NextTurn, loop
  <1>3. DoneOK'
    BY <1>1, <1>2, CommitFacts DEF DoneOK
  <1>4. HandOK'
    BY <1>2 DEF HandOK
  <1>5. PositionInv'
    <2> SUFFICES ASSUME NEW p \in assigned
                 PROVE  position[p] = Done(p)'
      BY <1>2 DEF PositionInv
    <2>1. p \in Partitions /\ pc # "sleep"
      BY DEF TypeInv, TypeOK, Skip, Commit
    <2>2. CASE p = cur[1]
      BY <2>1, <2>2, CommitFacts DEF CommitInv, PositionInv
    <2>3. CASE p # cur[1]
      BY <2>1, <2>3, CommitFacts DEF CommitInv, PositionInv
    <2>4. QED
      BY <2>2, <2>3
  <1>6. ASSUME NEW p \in Partitions, NEW o \in 0 .. Done(p)' - 1
        PROVE  SettledRecord(<<p, o>>)'
    <2>1. o \in Nat /\ o < Done(p)' /\ Done(p)' \in Nat /\ Done(p)' <= Len(log[p])
      BY <1>2, <1>3 DEF DoneOK
    <2>2. <<p, o>> \in Records
      BY <1>1, <2>1, PairRecord, LogAssumption
    <2>3. CASE o < Done(p)
      <3>1. SettledRecord(<<p, o>>)
        BY <1>1, <2>1, <2>3 DEF CommitInv, AllSettled
      <3>2. QED
        BY <2>2, <3>1, SettledKept
    <2>4. CASE ~(o < Done(p))
      <3>1. p = cur[1] /\ o = cur[2]
        BY <1>1, <2>1, <2>4, CommitFacts
      <3>2. <<p, o>> = cur
        BY <3>1, CommitFacts
      <3>3. QED
        BY <2>2, <3>2, CurrentSettled
    <2>5. QED
      BY <2>3, <2>4
  <1>7. QED
    BY <1>3, <1>4, <1>5, <1>6 DEF CommitInv, AllSettled

LEMMA CommitNext == TypeInv /\ StageInv /\ CommitInv /\ [Next]_vars => CommitInv'
  <1> SUFFICES ASSUME TypeInv, StageInv, CommitInv, [Next]_vars PROVE CommitInv'
    OBVIOUS
  <1>1. CASE Skip \/ Commit
    BY <1>1, CommitStep
  <1>2. UNCHANGED committed => DoneOK' /\ AllSettled' /\ \A p \in Partitions : Done(p)' = Done(p)
    BY OffsetsStill DEF Done
  <1>3. ASSUME UNCHANGED committed, HandOK', PositionInv' PROVE CommitInv'
    BY <1>2, <1>3 DEF CommitInv
  <1>4. \A p \in Partitions : Done(p) \in Nat
    BY DEF CommitInv, DoneOK
  <1>5. ASSUME UNCHANGED <<committed, cur>>, cur # NoRecord => cur[1] \in Partitions PROVE HandOK'
    BY <1>2, <1>5 DEF HandOK, CommitInv
  <1>6. cur # NoRecord => cur \in Records /\ cur[1] \in Partitions /\ cur[2] \in Nat
    BY RecordPair DEF TypeInv, TypeOK
  <1>7. CASE \/ Work \/ \E p \in Partitions, k \in Kinds : Publish(p, k)
    <2>1. UNCHANGED <<committed, cur, assigned, position>> /\ (pc' = "sleep" <=> pc = "sleep")
      BY <1>7 DEF Work, Publish, kafka, loop
    <2>2. PositionInv'
      <3> SUFFICES ASSUME NEW p \in assigned
                   PROVE  position[p] = IF cur # NoRecord /\ cur[1] = p /\ pc # "sleep"
                                          THEN Done(p) + 1 ELSE Done(p)
        BY <1>2, <2>1 DEF PositionInv, TypeInv, TypeOK
      <3>1. QED
        BY <2>1 DEF CommitInv, PositionInv
    <2>3. QED
      BY <1>3, <1>5, <1>6, <2>1, <2>2
  <1>8. CASE \E D \in SUBSET Partitions : Rebalance(D)
    <2>1. PICK D \in SUBSET Partitions : Rebalance(D)
      BY <1>8
    <2>2. UNCHANGED <<committed, pc, cur>> /\ assigned' \subseteq Partitions /\ cur = NoRecord
      BY <2>1 DEF Rebalance, kafka, TypeInv, TypeOK, CurOK
    <2>3. ASSUME NEW p \in assigned' PROVE position'[p] = Done(p)'
      <3>1. p \in Partitions /\ position'[p] = ResumeAt(log, committed, p, AutoOffsetReset)
        BY <2>1, <2>2 DEF Rebalance
      <3>2. QED
        BY <1>2, <2>2, <3>1 DEF ResumeAt, AutoOffsetReset, Done
    <2>4. PositionInv'
      BY <2>2, <2>3 DEF PositionInv
    <2>5. QED
      BY <1>3, <1>5, <1>6, <2>2, <2>4
  <1>9. CASE \E p \in Partitions : Poll(p)
    <2>1. PICK p \in Partitions : Poll(p)
      BY <1>9
    <2>2. /\ UNCHANGED <<committed, assigned>> /\ p \in assigned /\ assigned \subseteq Partitions
          /\ cur = NoRecord /\ cur' = <<p, position[p]>> /\ cur' # NoRecord /\ pc' = "decode"
          /\ cur'[1] = p /\ cur'[2] = position[p] /\ position[p] \in Nat
      BY <2>1, RecordPair, TypeNext DEF Poll, kafka, TypeInv, TypeOK, CurOK
    <2>3. \A q \in Partitions : position'[q] = IF q = p THEN position[p] + 1 ELSE position[q]
      BY <2>1 DEF Poll, TypeInv, TypeOK
    <2>4. \A q \in assigned : position[q] = Done(q)
      BY <2>2 DEF CommitInv, PositionInv
    <2>5. HandOK'
      BY <1>2, <2>2, <2>4 DEF HandOK
    <2>6. PositionInv'
      <3> SUFFICES ASSUME NEW q \in assigned
                   PROVE  position'[q] = IF q = p THEN Done(q) + 1 ELSE Done(q)
        BY <1>2, <2>2 DEF PositionInv
      <3>1. QED
        BY <2>2, <2>3, <2>4
    <2>7. QED
      BY <1>3, <2>2, <2>5, <2>6
  <1>10. CASE SeekBack
    <2>1. /\ UNCHANGED <<committed, assigned, cur>> /\ cur # NoRecord /\ assigned \subseteq Partitions
          /\ pc' = "sleep"
      BY <1>10, RecordPair DEF SeekBack, SeekTo, kafka, TypeInv, TypeOK, CurOK
    <2>2. \A q \in Partitions : position'[q] = IF q = cur[1] THEN cur[2] ELSE position[q]
      BY <1>10 DEF SeekBack, SeekTo, TypeInv, TypeOK
    <2>3. PositionInv'
      <3> SUFFICES ASSUME NEW q \in assigned
                   PROVE  position'[q] = Done(q)
        BY <1>2, <2>1 DEF PositionInv
      <3>1. QED
        BY <2>1, <2>2 DEF CommitInv, PositionInv, HandOK
    <2>4. QED
      BY <1>3, <1>5, <1>6, <2>1, <2>3
  <1>11. CASE Wake
    <2>1. UNCHANGED <<committed, assigned, position>> /\ cur' = NoRecord /\ pc = "sleep"
          /\ cur # NoRecord /\ assigned \subseteq Partitions
      BY <1>11 DEF Wake, NextTurn, kafka, loop, TypeInv, TypeOK, CurOK
    <2>2. PositionInv'
      <3> SUFFICES ASSUME NEW q \in assigned PROVE position[q] = Done(q)
        BY <1>2, <2>1 DEF PositionInv
      <3>1. QED
        BY <2>1 DEF CommitInv, PositionInv
    <2>3. HandOK'
      BY <2>1 DEF HandOK
    <2>4. QED
      BY <1>3, <2>1, <2>2, <2>3
  <1>12. CASE Gone
    <2>1. UNCHANGED committed /\ assigned' = {} /\ cur' = NoRecord
      BY <1>12 DEF Gone, kafka
    <2>2. PositionInv' /\ HandOK'
      BY <2>1 DEF PositionInv, HandOK
    <2>3. QED
      BY <1>3, <2>1, <2>2
  <1>13. QED
    BY <1>1, <1>7, <1>8, <1>9, <1>10, <1>11, <1>12, StepShapes

IndInv == TypeInv /\ StageInv /\ SkippedInv /\ CommitInv

LEMMA IndInit == Init => IndInv
  BY TypeInit, StageInit, CommitInit DEF IndInv

LEMMA IndNext == IndInv /\ [Next]_vars => IndInv'
  BY TypeNext, StageNext, SkippedNext, CommitNext DEF IndInv

\* Behind the committed offset every record has its episode or was reported,
\* whatever crashes, fails or is rebalanced in between.
THEOREM NothingIsLost == Spec => []IngestedOrReported
  <1>1. IndInv => IngestedOrReported
    BY DEF IndInv, CommitInv, AllSettled, SettledRecord, IngestedOrReported
  <1>2. QED
    BY IndInit, IndNext, <1>1, PTL DEF Spec

\* As long as Graphiti raises no ValueError of its own, every valid match
\* behind the committed offset is in the graph; the run IngesterValueError shows
\* how one is skipped otherwise.
THEOREM ValidIsIngestedUnlessValueError ==
    ~GraphitiValueErrors => (Spec => []ValidIsIngested)
  <1> SUFFICES ASSUME ~GraphitiValueErrors PROVE Spec => []ValidIsIngested
    OBVIOUS
  <1>1. ASSUME IndInv, ~GraphitiValueErrors PROVE ValidIsIngested
    <2> SUFFICES ASSUME NEW p \in Partitions, NEW o \in 0 .. Done(p) - 1,
                        KindAt(log, <<p, o>>) = "ok"
                 PROVE  occurrences[<<p, o>>] > 0
      BY DEF ValidIsIngested
    <2>1. SettledRecord(<<p, o>>)
      BY <1>1 DEF IndInv, CommitInv, AllSettled
    <2>2. <<p, o>> \notin skipped
      BY <1>1 DEF IndInv, SkippedInv, MayRefuse, Poison
    <2>3. QED
      BY <2>1, <2>2 DEF SettledRecord
  <1>2. QED
    BY IndInit, IndNext, <1>1, PTL DEF Spec

------------------------------------------------------------------------------
(* Duplicates.                                                              *)

\* The consumer will poll the record, again or for the first time.
ToRead(r) == r[1] \in assigned /\ position[r[1]] <= r[2]

\* ReplaysNeedFaults is not inductive: the episodes of a record may be one
\* ahead of the faults only from the write on, and only as long as the record
\* will not be read again.
EpisodesPaid(r) ==
    /\ occurrences[r] <= 1 + faults
    /\ r = cur /\ pc # "commit" => occurrences[r] <= faults
    /\ r # cur /\ (ToRead(r) \/ Done(r[1]) <= r[2]) => occurrences[r] <= faults

ReplayInv == \A r \in Records : EpisodesPaid(r)

LEMMA ReplayInit == Init => ReplayInv
  <1> SUFFICES ASSUME Init, NEW r \in Records PROVE EpisodesPaid(r)
    BY DEF ReplayInv
  <1>1. occurrences[r] = 0 /\ faults = 0 /\ cur = NoRecord /\ r # NoRecord /\ pc = "down"
    BY RecordPair DEF Init
  <1>2. QED
    BY <1>1 DEF EpisodesPaid

\* A step that writes no episode, moves no offset, and does not leave a record
\* that only waits for its commit.
Quiet ==
    /\ UNCHANGED <<committed, loop, cur, occurrences>>
    /\ faults' \in {faults, faults + 1}
    /\ pc = "commit" => pc' = "commit"

LEMMA ReplayShapes ==
    ASSUME TypeInv, [Next]_vars
    PROVE  \/ \E D \in SUBSET Partitions : Rebalance(D)
           \/ \E p \in Partitions : Poll(p)
           \/ AddEpisode \/ AddEpisodeFails \/ Skip \/ Commit \/ SeekBack \/ Wake
           \/ Close \/ Crash \/ DecodeDies \/ Quiet
  <1> USE DEF TypeInv, TypeOK
  <1>1. CASE (\E p \in Partitions, k \in Kinds : Publish(p, k)) \/ Signal \/ UNCHANGED vars
    BY <1>1 DEF Publish, Signal, vars, kafka, loop, Quiet
  <1>2. CASE Start \/ Decode \/ FormatEpisode \/ AddEpisodeValueError
    BY <1>2 DEF Start, Decode, FormatEpisode, Format, AddEpisodeValueError, Goto, kafka, loop, Quiet
  <1>3. QED
    BY <1>1, <1>2 DEF Next, Handle, Fault

LEMMA ReplayNext ==
    TypeInv /\ StageInv /\ CommitInv /\ ReplayInv /\ [Next]_vars => ReplayInv'
  <1> SUFFICES ASSUME TypeInv, StageInv, CommitInv, ReplayInv, [Next]_vars, NEW r \in Records
               PROVE  EpisodesPaid(r)'
    BY DEF ReplayInv
  <1>1. EpisodesPaid(r) /\ occurrences[r] \in Nat /\ faults \in Nat
    BY IngesterAssumption DEF ReplayInv, TypeInv, TypeOK
  <1>2. /\ r = <<r[1], r[2]>> /\ r # NoRecord /\ r[1] \in Partitions /\ r[2] \in Nat
        /\ Done(r[1]) \in Nat /\ position[r[1]] \in Nat
    BY RecordPair DEF CommitInv, DoneOK, TypeInv, TypeOK
  <1>3. cur # NoRecord => /\ cur \in Records /\ cur = <<cur[1], cur[2]>> /\ cur[1] \in Partitions
                          /\ cur[2] = Done(cur[1]) /\ cur[2] \in Nat /\ cur[1] \in assigned
                          /\ pc \notin {"down", "idle", "closing"}
    BY RecordPair DEF CommitInv, DoneOK, HandOK, TypeInv, TypeOK, CurOK
  <1>4. UNCHANGED committed => Done(r[1])' = Done(r[1])
    BY DEF Done
  <1>5. UNCHANGED loop => (ToRead(r)' <=> ToRead(r))
    BY DEF ToRead, loop
  <1>6. CASE Quiet
    <2>1. /\ UNCHANGED <<cur, occurrences>> /\ faults' \in {faults, faults + 1}
          /\ Done(r[1])' = Done(r[1]) /\ (ToRead(r)' <=> ToRead(r))
      BY <1>4, <1>5, <1>6 DEF Quiet
    <2>2. QED
      BY <1>1, <1>6, <2>1 DEF Quiet, EpisodesPaid
  <1>7. CASE \E D \in SUBSET Partitions : Rebalance(D)
    <2>1. PICK D \in SUBSET Partitions : Rebalance(D)
      BY <1>7
    <2>2. UNCHANGED <<committed, cur, pc, occurrences, faults>> /\ cur = NoRecord
      BY <2>1, <1>3 DEF Rebalance, kafka
    <2>3. ToRead(r)' => Done(r[1]) <= r[2]
      BY <2>1, <1>2 DEF Rebalance, ToRead, ResumeAt, AutoOffsetReset, Done
    <2>4. QED
      BY <1>1, <1>2, <1>3, <1>4, <2>2, <2>3 DEF EpisodesPaid
  <1>8. CASE \E p \in Partitions : Poll(p)
    <2>1. PICK p \in Partitions : Poll(p)
      BY <1>8
    <2>2. /\ UNCHANGED <<committed, assigned, occurrences, faults>> /\ pc' = "decode"
          /\ cur = NoRecord /\ cur' = <<p, position[p]>> /\ p \in assigned
      BY <2>1 DEF Poll, kafka, TypeInv, CurOK
    <2>3. position'[r[1]] = IF r[1] = p THEN position[p] + 1 ELSE position[r[1]]
      BY <2>1, <1>2 DEF Poll, TypeInv, TypeOK
    <2>4. ToRead(r)' => ToRead(r) /\ r # cur'
      BY <1>2, <2>2, <2>3 DEF ToRead
    <2>5. r = cur' => ToRead(r) /\ r # cur
      BY <1>2, <2>2 DEF ToRead
    <2>6. QED
      BY <1>1, <1>2, <1>4, <2>2, <2>4, <2>5 DEF EpisodesPaid
  <1>9. CASE AddEpisode \/ AddEpisodeFails
    <2>1. /\ cur \in Records /\ pc = "write" /\ UNCHANGED <<committed, loop, cur>>
          /\ \/ pc' = "commit" /\ faults' = faults
             \/ pc' = "seek" /\ faults' = faults + 1
      BY <1>9 DEF AddEpisode, AddEpisodeFails, kafka, TypeInv, TypeOK, CurOK
    <2>2. /\ occurrences'[r] \in {occurrences[r], occurrences[r] + 1}
          /\ r # cur => occurrences'[r] = occurrences[r]
      BY <1>9, <2>1, OneMore DEF AddEpisode, AddEpisodeFails, TypeInv
    <2>3. QED
      BY <1>1, <1>4, <1>5, <2>1, <2>2 DEF EpisodesPaid
  <1>10. CASE Skip \/ Commit
    <2>1. /\ cur # NoRecord /\ pc \in {"skip", "commit"} /\ cur' = NoRecord
          /\ pc' # "commit" /\ UNCHANGED <<loop, occurrences, faults>>
      BY <1>10, CommitFacts DEF Skip, Commit, NextTurn
    <2>2. Done(r[1])' = IF r[1] = cur[1] THEN Done(r[1]) + 1 ELSE Done(r[1])
      BY <1>2, <1>10, CommitFacts
    <2>3. Done(r[1])' <= r[2] => Done(r[1]) <= r[2] /\ r # cur
      BY <1>2, <1>3, <2>1, <2>2
    <2>4. r = cur => ~ToRead(r)
      BY <1>3, <2>1 DEF CommitInv, PositionInv, ToRead
    <2>5. QED
      BY <1>1, <1>2, <1>5, <2>1, <2>3, <2>4 DEF EpisodesPaid
  <1>11. CASE SeekBack
    <2>1. /\ cur # NoRecord /\ pc = "seek" /\ pc' = "sleep"
          /\ UNCHANGED <<committed, assigned, cur, occurrences, faults>>
      BY <1>11 DEF SeekBack, SeekTo, kafka, TypeInv, CurOK
    <2>2. position'[r[1]] = IF r[1] = cur[1] THEN cur[2] ELSE position[r[1]]
      BY <1>11, <1>2 DEF SeekBack, SeekTo, TypeInv, TypeOK
    <2>3. r # cur /\ ToRead(r)' => ToRead(r) \/ Done(r[1]) <= r[2]
      BY <1>2, <1>3, <2>1, <2>2 DEF ToRead
    <2>4. QED
      BY <1>1, <1>4, <2>1, <2>3 DEF EpisodesPaid
  <1>12. CASE Wake
    <2>1. /\ pc = "sleep" /\ cur' = NoRecord /\ pc' # "commit"
          /\ UNCHANGED <<committed, loop, occurrences, faults>>
      BY <1>12 DEF Wake, NextTurn, kafka
    <2>2. QED
      BY <1>1, <1>2, <1>4, <1>5, <2>1 DEF EpisodesPaid
  <1>13. CASE Close \/ Crash \/ DecodeDies
    <2>1. /\ cur' = NoRecord /\ pc' = "down" /\ assigned' = {} /\ UNCHANGED <<committed, occurrences>>
          /\ faults' \in {faults, faults + 1} /\ (pc = "commit" => faults' = faults + 1)
      BY <1>13 DEF Close, Crash, DecodeDies, Gone, kafka
    <2>2. ~ToRead(r)'
      BY <2>1 DEF ToRead
    <2>3. QED
      BY <1>1, <1>2, <1>4, <2>1, <2>2 DEF EpisodesPaid
  <1>14. QED
    BY <1>6, <1>7, <1>8, <1>9, <1>10, <1>11, <1>12, <1>13, ReplayShapes

\* Every episode of a record but the first is paid for by a fault of its own.
THEOREM ReplaysArePaidFor == Spec => []ReplaysNeedFaults
  <1>1. IndInv /\ ReplayInv /\ [Next]_vars => ReplayInv'
    BY ReplayNext DEF IndInv
  <1>2. ReplayInv => ReplaysNeedFaults
    BY DEF ReplayInv, EpisodesPaid, ReplaysNeedFaults
  <1>3. QED
    BY IndInit, IndNext, ReplayInit, <1>1, <1>2, PTL DEF Spec

------------------------------------------------------------------------------
(* The ingester implements AtLeastOnce.                                     *)

\* The refinement mapping's state functions, by name.
SettledOffsets == [p \in Partitions |-> Done(p)]
Processed      == {r \in Records : occurrences[r] > 0}

LEMMA ProcessedGrows ==
    ASSUME TypeInv, NEW r \in Records, occurrences' = [occurrences EXCEPT ![r] = @ + 1]
    PROVE  Processed' = Processed \cup {r}
  <1>1. ASSUME NEW q \in Records PROVE occurrences'[q] > 0 <=> occurrences[q] > 0 \/ q = r
    <2>1. occurrences[q] \in Nat
      BY DEF TypeInv, TypeOK
    <2>2. occurrences'[q] = IF q = r THEN occurrences[q] + 1 ELSE occurrences[q]
      BY OneMore DEF TypeInv
    <2>3. QED
      BY <2>1, <2>2
  <1>2. QED
    BY <1>1 DEF Processed

LEMMA RefinedInit == Init => Abstract!Init
  <1> SUFFICES ASSUME Init PROVE Abstract!Init
    OBVIOUS
  <1>1. [p \in Partitions |-> Done(p)] = [p \in Partitions |-> 0]
    BY DEF Init, Done
  <1>2. {r \in Records : occurrences[r] > 0} = {}
    BY DEF Init
  <1>3. QED
    BY <1>1, <1>2 DEF Init, Abstract!Init

LEMMA RefinedRecord == \A r \in Records : r \in Abstract!Records
  BY DEF Abstract!Records, Abstract!Offsets, Records, Offsets

\* The record in hand is one the contract lets the consumer read.
LEMMA HandReadable ==
    ASSUME IndInv, cur \in Records, cur # NoRecord
    PROVE  Abstract!Readable(cur)
  <1>1. cur[2] < Len(log[cur[1]]) /\ cur[1] \in Partitions /\ cur[2] \in Nat
    BY RecordPair DEF IndInv, TypeInv, CurOK
  <1>2. cur[2] = Done(cur[1])
    BY <1>1 DEF IndInv, CommitInv, HandOK
  <1>3. QED
    BY <1>1, <1>2 DEF Abstract!Readable

\* Writing an episode, acknowledged or not, processes the record in hand.
LEMMA RefinedWrite ==
    ASSUME IndInv, pc = "write", UNCHANGED <<kafka, skipped>>,
           occurrences' = [occurrences EXCEPT ![cur] = @ + 1]
    PROVE  cur \in Records /\ Abstract!Process(cur)
  <1>1. cur \in Records /\ cur # NoRecord
    BY RecordPair DEF IndInv, TypeInv, TypeOK, CurOK
  <1>2. Processed' = Processed \cup {cur}
    BY <1>1, ProcessedGrows DEF IndInv
  <1>3. Abstract!Readable(cur)
    BY <1>1, HandReadable
  <1>4. UNCHANGED <<log, committed>> /\ SettledOffsets' = SettledOffsets
    BY DEF kafka, SettledOffsets, Done
  <1>5. QED
    BY <1>1, <1>2, <1>3, <1>4 DEF Abstract!Process, Processed, SettledOffsets

\* Skip and Commit settle the next offset.
LEMMA RefinedOffsets ==
    ASSUME IndInv, Skip \/ Commit
    PROVE  SettledOffsets' = [SettledOffsets EXCEPT ![cur[1]] = @ + 1]
  <1>1. /\ cur[1] \in Partitions
        /\ \A p \in Partitions : Done(p)' = IF p = cur[1] THEN Done(p) + 1 ELSE Done(p)
    BY CommitFacts DEF IndInv
  <1>2. SettledOffsets' = [p \in Partitions |-> Done(p)']
    BY DEF SettledOffsets
  <1>3. QED
    BY <1>1, <1>2 DEF SettledOffsets

LEMMA RefinedSkip ==
    ASSUME IndInv, Skip
    PROVE  cur \in Records /\ Abstract!Refuse(cur)
  <1>1. cur \in Records /\ cur # NoRecord
    BY CommitFacts DEF IndInv
  <1>2. Abstract!Readable(cur)
    BY <1>1, HandReadable
  <1>3. KindAt(log, cur) \in MayRefuse
    BY DEF Skip, IndInv, StageInv, Kind
  <1>4. UNCHANGED <<log, occurrences>> /\ skipped' = skipped \cup {cur} /\ Processed' = Processed
    BY DEF Skip, Processed
  <1>5. QED
    BY <1>1, <1>2, <1>3, <1>4, RefinedOffsets
    DEF Abstract!Refuse, Abstract!KindAt, KindAt, MayRefuse, Processed, SettledOffsets, Poison,
        Abstract!Poison

LEMMA RefinedCommit ==
    ASSUME IndInv, Commit
    PROVE  cur \in Records /\ Abstract!Settle(cur)
  <1>1. cur \in Records /\ cur[1] \in Partitions /\ cur[2] = Done(cur[1])
    BY CommitFacts DEF IndInv
  <1>2. UNCHANGED <<log, occurrences, skipped>> /\ Processed' = Processed
    BY DEF Commit, Processed
  <1>3. cur \in Processed
    BY <1>1 DEF Commit, IndInv, StageInv, Processed
  <1>4. SettledOffsets[cur[1]] = cur[2]
    BY <1>1 DEF SettledOffsets
  <1>5. QED
    BY <1>1, <1>2, <1>3, <1>4, RefinedOffsets DEF Abstract!Settle, Processed, SettledOffsets

LEMMA RefinedStep == IndInv /\ [Next]_vars => [Abstract!Next]_(Abstract!vars)
  <1> SUFFICES ASSUME IndInv, [Next]_vars
               PROVE  Abstract!Next \/ UNCHANGED Abstract!vars
    OBVIOUS
  <1>1. ASSUME UNCHANGED <<kafka, occurrences, skipped>> PROVE UNCHANGED Abstract!vars
    <2>1. Processed' = Processed /\ SettledOffsets' = SettledOffsets /\ log' = log
      BY <1>1 DEF Processed, SettledOffsets, Done, kafka
    <2>2. QED
      BY <1>1, <2>1 DEF Abstract!vars, Processed, SettledOffsets
  <1>2. CASE \E p \in Partitions, k \in Kinds : Publish(p, k)
    <2>1. PICK p \in Partitions, k \in Kinds : Publish(p, k)
      BY <1>2
    <2>2. Processed' = Processed /\ SettledOffsets' = SettledOffsets /\ skipped' = skipped
      BY <2>1 DEF Publish, Processed, SettledOffsets, Done
    <2>3. Abstract!Publish(p, k)
      BY <2>1, <2>2 DEF Publish, Abstract!Publish, Published, Abstract!Published, Processed, SettledOffsets
    <2>4. QED
      BY <2>3 DEF Abstract!Next
  <1>3. ASSUME NEW r \in Records, Abstract!Process(r) \/ Abstract!Settle(r) \/ Abstract!Refuse(r)
        PROVE  Abstract!Next
    BY <1>3, RefinedRecord DEF Abstract!Next
  <1>4. CASE AddEpisode \/ AddEpisodeFails
    <2>1. \/ UNCHANGED <<kafka, occurrences, skipped>>
          \/ /\ pc = "write" /\ UNCHANGED <<kafka, skipped>>
             /\ occurrences' = [occurrences EXCEPT ![cur] = @ + 1]
      BY <1>4 DEF AddEpisode, AddEpisodeFails
    <2>2. CASE UNCHANGED <<kafka, occurrences, skipped>>
      BY <1>1, <2>2
    <2>3. CASE /\ pc = "write" /\ UNCHANGED <<kafka, skipped>>
               /\ occurrences' = [occurrences EXCEPT ![cur] = @ + 1]
      <3>1. cur \in Records /\ Abstract!Process(cur)
        BY <2>3, RefinedWrite
      <3>2. PICK r \in Records : r = cur
        BY <3>1
      <3>3. Abstract!Process(r)
        BY <3>1, <3>2 DEF Abstract!Process, Abstract!Readable
      <3>4. QED
        BY <1>3, <3>3
    <2>4. QED
      BY <2>1, <2>2, <2>3
  <1>5. CASE Skip
    <2>1. cur \in Records /\ Abstract!Refuse(cur)
      BY <1>5, RefinedSkip
    <2>2. PICK r \in Records : r = cur
      BY <2>1
    <2>3. Abstract!Refuse(r)
      BY <2>1, <2>2 DEF Abstract!Refuse, Abstract!Readable
    <2>4. QED
      BY <1>3, <2>3
  <1>6. CASE Commit
    <2>1. cur \in Records /\ Abstract!Settle(cur)
      BY <1>6, RefinedCommit
    <2>2. PICK r \in Records : r = cur
      BY <2>1
    <2>3. Abstract!Settle(r)
      BY <2>1, <2>2 DEF Abstract!Settle
    <2>4. QED
      BY <1>3, <2>3
  <1>7. \/ \E p \in Partitions, k \in Kinds : Publish(p, k)
        \/ AddEpisode \/ AddEpisodeFails \/ Skip \/ Commit
        \/ UNCHANGED <<kafka, occurrences, skipped>>
    BY DEF Next, Handle, Fault, Rebalance, Start, Close, Crash, Signal, Gone, Poll, Decode, DecodeDies,
       FormatEpisode, Format, Goto, AddEpisodeValueError, SeekBack, SeekTo, Wake, vars, kafka
  <1>8. QED
    BY <1>1, <1>2, <1>4, <1>5, <1>6, <1>7

\* The ingester is an AtLeastOnce consumer: its initial state is one, and each
\* of its steps is a step of it or changes nothing it can see.
THEOREM IngesterRefinesAtLeastOnce == Spec => ImplementsAtLeastOnce
  <1>1. QED
    BY IndInit, IndNext, RefinedInit, RefinedStep, PTL DEF Spec, IndInv, ImplementsAtLeastOnce, Abstract!Spec

=============================================================================
