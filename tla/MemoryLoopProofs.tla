--------------------------- MODULE MemoryLoopProofs ---------------------------
(***************************************************************************)
(* Proofs about MemoryLoop for any machines, facts, matches and answers,   *)
(* and any number of retries, repeats and interventions.  The inductive    *)
(* invariant adds to the properties: every list of sources that knows a    *)
(* type has a first one (which appending keeps), no source is an outcome,  *)
(* no alert is remembered for a match that was not reached or, before its  *)
(* reify_memory, not retried.                                              *)
(***************************************************************************)
EXTENDS MemoryLoop, TLAPS, SequenceTheorems, FiniteSetTheorems

KnownAt(s) == {i \in DOMAIN s : s[i].type \in EpisodeTypes}
HasFirst(s) == KnownAt(s) = {} \/ \E i \in KnownAt(s) : \A j \in KnownAt(s) : i <= j
OwnAlert(s, m) == \E i \in DOMAIN s : s[i] = [type |-> "agent_alert", match |-> m]

LEMMA FirstKnownDef ==
    ASSUME NEW s
    PROVE  FirstKnown(s) = IF KnownAt(s) = {} THEN NoType
                           ELSE s[CHOOSE i \in KnownAt(s) : \A j \in KnownAt(s) : i <= j].type
BY Zenon DEF FirstKnown, KnownAt

\* What appending does to the known positions.
LEMMA KnownAppended ==
    ASSUME NEW s \in Seq(Sources), NEW e \in Sources
    PROVE  /\ KnownAt(Append(s, e)) = KnownAt(s) \cup (IF e.type \in EpisodeTypes THEN {Len(s) + 1} ELSE {})
           /\ \A i \in KnownAt(s) : i \in Int /\ i <= Len(s) /\ Append(s, e)[i] = s[i]
           /\ Len(s) \in Nat
BY DEF KnownAt

LEMMA FirstStays ==
    ASSUME NEW s \in Seq(Sources), NEW e \in Sources, HasFirst(s)
    PROVE  HasFirst(Append(s, e))
<1> DEFINE t == Append(s, e)
<1>1. KnownAt(t) = KnownAt(s) \cup (IF e.type \in EpisodeTypes THEN {Len(s) + 1} ELSE {})
  BY KnownAppended
<1>2. \A i \in KnownAt(s) : i \in Int /\ i <= Len(s)
  BY KnownAppended
<1>3. Len(s) \in Nat
  BY KnownAppended
<1> HIDE DEF t
<1>4. CASE KnownAt(s) = {}
  <2>1. KnownAt(t) = {} \/ KnownAt(t) = {Len(s) + 1}
    BY <1>1, <1>4
  <2> QED
    BY <2>1, <1>3 DEF HasFirst, t
<1>5. CASE KnownAt(s) # {}
  <2>1. PICK i \in KnownAt(s) : \A j \in KnownAt(s) : i <= j
    BY <1>5 DEF HasFirst
  <2>2. i \in KnownAt(t)
    BY <1>1
  <2>3. \A j \in KnownAt(t) : j \in KnownAt(s) \/ j = Len(s) + 1
    BY <1>1
  <2>4. \A j \in KnownAt(t) : i <= j
    BY <2>1, <2>3, <1>2, <1>3
  <2> QED
    BY <2>2, <2>4 DEF HasFirst, t
<1> QED
  BY <1>4, <1>5

LEMMA TypeStays ==
    ASSUME NEW s \in Seq(Sources), NEW e \in Sources, HasFirst(s), FirstKnown(s) \in EpisodeTypes
    PROVE  FirstKnown(Append(s, e)) = FirstKnown(s)
<1> DEFINE t == Append(s, e)
           K == KnownAt(s)
           L == KnownAt(t)
<1>1. L = K \cup (IF e.type \in EpisodeTypes THEN {Len(s) + 1} ELSE {})
  BY KnownAppended
<1>2. \A i \in K : i \in Int /\ i <= Len(s) /\ t[i] = s[i]
  BY KnownAppended
<1>3. Len(s) \in Nat
  BY KnownAppended
<1>4. K # {}
  BY FirstKnownDef DEF EpisodeTypes, NoType, TIER1_TYPES, TIER2_TYPES
<1>5. FirstKnown(s) = s[CHOOSE i \in K : \A j \in K : i <= j].type
  BY <1>4, FirstKnownDef
<1>6. FirstKnown(t) = IF L = {} THEN NoType ELSE t[CHOOSE i \in L : \A j \in L : i <= j].type
  BY FirstKnownDef
<1>7. \E i \in K : \A j \in K : i <= j
  BY <1>4 DEF HasFirst
<1> HIDE DEF t, K, L
<1>8. \A j \in L : j \in K \/ j = Len(s) + 1
  BY <1>1
<1>9. K \subseteq L
  BY <1>1
<1>10. PICK i \in K : \A j \in K : i <= j
  BY <1>7
<1>11. \A j \in L : i <= j
  BY <1>2, <1>3, <1>8, <1>10
<1>12. \A k \in K : (\A j \in K : k <= j) => k = i
  BY <1>2, <1>10
<1>13. \A k \in L : (\A j \in L : k <= j) => k = i
  BY <1>2, <1>3, <1>8, <1>9, <1>10, <1>11
<1>14. (CHOOSE k \in K : \A j \in K : k <= j) = i
  BY <1>10, <1>12
<1>15. (CHOOSE k \in L : \A j \in L : k <= j) = i
  BY <1>9, <1>11, <1>13
<1>16. t[i] = s[i]
  BY <1>2
<1>17. L # {}
  BY <1>9
<1>18. FirstKnown(t) = FirstKnown(s)
  BY <1>5, <1>6, <1>14, <1>15, <1>16, <1>17
<1> QED
  BY <1>18 DEF t

\* A known type is the type of some source.
LEMMA TypeHasSource ==
    ASSUME NEW s \in Seq(Sources), HasFirst(s), FirstKnown(s) \in EpisodeTypes
    PROVE  \E i \in DOMAIN s : s[i].type = FirstKnown(s)
<1>1. KnownAt(s) # {}
  BY FirstKnownDef DEF EpisodeTypes, NoType, TIER1_TYPES, TIER2_TYPES
<1>2. PICK i \in KnownAt(s) : \A j \in KnownAt(s) : i <= j
  BY <1>1 DEF HasFirst
<1>3. (CHOOSE k \in KnownAt(s) : \A j \in KnownAt(s) : k <= j) \in KnownAt(s)
  BY <1>2
<1>4. FirstKnown(s) = s[CHOOSE k \in KnownAt(s) : \A j \in KnownAt(s) : k <= j].type
  BY <1>1, FirstKnownDef
<1> QED
  BY <1>3, <1>4 DEF KnownAt
------------------------------------------------------------------------------
(* What the operations give.                                                *)

\* Every list of sources is left alone or has e appended.
Appended(e) ==
    /\ sources' \in [Facts -> Seq(Sources)]
    /\ \A f \in Facts : sources'[f] = sources[f] \/ sources'[f] = Append(sources[f], e)

LEMMA AddEpisodeAppends ==
    ASSUME TypeOK, NEW machine, NEW type \in EpisodeTypes, NEW m \in Matches \cup {NoMatch},
           AddEpisode(machine, type, m)
    PROVE  Appended([type |-> type, match |-> m])
<1> DEFINE e == [type |-> type, match |-> m]
<1>1. e \in Sources
  BY DEF Sources
<1>2. sources \in [Facts -> Seq(Sources)]
  BY DEF TypeOK
<1>3. \A f \in Facts : Append(sources[f], e) \in Seq(Sources)
  BY <1>1, <1>2
<1>4. PICK F \in SUBSET {f \in Facts : Group[f] = machine} :
        sources' = [f \in Facts |-> IF f \in F THEN Append(sources[f], e) ELSE sources[f]]
  BY DEF AddEpisode
<1> HIDE DEF e
<1>5. Appended(e)
  BY <1>2, <1>3, <1>4 DEF Appended
<1> QED
  BY <1>5 DEF e

\* A result of search_history has the wanted types, from the machine's group,
\* and no more than asked for.
LEMMA SearchFinds ==
    ASSUME NEW machine, NEW types \in SUBSET EpisodeTypes, NEW num \in Nat,
           NEW T \in SearchHistory(machine, types, num)
    PROVE  /\ T \subseteq Retrieved
           /\ \A e \in T : /\ Group[e.fact] = machine
                           /\ e.type \in types /\ e.type = FirstKnown(sources[e.fact])
           /\ Cardinality(T) <= num
<1> DEFINE Typed(C) == {[fact |-> f, type |-> FirstKnown(sources[f])] :
                          f \in {g \in C : FirstKnown(sources[g]) \in types}}
           Top(R)   == {X \in SUBSET R : IF Cardinality(R) <= num THEN X = R
                                                                  ELSE Cardinality(X) = num}
<1>1. PICK C \in Candidates(machine) : T \in Top(Typed(C))
  BY DEF SearchHistory
<1>2. T \subseteq Typed(C) /\ (Cardinality(T) <= num \/ (T = Typed(C) /\ Cardinality(Typed(C)) <= num))
  BY <1>1
<1>3. C \subseteq {f \in Facts : Group[f] = machine}
  BY DEF Candidates
<1>4. \A e \in Typed(C) : /\ e \in Retrieved /\ Group[e.fact] = machine
                          /\ e.type \in types /\ e.type = FirstKnown(sources[e.fact])
  BY <1>3 DEF Retrieved
<1>5. Cardinality(T) <= num
  <2> HIDE DEF Typed
  <2> QED
    BY <1>2
<1> QED
  BY <1>2, <1>4, <1>5

LEMMA ClampInRange ==
    ASSUME NEW a \in Answers
    PROVE  Clamp(a.confidence) \in 0 .. 100 /\ a.anchors \in Nat
<1>1. a.confidence \in Int \cup {NaN} /\ a.anchors \in Nat
  BY MemoryAssumption
<1> QED
  BY <1>1 DEF Clamp, Most, Least

\* The three checks together.
LEMMA ChecksCap ==
    ASSUME NEW c \in 0 .. 100, NEW n \in Nat, NEW has \in BOOLEAN
    PROVE  LET first  == CheckAnchors(c, n)
               second == CheckScale(first[1], n)
               third  == CheckOutcome(second[1], has)
               flagged == first[2] \cup second[2] \cup third[2]
           IN  /\ third[1] \in 0 .. 100 /\ flagged \subseteq Flags
               /\ n = 0 => third[1] <= 30
               /\ third[1] >= 70 => n >= 3
               /\ third[1] >= 90 => has
               /\ third[1] <= c
               /\ third[1] < c => flagged # {}
               /\ n >= 3 /\ c < 90 => third[1] = c /\ flagged = {}
<1> DEFINE first == CheckAnchors(c, n)
           second == CheckScale(first[1], n)
           third == CheckOutcome(second[1], has)
<1>1. /\ first[1] \in 0 .. 100 /\ first[1] <= c /\ first[2] \subseteq Flags
      /\ n = 0 => first[1] <= 30
      /\ first[1] < c => first[2] # {}
      /\ n > 0 => first[1] = c /\ first[2] = {}
  BY DEF CheckAnchors, Least, Flags
<1> HIDE DEF first
<1>2. /\ second[1] \in 0 .. 100 /\ second[1] <= first[1] /\ second[2] \subseteq Flags
      /\ second[1] >= 70 => n >= 3
      /\ second[1] < first[1] => second[2] # {}
      /\ n >= 3 => second[1] = first[1] /\ second[2] = {}
  BY <1>1 DEF CheckScale, Least, Flags
<1> HIDE DEF second
<1>3. /\ third[1] \in 0 .. 100 /\ third[1] <= second[1] /\ third[2] \subseteq Flags
      /\ third[1] >= 90 => has
      /\ third[1] < second[1] => third[2] # {}
      /\ second[1] < 90 => third[1] = second[1] /\ third[2] = {}
  BY <1>2 DEF CheckOutcome, Least, Flags
<1> HIDE DEF third
<1>4. third[1] < c => first[2] \cup second[2] \cup third[2] # {}
  BY <1>1, <1>2, <1>3
<1>5. n >= 3 /\ c < 90 => third[1] = c /\ first[2] \cup second[2] \cup third[2] = {}
  BY <1>1, <1>2, <1>3
<1>6. /\ third[1] \in 0 .. 100 /\ first[2] \cup second[2] \cup third[2] \subseteq Flags
      /\ n = 0 => third[1] <= 30
      /\ third[1] >= 70 => n >= 3
      /\ third[1] >= 90 => has
      /\ third[1] <= c
  BY <1>1, <1>2, <1>3
<1>7. LET flagged == first[2] \cup second[2] \cup third[2]
      IN  /\ third[1] \in 0 .. 100 /\ flagged \subseteq Flags
          /\ n = 0 => third[1] <= 30
          /\ third[1] >= 70 => n >= 3
          /\ third[1] >= 90 => has
          /\ third[1] <= c
          /\ third[1] < c => flagged # {}
          /\ n >= 3 /\ c < 90 => third[1] = c /\ flagged = {}
  BY <1>4, <1>5, <1>6
<1> QED
  BY <1>7 DEF first, second, third

------------------------------------------------------------------------------
(* Type correctness.                                                        *)

LEMMA MatchesAreInts == Matches \in SUBSET (Nat \ {0}) /\ 1 \in Matches
BY MemoryAssumption DEF Matches

LEMMA ThisAlertTyped ==
    ASSUME TypeOK
    PROVE  ThisAlert \in Alerts
BY MemoryAssumption DEF TypeOK, ThisAlert, Alerts, Matches

LEMMA FreshTyped ==
    ASSUME Fresh
    PROVE  /\ tier1' = {} /\ tier2' = {} /\ raw' \in 0 .. 100 /\ anchors' \in Nat
           /\ final' \in 0 .. 100 /\ flags' \subseteq Flags
BY DEF Fresh

LEMMA TypeInit == Init => TypeOK
<1> SUFFICES ASSUME Init PROVE TypeOK
  OBVIOUS
<1>1. \A f \in Facts : sources[f] \in Seq(Sources)
  <2>1. [type |-> NoType, match |-> NoMatch] \in Sources
    BY DEF Sources
  <2> QED
    BY <2>1 DEF Init
<1>2. sources \in [Facts -> Seq(Sources)]
  BY <1>1 DEF Init
<1>3. ingested \in [Matches -> 0 .. MaxRepeats + 1]
  BY MemoryAssumption DEF Init
<1>4. MaxRetries[1] \in Nat
  BY MemoryAssumption, MatchesAreInts
<1> QED
  BY <1>2, <1>3, <1>4, MatchesAreInts, MemoryAssumption DEF Init, TypeOK, Nodes

LEMMA TypeStep == TypeOK /\ [Next]_vars => TypeOK'
<1> SUFFICES ASSUME TypeOK, [Next]_vars PROVE TypeOK'
  OBVIOUS
<1> USE DEF memory, state, effects
<1>1. ASSUME NEW m \in Matches, IngestPatternMatch(m) PROVE TypeOK'
  <2>1. sources' \in [Facts -> Seq(Sources)]
    BY <1>1, AddEpisodeAppends
       DEF IngestPatternMatch, Appended, EpisodeTypes, TIER1_TYPES
  <2>2. ingested' \in [Matches -> 0 .. MaxRepeats + 1]
    BY <1>1, MemoryAssumption DEF IngestPatternMatch, TypeOK
  <2> QED
    BY <1>1, <2>1, <2>2 DEF IngestPatternMatch, TypeOK
<1>2. ASSUME NEW machine \in Machines, AddIntervention(machine) PROVE TypeOK'
  <2>1. sources' \in [Facts -> Seq(Sources)]
    BY <1>2, AddEpisodeAppends
       DEF AddIntervention, Appended, EpisodeTypes, TIER1_TYPES
  <2>2. interventions' \in 0 .. MaxInterventions
    BY <1>2, MemoryAssumption DEF AddIntervention, TypeOK
  <2> QED
    BY <1>2, <2>1, <2>2 DEF AddIntervention, TypeOK
<1>3. CASE RetrieveTier1
  <2>1. tier1' \subseteq Retrieved
    BY <1>3, SearchFinds DEF RetrieveTier1, EpisodeTypes, TIER1_NUM_RESULTS
  <2> QED
    BY <1>3, <2>1 DEF RetrieveTier1, TypeOK, Nodes
<1>4. CASE RetrieveTier2
  <2>1. tier2' \subseteq Retrieved
    BY <1>4, SearchFinds DEF RetrieveTier2, EpisodeTypes, TIER2_NUM_RESULTS
  <2> QED
    BY <1>4, <2>1 DEF RetrieveTier2, TypeOK, Nodes
<1>5. CASE Reason
  BY <1>5, ClampInRange DEF Reason, TypeOK, Nodes
<1>6. CASE ValidateConfidence
  <2>1. HasOutcome \in BOOLEAN
    BY DEF HasOutcome
  <2>2. final' \in 0 .. 100 /\ flags' \subseteq Flags
    BY <1>6, <2>1, ChecksCap DEF ValidateConfidence, TypeOK
  <2> QED
    BY <1>6, <2>2 DEF ValidateConfidence, TypeOK, Nodes
<1>7. CASE EmitAlert
  BY <1>7, ThisAlertTyped DEF EmitAlert, TypeOK, Nodes
<1>8. CASE ReifyMemory
  <2>1. sources' \in [Facts -> Seq(Sources)]
    BY <1>8, AddEpisodeAppends
       DEF ReifyMemory, AddAlertEpisode, Appended, EpisodeTypes, TIER2_TYPES, TypeOK
  <2> QED
    BY <1>8, <2>1, ThisAlertTyped DEF ReifyMemory, AddAlertEpisode, TypeOK, Nodes
<1>9. CASE EmitTrainingRecord
  BY <1>9, ThisAlertTyped DEF EmitTrainingRecord, TypeOK, Nodes
<1>10. CASE NextMatch
  <2>1. MaxRetries[match + 1] \in Nat
    BY <1>10, MemoryAssumption DEF NextMatch
  <2> QED
    BY <1>10, <2>1, FreshTyped DEF NextMatch, TypeOK, Nodes
<1>11. ASSUME StartOver PROVE /\ match' \in Matches /\ attempt' \in 0 .. MaxRetries[match'] /\ pc' \in Nodes
                              /\ tier1' \subseteq Retrieved /\ tier2' \subseteq Retrieved
                              /\ raw' \in 0 .. 100 /\ anchors' \in Nat
                              /\ final' \in 0 .. 100 /\ flags' \subseteq Flags
  <2>1. MaxRetries[match] \in Nat
    BY MemoryAssumption DEF TypeOK
  <2> QED
    BY <1>11, <2>1, FreshTyped DEF StartOver, TypeOK, Nodes
<1>12. CASE AttemptFails
  BY <1>11, <1>12 DEF AttemptFails, TypeOK
<1>13. CASE ReifyHalfFails
  <2>1. sources' \in [Facts -> Seq(Sources)]
    BY <1>13, AddEpisodeAppends
       DEF ReifyHalfFails, AddAlertEpisode, Appended, EpisodeTypes, TIER2_TYPES, TypeOK
  <2> QED
    BY <1>11, <1>13, <2>1, ThisAlertTyped DEF ReifyHalfFails, AddAlertEpisode, TypeOK
<1>14. CASE UNCHANGED vars
  BY <1>14 DEF vars, TypeOK
<1> QED
  BY <1>1, <1>2, <1>3, <1>4, <1>5, <1>6, <1>7, <1>8, <1>9, <1>10, <1>12, <1>13, <1>14
     DEF Next, Node

\* TypeOK: in particular the confidence the nodes pass on is a number between
\* 0 and 1, whatever the LLM answered.
THEOREM MemoryTypeCorrect == Spec => []TypeOK
BY TypeInit, TypeStep, PTL DEF Spec

------------------------------------------------------------------------------
(* The memory and the history read from it.                                 *)

SourcesFirst == \A f \in Facts : HasFirst(sources[f])
NoOutcomeYet == \A f \in Facts : \A i \in DOMAIN sources[f] : sources[f][i].type # "outcome"

HistoryTyped ==
    /\ \A e \in tier1 : Group[e.fact] = Machine /\ e.type \in TIER1_TYPES
    /\ \A e \in tier2 : Group[e.fact] = Machine /\ e.type \in TIER2_TYPES
    /\ Cardinality(tier1) <= TIER1_NUM_RESULTS /\ Cardinality(tier2) <= TIER2_NUM_RESULTS

HistoryInv == SourcesFirst /\ NoOutcomeYet /\ HistoryTyped /\ HistoryStaysTrue

\* What a step may write: an episode of a known kind that is no outcome, and
\* an agent's alert only at reify_memory, on the match in hand.
Writes(e) ==
    /\ e \in Sources /\ e.type \in EpisodeTypes \ {"outcome"}
    /\ e.type = "agent_alert" => pc = "reify_memory" /\ e.match = match
    /\ Appended(e)

LEMMA StepWrites ==
    ASSUME TypeOK, [Next]_vars
    PROVE  sources' = sources \/ \E e \in Sources : Writes(e)
<1> USE DEF memory, state, effects
<1>1. ASSUME NEW machine, NEW type \in EpisodeTypes \ {"outcome"}, NEW m \in Matches \cup {NoMatch},
             AddEpisode(machine, type, m),
             type = "agent_alert" => pc = "reify_memory" /\ m = match
      PROVE  \E e \in Sources : Writes(e)
  <2> DEFINE e == [type |-> type, match |-> m]
  <2>1. e \in Sources /\ e.type = type /\ e.match = m
    BY DEF Sources
  <2>2. Appended(e)
    BY <1>1, AddEpisodeAppends
  <2> HIDE DEF e
  <2> QED
    BY <1>1, <2>1, <2>2 DEF Writes
<1>2. ASSUME NEW m \in Matches, IngestPatternMatch(m) PROVE \E e \in Sources : Writes(e)
  BY <1>1, <1>2 DEF IngestPatternMatch, EpisodeTypes, TIER1_TYPES
<1>3. ASSUME NEW machine \in Machines, AddIntervention(machine) PROVE \E e \in Sources : Writes(e)
  BY <1>1, <1>3 DEF AddIntervention, EpisodeTypes, TIER1_TYPES
<1>4. ASSUME pc = "reify_memory", AddAlertEpisode PROVE \E e \in Sources : Writes(e)
  BY <1>1, <1>4 DEF AddAlertEpisode, EpisodeTypes, TIER2_TYPES, TypeOK
<1>5. ASSUME RetrieveTier1 \/ RetrieveTier2 \/ Reason \/ ValidateConfidence \/ EmitAlert
               \/ EmitTrainingRecord \/ NextMatch \/ AttemptFails \/ UNCHANGED vars
      PROVE  sources' = sources
  BY <1>5 DEF RetrieveTier1, RetrieveTier2, Reason, ValidateConfidence, EmitAlert,
     EmitTrainingRecord, NextMatch, AttemptFails, vars
<1> QED
  BY <1>2, <1>3, <1>4, <1>5 DEF Next, Node, ReifyMemory, ReifyHalfFails

\* Whatever is written, the sources stay sound and a known type stays.
LEMMA WritesKeep ==
    ASSUME TypeOK, SourcesFirst, NoOutcomeYet, [Next]_vars
    PROVE  /\ SourcesFirst' /\ NoOutcomeYet'
           /\ \A f \in Facts : FirstKnown(sources[f]) \in EpisodeTypes
                                  => FirstKnown(sources'[f]) = FirstKnown(sources[f])
<1>1. CASE sources' = sources
  BY <1>1 DEF SourcesFirst, NoOutcomeYet
<1>2. ASSUME NEW e \in Sources, Writes(e)
      PROVE  /\ SourcesFirst' /\ NoOutcomeYet'
             /\ \A f \in Facts : FirstKnown(sources[f]) \in EpisodeTypes
                                    => FirstKnown(sources'[f]) = FirstKnown(sources[f])
  <2>1. ASSUME NEW f \in Facts
        PROVE  /\ HasFirst(sources'[f])
               /\ \A i \in DOMAIN sources'[f] : sources'[f][i].type # "outcome"
               /\ FirstKnown(sources[f]) \in EpisodeTypes
                    => FirstKnown(sources'[f]) = FirstKnown(sources[f])
    <3>1. sources[f] \in Seq(Sources) /\ HasFirst(sources[f])
      BY DEF TypeOK, SourcesFirst
    <3>2. CASE sources'[f] = sources[f]
      BY <3>1, <3>2 DEF NoOutcomeYet
    <3>3. CASE sources'[f] = Append(sources[f], e)
      <4>1. HasFirst(sources'[f])
        BY <3>1, <3>3, FirstStays
      <4>2. FirstKnown(sources[f]) \in EpisodeTypes
              => FirstKnown(sources'[f]) = FirstKnown(sources[f])
        BY <3>1, <3>3, TypeStays
      <4>3. e.type # "outcome"
        BY <1>2 DEF Writes
      <4>4. \A i \in DOMAIN sources'[f] : sources'[f][i] = e \/ (i \in DOMAIN sources[f] /\ sources'[f][i] = sources[f][i])
        BY <3>1, <3>3
      <4> QED
        BY <4>1, <4>2, <4>3, <4>4 DEF NoOutcomeYet
    <3> QED
      BY <1>2, <3>2, <3>3 DEF Writes, Appended
  <2> QED
    BY <2>1 DEF SourcesFirst, NoOutcomeYet
<1> QED
  BY <1>1, <1>2, StepWrites

LEMMA HistoryInit == Init => HistoryInv
<1> SUFFICES ASSUME Init PROVE HistoryInv
  OBVIOUS
<1>1. ASSUME NEW f \in Facts
      PROVE  KnownAt(sources[f]) = {} /\ \A i \in DOMAIN sources[f] : sources[f][i].type # "outcome"
  <2>1. CASE f \in Legacy
    BY <1>1, <2>1 DEF Init, KnownAt, NoType, EpisodeTypes, TIER1_TYPES, TIER2_TYPES
  <2>2. CASE f \notin Legacy
    BY <1>1, <2>2 DEF Init, KnownAt
  <2> QED
    BY <2>1, <2>2
<1>2. tier1 = {} /\ tier2 = {}
  BY DEF Init
<1>3. Cardinality({}) = 0
  BY FS_EmptySet
<1> QED
  BY <1>1, <1>2, <1>3 DEF HistoryInv, SourcesFirst, NoOutcomeYet, HasFirst, HistoryTyped, HistoryStaysTrue,
     TIER1_NUM_RESULTS, TIER2_NUM_RESULTS

LEMMA HistoryStep == TypeOK /\ HistoryInv /\ [Next]_vars => HistoryInv'
<1> SUFFICES ASSUME TypeOK, HistoryInv, [Next]_vars PROVE HistoryInv'
  OBVIOUS
<1> USE DEF memory, state, effects
<1>1. SourcesFirst' /\ NoOutcomeYet'
  BY WritesKeep DEF HistoryInv
<1>2. \A e \in tier1 \cup tier2 : e.type = FirstKnown(sources'[e.fact])
  <2>1. \A e \in tier1 \cup tier2 : e.fact \in Facts /\ e.type \in EpisodeTypes /\ e.type = FirstKnown(sources[e.fact])
    BY DEF TypeOK, Retrieved, HistoryInv, HistoryStaysTrue
  <2> QED
    BY <2>1, WritesKeep DEF HistoryInv
<1>3. ASSUME tier1' = tier1, tier2' = tier2, match' = match
      PROVE  HistoryTyped' /\ HistoryStaysTrue'
  BY <1>2, <1>3 DEF HistoryInv, HistoryTyped, HistoryStaysTrue, Machine
<1>4. ASSUME tier1' = {}, tier2' = {} PROVE HistoryTyped' /\ HistoryStaysTrue'
  BY <1>4, FS_EmptySet DEF HistoryTyped, HistoryStaysTrue, TIER1_NUM_RESULTS, TIER2_NUM_RESULTS
<1>5. CASE RetrieveTier1
  <2>1. /\ \A e \in tier1' : Group[e.fact] = Machine /\ e.type \in TIER1_TYPES /\ e.type = FirstKnown(sources[e.fact])
        /\ Cardinality(tier1') <= TIER1_NUM_RESULTS
    <3>1. TIER1_TYPES \in SUBSET EpisodeTypes /\ TIER1_NUM_RESULTS \in Nat
      BY DEF EpisodeTypes, TIER1_NUM_RESULTS
    <3> QED
      BY <1>5, <3>1, SearchFinds DEF RetrieveTier1
  <2>2. tier2' = tier2 /\ sources' = sources /\ Machine' = Machine
    BY <1>5 DEF RetrieveTier1, Machine
  <2>3. HistoryTyped'
    BY <2>1, <2>2 DEF HistoryInv, HistoryTyped
  <2>4. HistoryStaysTrue'
    BY <2>1, <2>2 DEF HistoryInv, HistoryStaysTrue
  <2> QED
    BY <1>1, <2>3, <2>4 DEF HistoryInv
<1>6. CASE RetrieveTier2
  <2>1. /\ \A e \in tier2' : Group[e.fact] = Machine /\ e.type \in TIER2_TYPES /\ e.type = FirstKnown(sources[e.fact])
        /\ Cardinality(tier2') <= TIER2_NUM_RESULTS
    <3>1. TIER2_TYPES \in SUBSET EpisodeTypes /\ TIER2_NUM_RESULTS \in Nat
      BY DEF EpisodeTypes, TIER2_NUM_RESULTS
    <3> QED
      BY <1>6, <3>1, SearchFinds DEF RetrieveTier2
  <2>2. tier1' = tier1 /\ sources' = sources /\ Machine' = Machine
    BY <1>6 DEF RetrieveTier2, Machine
  <2>3. HistoryTyped'
    BY <2>1, <2>2 DEF HistoryInv, HistoryTyped
  <2>4. HistoryStaysTrue'
    BY <2>1, <2>2 DEF HistoryInv, HistoryStaysTrue
  <2> QED
    BY <1>1, <2>3, <2>4 DEF HistoryInv
<1>7. ASSUME NextMatch \/ AttemptFails \/ ReifyHalfFails PROVE tier1' = {} /\ tier2' = {}
  BY <1>7 DEF NextMatch, AttemptFails, ReifyHalfFails, StartOver, Fresh
<1>8. ASSUME (\E m \in Matches : IngestPatternMatch(m)) \/ (\E machine \in Machines : AddIntervention(machine))
               \/ Reason \/ ValidateConfidence \/ EmitAlert \/ ReifyMemory \/ EmitTrainingRecord
               \/ UNCHANGED vars
      PROVE  tier1' = tier1 /\ tier2' = tier2 /\ match' = match
  BY <1>8 DEF IngestPatternMatch, AddIntervention, Reason, ValidateConfidence, EmitAlert, ReifyMemory,
     EmitTrainingRecord, vars
<1> QED
  BY <1>1, <1>3, <1>4, <1>5, <1>6, <1>7, <1>8 DEF HistoryInv, Next, Node

LEMMA HistoryInvariant == Spec => []HistoryInv
BY HistoryInit, HistoryStep, MemoryTypeCorrect, PTL DEF Spec

\* HistoryStaysTrue: the kind a fact had when it was found is its kind for
\* ever, however many episodes are listed under it later.
THEOREM HistoryIsStable == Spec => []HistoryStaysTrue
<1>1. HistoryInv => HistoryStaysTrue
  BY DEF HistoryInv
<1> QED
  BY <1>1, HistoryInvariant, PTL

\* HistoryIsTwoTiers: disjoint tiers of the match's machine, within their
\* limits, although the memory is written between the two searches.
THEOREM TiersAreDisjoint == Spec => []HistoryIsTwoTiers
<1>1. HistoryInv => HistoryIsTwoTiers
  BY DEF HistoryInv, HistoryTyped, HistoryStaysTrue, HistoryIsTwoTiers, TIER1_TYPES, TIER2_TYPES
<1> QED
  BY <1>1, HistoryInvariant, PTL

------------------------------------------------------------------------------
(* The confidence, and what is made of it.                                  *)

Scaled ==
    /\ anchors = 0 => final <= 30
    /\ final >= 70 => anchors >= 3
    /\ final >= 90 => HasOutcome
    /\ final <= raw
    /\ final < raw => flags # {}
    /\ anchors >= 3 /\ raw < 90 => final = raw /\ flags = {}

Raised == pc \in {"reify_memory", "emit_training_record", "done"}

AlertInv ==
    /\ Validated => Scaled
    /\ Raised => ThisAlert \in alerts
    /\ RememberedWasRaised
    /\ NoTopTierYet

\* No outcome is in the memory, so none is in the history.
LEMMA NoOutcomeFound ==
    ASSUME TypeOK, HistoryInv
    PROVE  ~HasOutcome
<1> SUFFICES ASSUME NEW e \in tier1 \cup tier2, e.type = "outcome" PROVE FALSE
  BY DEF HasOutcome
<1>1. e.fact \in Facts /\ e.type \in EpisodeTypes /\ e.type = FirstKnown(sources[e.fact])
  BY DEF TypeOK, Retrieved, HistoryInv, HistoryStaysTrue
<1>2. sources[e.fact] \in Seq(Sources) /\ HasFirst(sources[e.fact])
  BY <1>1 DEF TypeOK, HistoryInv, SourcesFirst
<1>3. PICK i \in DOMAIN sources[e.fact] : sources[e.fact][i].type = "outcome"
  BY <1>1, <1>2, TypeHasSource
<1> QED
  BY <1>1, <1>3 DEF HistoryInv, NoOutcomeYet

LEMMA AlertInit == Init => AlertInv
BY DEF Init, AlertInv, Validated, Raised, RememberedWasRaised, NoTopTierYet

LEMMA AlertStep == TypeOK /\ HistoryInv /\ AlertInv /\ [Next]_vars => AlertInv'
<1> SUFFICES ASSUME TypeOK, HistoryInv, AlertInv, [Next]_vars PROVE AlertInv'
  OBVIOUS
<1> USE DEF memory, state, effects
<1>1. ASSUME UNCHANGED <<match, attempt, pc, state, effects>> PROVE AlertInv'
  BY <1>1 DEF AlertInv, Validated, Scaled, HasOutcome, Raised, ThisAlert, RememberedWasRaised, NoTopTierYet
<1>2. ASSUME pc' \in {"tier1", "tier2", "reason", "validate_confidence"}, UNCHANGED <<alerts, training>>,
             remembered' \subseteq alerts
      PROVE  AlertInv'
  BY <1>2 DEF AlertInv, Validated, Raised, RememberedWasRaised, NoTopTierYet
<1>3. CASE \/ \E m \in Matches : IngestPatternMatch(m)
           \/ \E machine \in Machines : AddIntervention(machine)
           \/ UNCHANGED vars
  BY <1>1, <1>3 DEF IngestPatternMatch, AddIntervention, vars
<1>4. CASE RetrieveTier1 \/ RetrieveTier2 \/ Reason \/ NextMatch \/ AttemptFails
  BY <1>2, <1>4 DEF RetrieveTier1, RetrieveTier2, Reason, NextMatch, AttemptFails, StartOver,
     AlertInv, RememberedWasRaised
<1>5. CASE ValidateConfidence
  <2>1. HasOutcome' = HasOutcome /\ HasOutcome \in BOOLEAN
    BY <1>5 DEF ValidateConfidence, HasOutcome
  <2>2. Scaled'
    <3>1. raw \in 0 .. 100 /\ anchors \in Nat /\ raw' = raw /\ anchors' = anchors
      BY <1>5 DEF ValidateConfidence, TypeOK
    <3>2. /\ anchors = 0 => final' <= 30
          /\ final' >= 70 => anchors >= 3
          /\ final' >= 90 => HasOutcome
          /\ final' <= raw
          /\ final' < raw => flags' # {}
          /\ anchors >= 3 /\ raw < 90 => final' = raw /\ flags' = {}
      BY <1>5, <2>1, <3>1, ChecksCap DEF ValidateConfidence
    <3> QED
      BY <2>1, <3>1, <3>2 DEF Scaled
  <2> QED
    BY <1>5, <2>2 DEF ValidateConfidence, AlertInv, Raised, RememberedWasRaised, NoTopTierYet
<1>6. CASE EmitAlert
  <2>1. Scaled /\ Scaled' /\ ThisAlert' = ThisAlert
    BY <1>6 DEF EmitAlert, AlertInv, Validated, Scaled, HasOutcome, ThisAlert
  <2>2. final < 90
    BY <2>1, NoOutcomeFound DEF Scaled, TypeOK
  <2>3. ThisAlert.final < 90
    BY <2>2 DEF ThisAlert
  <2> QED
    BY <1>6, <2>1, <2>3 DEF EmitAlert, AlertInv, RememberedWasRaised, NoTopTierYet
<1>7. ASSUME pc = "reify_memory" \/ pc = "emit_training_record"
      PROVE  ThisAlert \in alerts /\ Scaled
  BY <1>7 DEF AlertInv, Raised, Validated
<1>8. CASE ReifyMemory
  <2>1. Scaled' /\ ThisAlert' = ThisAlert
    BY <1>7, <1>8 DEF ReifyMemory, Scaled, HasOutcome, ThisAlert
  <2> QED
    BY <1>7, <1>8, <2>1 DEF ReifyMemory, AddAlertEpisode, AlertInv, RememberedWasRaised, NoTopTierYet
<1>9. CASE EmitTrainingRecord
  <2>1. Scaled' /\ ThisAlert' = ThisAlert
    BY <1>7, <1>9 DEF EmitTrainingRecord, Scaled, HasOutcome, ThisAlert
  <2> QED
    BY <1>7, <1>9, <2>1 DEF EmitTrainingRecord, AlertInv, RememberedWasRaised, NoTopTierYet
<1>10. CASE ReifyHalfFails
  <2>1. remembered' \subseteq alerts
    BY <1>7, <1>10 DEF ReifyHalfFails, AddAlertEpisode, AlertInv, RememberedWasRaised
  <2> QED
    BY <1>2, <1>10, <2>1 DEF ReifyHalfFails, AddAlertEpisode, StartOver
<1> QED
  BY <1>3, <1>4, <1>5, <1>6, <1>8, <1>9, <1>10 DEF Next, Node

LEMMA AlertInvariant == Spec => []AlertInv
BY AlertInit, AlertStep, MemoryTypeCorrect, HistoryInvariant, PTL DEF Spec

\* AlertsObeyTiers: the scale of validate_confidence over its three checks.
THEOREM ScaleHolds == Spec => []AlertsObeyTiers
<1>1. AlertInv => AlertsObeyTiers
  BY DEF AlertInv, Scaled, AlertsObeyTiers
<1> QED
  BY <1>1, AlertInvariant, PTL

\* LoweredIsFlagged: a cap is never silent, and nothing is capped without need.
THEOREM CapsAreFlagged == Spec => []LoweredIsFlagged
<1>1. AlertInv => LoweredIsFlagged
  BY DEF AlertInv, Scaled, LoweredIsFlagged
<1> QED
  BY <1>1, AlertInvariant, PTL

\* NoTopTierYet: as long as nothing writes outcomes, no alert reaches 0.9.
THEOREM TopTierUnreachable == Spec => []NoTopTierYet
<1>1. AlertInv => NoTopTierYet
  BY DEF AlertInv
<1> QED
  BY <1>1, AlertInvariant, PTL

\* RememberedWasRaised: memory and training repeat only what went out.
THEOREM MemoryIsHonest == Spec => []RememberedWasRaised
<1>1. AlertInv => RememberedWasRaised
  BY DEF AlertInv
<1> QED
  BY <1>1, AlertInvariant, PTL

------------------------------------------------------------------------------
(* The agent's own alert.                                                   *)

Before == {"tier1", "tier2", "reason", "validate_confidence", "emit_alert", "reify_memory"}

OwnInv ==
    \A f \in Facts, m \in Matches :
        OwnAlert(sources[f], m) => /\ m <= match
                                   /\ m = match /\ pc \in Before => attempt > 0

LEMMA OwnInit == Init => OwnInv
BY DEF Init, OwnInv, OwnAlert, NoType

\* An alert in the memory is an older one, or the one just written.
LEMMA OwnAlertsWritten ==
    ASSUME TypeOK, [Next]_vars, NEW f \in Facts, NEW m \in Matches, OwnAlert(sources'[f], m)
    PROVE  OwnAlert(sources[f], m) \/ (pc = "reify_memory" /\ m = match)
<1>1. CASE sources' = sources
  BY <1>1
<1>2. ASSUME NEW e \in Sources, Writes(e), sources'[f] = Append(sources[f], e)
      PROVE  OwnAlert(sources[f], m) \/ (pc = "reify_memory" /\ m = match)
  <2>1. PICK i \in DOMAIN sources'[f] : sources'[f][i] = [type |-> "agent_alert", match |-> m]
    BY DEF OwnAlert
  <2>2. sources[f] \in Seq(Sources)
    BY DEF TypeOK
  <2>3. sources'[f][i] = e \/ (i \in DOMAIN sources[f] /\ sources'[f][i] = sources[f][i])
    BY <1>2, <2>1, <2>2
  <2> QED
    BY <1>2, <2>1, <2>3 DEF Writes, OwnAlert
<1>3. ASSUME NEW e \in Sources, Writes(e) PROVE sources'[f] = sources[f] \/ sources'[f] = Append(sources[f], e)
  BY <1>3 DEF Writes, Appended
<1> QED
  BY <1>1, <1>2, <1>3, StepWrites

LEMMA OwnStep == TypeOK /\ OwnInv /\ [Next]_vars => OwnInv'
<1> SUFFICES ASSUME TypeOK, OwnInv, [Next]_vars, NEW f \in Facts, NEW m \in Matches,
                    OwnAlert(sources'[f], m)
             PROVE  m <= match' /\ (m = match' /\ pc' \in Before => attempt' > 0)
  BY DEF OwnInv
<1> USE DEF memory, state, effects
<1>1. OwnAlert(sources[f], m) \/ (pc = "reify_memory" /\ m = match)
  BY OwnAlertsWritten
<1>2. m <= match
  BY <1>1, MatchesAreInts DEF OwnInv, TypeOK
<1>3. match \in Nat /\ m \in Nat /\ attempt \in Nat
  BY MatchesAreInts, MemoryAssumption DEF TypeOK
<1>4. CASE NextMatch
  BY <1>2, <1>3, <1>4 DEF NextMatch
<1>5. CASE AttemptFails \/ ReifyHalfFails
  BY <1>2, <1>3, <1>5 DEF AttemptFails, ReifyHalfFails, StartOver
<1>6. CASE ReifyMemory
  BY <1>2, <1>6 DEF ReifyMemory, Before
<1>7. ASSUME match' = match, attempt' = attempt, OwnAlert(sources[f], m), pc' \in Before => pc \in Before
      PROVE  m <= match' /\ (m = match' /\ pc' \in Before => attempt' > 0)
  BY <1>2, <1>7 DEF OwnInv
<1>8. CASE RetrieveTier1 \/ RetrieveTier2 \/ Reason \/ ValidateConfidence \/ EmitAlert
             \/ EmitTrainingRecord \/ UNCHANGED vars
  <2>1. match' = match /\ attempt' = attempt /\ sources' = sources
    BY <1>8 DEF RetrieveTier1, RetrieveTier2, Reason, ValidateConfidence, EmitAlert, EmitTrainingRecord, vars
  <2>2. pc' \in Before => pc \in Before
    BY <1>8 DEF RetrieveTier1, RetrieveTier2, Reason, ValidateConfidence, EmitAlert, EmitTrainingRecord, vars, Before
  <2> QED
    BY <1>7, <2>1, <2>2
<1>9. CASE (\E k \in Matches : IngestPatternMatch(k)) \/ (\E machine \in Machines : AddIntervention(machine))
  <2>1. match' = match /\ attempt' = attempt /\ pc' = pc
    BY <1>9 DEF IngestPatternMatch, AddIntervention
  <2>2. OwnAlert(sources[f], m)
    <3>1. ASSUME NEW machine, NEW type \in EpisodeTypes \ {"agent_alert"}, NEW k \in Matches \cup {NoMatch},
                 AddEpisode(machine, type, k)
          PROVE  OwnAlert(sources[f], m)
      <4>1. Appended([type |-> type, match |-> k])
        BY <3>1, AddEpisodeAppends
      <4>2. PICK i \in DOMAIN sources'[f] : sources'[f][i] = [type |-> "agent_alert", match |-> m]
        BY DEF OwnAlert
      <4>3. sources[f] \in Seq(Sources)
        BY DEF TypeOK
      <4>4. CASE sources'[f] = sources[f]
        BY <4>4 DEF OwnAlert
      <4>5. CASE sources'[f] = Append(sources[f], [type |-> type, match |-> k])
        <5>1. sources'[f][i] = [type |-> type, match |-> k] \/ (i \in DOMAIN sources[f] /\ sources'[f][i] = sources[f][i])
          BY <4>2, <4>3, <4>5
        <5>2. [type |-> type, match |-> k] # [type |-> "agent_alert", match |-> m]
          OBVIOUS
        <5> QED
          BY <4>2, <5>1, <5>2 DEF OwnAlert
      <4> QED
        BY <4>1, <4>4, <4>5 DEF Appended
    <3> QED
      BY <1>9, <3>1 DEF IngestPatternMatch, AddIntervention, EpisodeTypes, TIER1_TYPES
  <2> QED
    BY <1>7, <2>1, <2>2
<1> QED
  BY <1>4, <1>5, <1>6, <1>8, <1>9 DEF Next, Node

\* OwnAlertMeansRetry: what the agent reads as a prior alert on the very match
\* it handles was written by an attempt that failed.
THEOREM OwnAlertIsARetry == Spec => []OwnAlertMeansRetry
<1>1. TypeOK /\ OwnInv => OwnAlertMeansRetry
  <2> SUFFICES ASSUME TypeOK, OwnInv, NEW e \in tier1 \cup tier2, pc \in Before \ {"tier1"},
                      NEW i \in DOMAIN sources[e.fact],
                      sources[e.fact][i] = [type |-> "agent_alert", match |-> match]
               PROVE  attempt > 0
    BY DEF OwnAlertMeansRetry, Before
  <2>1. e.fact \in Facts /\ match \in Matches
    BY DEF TypeOK, Retrieved
  <2>2. OwnAlert(sources[e.fact], match)
    BY DEF OwnAlert
  <2> QED
    BY <2>1, <2>2 DEF OwnInv
<1> QED
  BY <1>1, OwnInit, OwnStep, MemoryTypeCorrect, PTL DEF Spec

=============================================================================
