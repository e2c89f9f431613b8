------------------------------ MODULE MemoryLoop ------------------------------
(***************************************************************************)
(* The agent's memory: graphiti_layer (search_history and the writers of   *)
(* episodes) between the ingester, which writes what was detected, and the *)
(* agent's graph, which reads the history of a machine in two searches,    *)
(* lets the LLM judge, caps its confidence, and writes its own alert back  *)
(* into the memory it will read next time.  How records are polled,        *)
(* committed and retried is AgentConsumer's and PatternIngester's subject; *)
(* here a failure only sends the agent back to the same match, and makes   *)
(* the ingester write an occurrence again.                                 *)
(*                                                                         *)
(* Graphiti itself is external: a fact (an edge of the graph) belongs to   *)
(* one machine's group and lists the episodes it was extracted from, the   *)
(* newest last.  Confidences are in hundredths.                            *)
(***************************************************************************)
EXTENDS Integers, Sequences, FiniteSets

CONSTANTS
    Machines, Facts,
    Group,              \* the machine whose partition a fact is in
    Legacy,             \* facts whose first episode has a description no map entry names
    MatchMachine,       \* the machine of each match, in the order the agent takes them
    Answers,            \* what the LLM may return: [confidence, anchors]
    NaN,                \* a confidence that is not a number
    MaxInterventions,   \* bound: calls of add_intervention
    MaxFacts,           \* bound: facts found in one episode
    MaxRetries,         \* bound: further attempts at each match
    MaxRepeats          \* bound: further occurrences written for a match

Matches == DOMAIN MatchMachine

ASSUME MemoryAssumption ==
    /\ Group \in [Facts -> Machines] /\ Legacy \subseteq Facts
    /\ MatchMachine \in Seq(Machines) /\ MatchMachine # <<>>
    /\ NaN \notin Int
    /\ Answers \subseteq [confidence : Int \cup {NaN}, anchors : Nat]
    /\ MaxFacts \in Nat /\ MaxInterventions \in Nat /\ MaxRetries \in [Matches -> Nat] /\ MaxRepeats \in Nat

TIER1_TYPES == {"pattern_occurrence", "intervention", "outcome"}
TIER2_TYPES == {"agent_alert"}
TIER1_NUM_RESULTS == 4
TIER2_NUM_RESULTS == 1
HYBRID_CANDIDATES == 30

EpisodeTypes == TIER1_TYPES \cup TIER2_TYPES
NoType == "None"
NoMatch == 0
Flags == {"no_anchors", "insufficient_anchors_for_tier", "missing_outcome_for_tier"}

\* One episode as a fact's source: its type, and the match it is about.
Sources == [type : EpisodeTypes \cup {NoType}, match : Matches \cup {NoMatch}]
\* One retrieved Episode.
Retrieved == [fact : Facts, type : EpisodeTypes]
\* What an alert, its episode and its training line say of one attempt.
Alerts == [match : Matches, attempt : Nat,
           raw : 0 .. 100, final : 0 .. 100, flags : SUBSET Flags]

VARIABLES
    sources,                \* Graphiti: the source episodes of each fact
    ingested,               \* occurrences the ingester has written for each match
    interventions,          \* calls of add_intervention so far
    match, attempt, pc,     \* the match the agent handles, how often it failed,
                            \* and the node that runs next
    tier1, tier2,           \* retrieved_episodes
    raw, anchors,           \* confidence_raw, the number of confidence_anchors
    final, flags,           \* confidence_final, validation_flags
    alerts,                 \* alerts produced to Kafka
    remembered,             \* alert episodes written to Graphiti
    training                \* lines of the training file

memory  == <<sources, ingested, interventions>>
state   == <<tier1, tier2, raw, anchors, final, flags>>
effects == <<alerts, remembered, training>>
vars    == <<memory, match, attempt, pc, state, effects>>

Nodes == {"tier1", "tier2", "reason", "validate_confidence", "emit_alert",
          "reify_memory", "emit_training_record", "done"}

TypeOK ==
    /\ sources \in [Facts -> Seq(Sources)]
    /\ ingested \in [Matches -> 0 .. MaxRepeats + 1]
    /\ interventions \in 0 .. MaxInterventions
    /\ match \in Matches /\ attempt \in 0 .. MaxRetries[match] /\ pc \in Nodes
    /\ tier1 \subseteq Retrieved /\ tier2 \subseteq Retrieved
    /\ raw \in 0 .. 100 /\ anchors \in Nat
    /\ final \in 0 .. 100 /\ flags \subseteq Flags
    /\ alerts \subseteq Alerts /\ remembered \subseteq Alerts /\ training \subseteq Alerts

Fresh ==
    /\ tier1' = {} /\ tier2' = {} /\ raw' = 0 /\ anchors' = 0
    /\ final' = 0 /\ flags' = {}

Init ==
    /\ sources = [f \in Facts |->
                    IF f \in Legacy THEN <<[type |-> NoType, match |-> NoMatch]>> ELSE <<>>]
    /\ ingested = [m \in Matches |-> 0] /\ interventions = 0
    /\ match = 1 /\ attempt = 0 /\ pc = "tier1"
    /\ tier1 = {} /\ tier2 = {} /\ raw = 0 /\ anchors = 0 /\ final = 0 /\ flags = {}
    /\ alerts = {} /\ remembered = {} /\ training = {}

------------------------------------------------------------------------------
(* graphiti_layer: the writers.                                             *)

\* graphiti.add_episode: the extraction finds the facts F in the text, new
\* ones or ones the group has already, and lists the episode under each.
AddEpisode(machine, type, m) ==
    \E F \in SUBSET {f \in Facts : Group[f] = machine} :
        /\ Cardinality(F) <= MaxFacts
        /\ sources' = [f \in Facts |->
                         IF f \in F THEN Append(sources[f], [type |-> type, match |-> m])
                                    ELSE sources[f]]

\* The ingester's turn with match m: under its own group, so before, during or
\* after the agent's; a second time only when it was disturbed.
IngestPatternMatch(m) ==
    /\ ingested[m] <= MaxRepeats
    /\ AddEpisode(MatchMachine[m], "pattern_occurrence", m)
    /\ ingested' = [ingested EXCEPT ![m] = @ + 1]
    /\ UNCHANGED <<interventions, match, attempt, pc, state, effects>>

AddIntervention(machine) ==
    /\ interventions < MaxInterventions
    /\ AddEpisode(machine, "intervention", NoMatch)
    /\ interventions' = interventions + 1
    /\ UNCHANGED <<ingested, match, attempt, pc, state, effects>>

------------------------------------------------------------------------------
(* graphiti_layer: search_history.                                          *)

\* Mutant of FirstKnown: the loop without its break.
FirstKnown_Last(s) ==
    LET known == {i \in DOMAIN s : s[i].type \in EpisodeTypes}
    IN  IF known = {} THEN NoType
        ELSE s[CHOOSE i \in known : \A j \in known : i >= j].type

\* The source that decides a fact's type: the first whose description is known.
FirstKnown(s) ==
    LET known == {i \in DOMAIN s : s[i].type \in EpisodeTypes}
    IN  IF known = {} THEN NoType
        ELSE s[CHOOSE i \in known : \A j \in known : i <= j].type

\* Mutant of Candidates: group_ids left None.
Candidates_AnyGroup(machine) ==
    {C \in SUBSET {f \in Facts : sources[f] # <<>>} : Cardinality(C) <= HYBRID_CANDIDATES}

\* What the hybrid search may bring for a query in the machine's group.
Candidates(machine) ==
    {C \in SUBSET {f \in Facts : Group[f] = machine /\ sources[f] # <<>>} :
        Cardinality(C) <= HYBRID_CANDIDATES}

\* The possible results: of the candidates with a wanted type, the num best by
\* a score that may put any of them first.
SearchHistory(machine, types, num) ==
    LET Typed(C)  == {[fact |-> f, type |-> FirstKnown(sources[f])] :
                        f \in {g \in C : FirstKnown(sources[g]) \in types}}
        Top(R)    == {T \in SUBSET R : IF Cardinality(R) <= num THEN T = R
                                                                ELSE Cardinality(T) = num}
    IN  UNION {Top(Typed(C)) : C \in Candidates(machine)}

------------------------------------------------------------------------------
(* The nodes of the agent's graph, after parse_pattern_match.               *)

Machine == MatchMachine[match]

\* retrieve_history awaits two searches; the ingester may write between them.
RetrieveTier1 ==
    /\ pc = "tier1" /\ pc' = "tier2"
    /\ tier1' \in SearchHistory(Machine, TIER1_TYPES, TIER1_NUM_RESULTS)
    /\ UNCHANGED <<memory, match, attempt, tier2, raw, anchors, final, flags, effects>>

RetrieveTier2 ==
    /\ pc = "tier2" /\ pc' = "reason"
    /\ tier2' \in SearchHistory(Machine, TIER2_TYPES, TIER2_NUM_RESULTS)
    /\ UNCHANGED <<memory, match, attempt, tier1, raw, anchors, final, flags, effects>>

Least(a, b) == IF a <= b THEN a ELSE b
Most(a, b)  == IF a >= b THEN a ELSE b

\* Mutant of Clamp: only the upper side.
Clamp_UpperOnly(c) == IF c = NaN THEN 100 ELSE Least(100, c)

\* max(0.0, min(1.0, c)): not a number is not below 1.0, so min keeps 1.0.
Clamp(c) == IF c = NaN THEN 100 ELSE Most(0, Least(100, c))

Reason ==
    /\ pc = "reason" /\ pc' = "validate_confidence"
    /\ \E a \in Answers : raw' = Clamp(a.confidence) /\ anchors' = a.anchors
    /\ UNCHANGED <<memory, match, attempt, tier1, tier2, final, flags, effects>>

\* Mutant of HasOutcome: the documented intervention the prompt asks for.
HasOutcome_Intervention == \E e \in tier1 \cup tier2 : e.type \in {"intervention", "outcome"}

HasOutcome == \E e \in tier1 \cup tier2 : e.type = "outcome"

\* Mutants of CheckScale: the tier's lower bound is left out; the cap is silent.
CheckScale_Above(c, n) ==
    IF c > 70 /\ n < 3 THEN <<Least(c, 60), {"insufficient_anchors_for_tier"}>> ELSE <<c, {}>>
CheckScale_Silent(c, n) ==
    IF c >= 70 /\ n < 3 THEN <<Least(c, 60), {}>> ELSE <<c, {}>>

\* The three checks in the order of the code: each sees the value the one
\* before it left, as <<confidence, flags>>.
CheckAnchors(c, n) ==
    IF n = 0 THEN <<Least(c, 30), {"no_anchors"}>> ELSE <<c, {}>>
CheckScale(c, n) ==
    IF c >= 70 /\ n < 3 THEN <<Least(c, 60), {"insufficient_anchors_for_tier"}>> ELSE <<c, {}>>
CheckOutcome(c, has) ==
    IF c >= 90 /\ ~has THEN <<Least(c, 80), {"missing_outcome_for_tier"}>> ELSE <<c, {}>>

ValidateConfidence ==
    /\ pc = "validate_confidence" /\ pc' = "emit_alert"
    /\ LET first  == CheckAnchors(raw, anchors)
           second == CheckScale(first[1], anchors)
           third  == CheckOutcome(second[1], HasOutcome)
       IN  final' = third[1] /\ flags' = first[2] \cup second[2] \cup third[2]
    /\ UNCHANGED <<memory, match, attempt, tier1, tier2, raw, anchors, effects>>

\* What this attempt says of its match.
ThisAlert == [match |-> match, attempt |-> attempt, raw |-> raw, final |-> final, flags |-> flags]

EmitAlert ==
    /\ pc = "emit_alert" /\ pc' = "reify_memory"
    /\ alerts' = alerts \cup {ThisAlert}
    /\ UNCHANGED <<memory, match, attempt, state, remembered, training>>

\* Mutant of AddAlertEpisode: the confidence before validation.
AddAlertEpisode_Raw ==
    /\ AddEpisode(Machine, "agent_alert", match)
    /\ remembered' = remembered \cup {[ThisAlert EXCEPT !.final = raw]}
    /\ UNCHANGED <<ingested, interventions, alerts>>

\* add_alert_episode: the alert as an episode of the machine's group.
AddAlertEpisode ==
    /\ AddEpisode(Machine, "agent_alert", match)
    /\ remembered' = remembered \cup {ThisAlert}
    /\ UNCHANGED <<ingested, interventions, alerts>>

ReifyMemory ==
    /\ pc = "reify_memory" /\ pc' = "emit_training_record"
    /\ AddAlertEpisode
    /\ UNCHANGED <<match, attempt, state, training>>

EmitTrainingRecord ==
    /\ pc = "emit_training_record" /\ pc' = "done"
    /\ training' = training \cup {ThisAlert}
    /\ UNCHANGED <<memory, match, attempt, state, alerts, remembered>>

------------------------------------------------------------------------------
(* The consumer around the graph.                                           *)

\* Mutant of NextMatch: the commit is forgotten, the match comes again.
NextMatch_Uncommitted ==
    /\ pc = "done" /\ match + 1 \in Matches
    /\ match' \in {match, match + 1} /\ attempt' = 0 /\ pc' = "tier1"
    /\ Fresh
    /\ UNCHANGED <<memory, effects>>

\* The offset is committed and the next match starts with an empty state.
NextMatch ==
    /\ pc = "done" /\ match + 1 \in Matches
    /\ match' = match + 1 /\ attempt' = 0 /\ pc' = "tier1"
    /\ Fresh
    /\ UNCHANGED <<memory, effects>>

\* A node raises, or the process dies: the same match starts over.
StartOver ==
    /\ attempt < MaxRetries[match] /\ attempt' = attempt + 1
    /\ pc' = "tier1"
    /\ Fresh
    /\ UNCHANGED match

AttemptFails ==
    /\ StartOver
    /\ UNCHANGED <<memory, effects>>

\* The episode was written, and the call raised.
ReifyHalfFails ==
    /\ pc = "reify_memory"
    /\ AddAlertEpisode
    /\ StartOver
    /\ UNCHANGED training

Node == RetrieveTier1 \/ RetrieveTier2 \/ Reason \/ ValidateConfidence
            \/ EmitAlert \/ ReifyMemory \/ EmitTrainingRecord

Next ==
    \/ \E m \in Matches : IngestPatternMatch(m)
    \/ \E machine \in Machines : AddIntervention(machine)
    \/ Node
    \/ NextMatch
    \/ AttemptFails
    \/ ReifyHalfFails

Spec == Init /\ [][Next]_vars

------------------------------------------------------------------------------
(* Properties.                                                              *)

\* The history the agent reasons over is of the match's machine only, no fact
\* comes back in both tiers, and its own alerts never fill more than one place
\* beside at most four, whatever is written between the two searches:
\* retrieve_history concatenates them as if they were disjoint.
HistoryIsTwoTiers ==
    /\ \A e \in tier1 \cup tier2 : Group[e.fact] = Machine
    /\ \A d \in tier1, e \in tier2 : d.fact # e.fact
    /\ Cardinality(tier1) <= TIER1_NUM_RESULTS /\ Cardinality(tier2) <= TIER2_NUM_RESULTS

\* The kind search_history gave a fact is still the fact's kind when the LLM
\* reads it and when the training line keeps it, although the ingester, the
\* maintenance staff and the agent itself list further episodes under the
\* same fact in the meantime.
HistoryStaysTrue ==
    \A e \in tier1 \cup tier2 : e.type = FirstKnown(sources[e.fact])

\* What the nodes after validate_confidence publish, remember and train on.
Validated == pc \in {"emit_alert", "reify_memory", "emit_training_record", "done"}

\* validate_confidence's scale, over the three checks together: without an
\* anchor at most 0.3, 0.7 or more only with three, and 0.9 or more only with
\* an outcome in the history.
AlertsObeyTiers ==
    Validated => /\ anchors = 0 => final <= 30
                 /\ final >= 70 => anchors >= 3
                 /\ final >= 90 => HasOutcome

\* The confidence is never raised, and never lowered without a flag that says
\* so; with three anchors and below 0.9 it is left alone.
LoweredIsFlagged ==
    Validated => /\ final <= raw
                 /\ final < raw => flags # {}
                 /\ anchors >= 3 /\ raw < 90 => final = raw /\ flags = {}

\* No alert reaches 0.9: its condition is an outcome episode, and nothing in
\* graphiti_layer writes one (TrainingRecord: outcome_id is "Always None in
\* v1").  Neither interventions nor the agent's own alerts stand in for it.
NoTopTierYet == \A a \in alerts : a.final < 90

\* What is remembered, and what is trained on, is what was raised: every alert
\* episode and every training line repeats an alert that produce() was given in
\* the same attempt, with the same confidence and flags, whichever node failed
\* and however the LLM answered the other times.  Whether that alert was then
\* delivered is not said here (see AgentConsumer's CommittedIsAlerted).
RememberedWasRaised == remembered \cup training \subseteq alerts

\* The agent finds its own alert on the match it is reasoning about, as a
\* prior alert, only when an earlier attempt at the match failed.
OwnAlertMeansRetry ==
    (\E e \in tier1 \cup tier2 :
        /\ pc \in {"tier2", "reason", "validate_confidence", "emit_alert", "reify_memory"}
        /\ [type |-> "agent_alert", match |-> match] \in
               {sources[e.fact][i] : i \in DOMAIN sources[e.fact]})
    => attempt > 0
=============================================================================
