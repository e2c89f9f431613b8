--------------------------- MODULE PatternIngester ---------------------------
(***************************************************************************)
(* The Graphiti ingester: consumers/pattern_ingester.py around             *)
(* graphiti_layer.ingest_pattern_match.  It reads the same topics as the   *)
(* agent under its own group, from the earliest record, and writes one     *)
(* pattern_occurrence episode per match.  Which failures it retries and    *)
(* which it skips depends only on whether the exception is a ValueError.   *)
(***************************************************************************)
EXTENDS KafkaLog

CONSTANTS
    GraphitiValueErrors,    \* TRUE: a call into Graphiti may itself fail with a ValueError
    MaxFaults               \* bound: crashes, signals, failed calls

ASSUME IngesterAssumption == /\ GraphitiValueErrors \in BOOLEAN
                             /\ MaxFaults \in Nat

VARIABLES
    log, committed,     \* the pattern topics and the group's offsets (broker)
    assigned, position, \* the consumer's assignment and next fetch offsets
    pc, cur,            \* where the process is, and the record being handled
    stop,               \* the stop event
    occurrences,        \* pattern_occurrence episodes written per record
    skipped,            \* records reported by log.error as skipped
    faults              \* disturbances so far

kafka == <<log, committed>>
loop  == <<assigned, position>>
vars  == <<log, committed, assigned, position, pc, cur, stop, occurrences, skipped, faults>>

AutoOffsetReset == "earliest"
NoRecord == <<>>
Stages == {"down", "idle", "decode", "format", "write", "skip", "commit", "seek", "sleep", "closing"}

TypeOK ==
    /\ log \in Logs
    /\ \A p \in Partitions : Len(log[p]) <= MaxLog
    /\ committed \in [Partitions -> Nat \cup {NoOffset}]
    /\ assigned \in SUBSET Partitions
    /\ position \in [Partitions -> Nat]
    /\ pc \in Stages
    /\ cur \in Records \cup {NoRecord}
    /\ stop \in BOOLEAN
    /\ occurrences \in [Records -> Nat]
    /\ skipped \subseteq Records
    /\ faults \in 0 .. MaxFaults

Init ==
    /\ log = [p \in Partitions |-> <<>>]
    /\ committed = [p \in Partitions |-> NoOffset]
    /\ assigned = {} /\ position = [p \in Partitions |-> 0]
    /\ pc = "down" /\ cur = NoRecord /\ stop = FALSE
    /\ occurrences = [r \in Records |-> 0] /\ skipped = {}
    /\ faults = 0

------------------------------------------------------------------------------
Publish(p, k) ==
    /\ Len(log[p]) < MaxLog
    /\ log' = Published(log, p, k)
    /\ UNCHANGED <<committed, loop, pc, cur, stop, occurrences, skipped, faults>>

\* New topics D match the regex: every partition resumes at its commit (served
\* inside poll, as the agent's).
Rebalance(D) ==
    /\ pc = "idle" /\ D # {} /\ D \cap assigned = {}
    /\ assigned' = assigned \cup D
    /\ position' = [p \in Partitions |->
                      IF p \in assigned' THEN ResumeAt(log, committed, p, AutoOffsetReset)
                                         ELSE position[p]]
    /\ UNCHANGED <<kafka, pc, cur, stop, occurrences, skipped, faults>>

Start ==
    /\ pc = "down" /\ pc' = "idle"
    /\ UNCHANGED <<kafka, loop, cur, stop, occurrences, skipped, faults>>

Gone ==
    /\ pc' = "down" /\ cur' = NoRecord /\ stop' = FALSE /\ assigned' = {}
    /\ UNCHANGED <<kafka, position, occurrences, skipped>>

Crash ==
    /\ pc # "down" /\ faults < MaxFaults
    /\ Gone
    /\ faults' = faults + 1

Signal ==
    /\ pc # "down" /\ ~stop /\ faults < MaxFaults
    /\ stop' = TRUE /\ faults' = faults + 1
    /\ UNCHANGED <<kafka, loop, pc, cur, occurrences, skipped>>

\* The handler returned: the loop tests the stop event, then polls.
NextTurn ==
    /\ cur' = NoRecord
    /\ pc' = IF stop THEN "closing" ELSE "idle"

Close ==
    /\ pc = "closing" \/ (pc = "idle" /\ stop)
    /\ Gone
    /\ UNCHANGED faults

Poll(p) ==
    /\ pc = "idle"
    /\ p \in assigned /\ position[p] < Len(log[p])
    /\ cur' = <<p, position[p]>>
    /\ position' = [position EXCEPT ![p] = @ + 1]
    /\ pc' = "decode"
    /\ UNCHANGED <<kafka, assigned, stop, occurrences, skipped, faults>>

------------------------------------------------------------------------------
(* _handle_message.                                                         *)

Kind == KindAt(log, cur)

Goto(stage) ==
    /\ pc' = stage
    /\ UNCHANGED <<kafka, loop, cur, stop, occurrences, skipped>>

Decode ==
    /\ pc = "decode" /\ Kind # "undecodable"
    /\ Goto(IF Kind = "bad_json" THEN "skip" ELSE "format")
    /\ UNCHANGED faults

\* An exception of json.loads other than JSONDecodeError leaves run().
DecodeDies ==
    /\ pc = "decode" /\ Kind = "undecodable"
    /\ Gone
    /\ UNCHANGED faults

\* Formatting a payload, with the stage that follows a payload the formatter
\* refuses and one it trips over.
Format(refused, tripped) ==
    /\ pc = "format"
    /\ Goto(CASE Kind = "invalid"  -> refused
              [] Kind = "hopeless" -> tripped
              [] OTHER             -> "write")
    /\ UNCHANGED faults

\* Mutants of FormatEpisode: every exception is poison; every one is transient.
FormatEpisode_AllPoison    == Format("skip", "skip")
FormatEpisode_AllTransient == Format("seek", "seek")

\* ingest_pattern_match: format_pattern_match_episode, before any call to
\* Graphiti.  A refused payload is a ValueError; a payload the formatter trips
\* over (pattern_match["source_events"] missing) is a KeyError, hence "transient".
FormatEpisode == Format("skip", "seek")

\* graphiti.add_episode.
AddEpisode ==
    /\ pc = "write"
    /\ occurrences' = [occurrences EXCEPT ![cur] = @ + 1]
    /\ pc' = "commit"
    /\ UNCHANGED <<kafka, loop, cur, stop, skipped, faults>>

\* add_episode fails, before or after its write reached Neo4j.
AddEpisodeFails ==
    /\ pc = "write" /\ faults < MaxFaults
    /\ faults' = faults + 1
    /\ \/ UNCHANGED occurrences
       \/ occurrences' = [occurrences EXCEPT ![cur] = @ + 1]
    /\ pc' = "seek"
    /\ UNCHANGED <<kafka, loop, cur, stop, skipped>>

\* add_episode fails with a ValueError of its own (json.JSONDecodeError and
\* pydantic.ValidationError are ValueErrors): the handler takes it for poison.
AddEpisodeValueError ==
    /\ pc = "write" /\ GraphitiValueErrors /\ faults < MaxFaults
    /\ faults' = faults + 1
    /\ Goto("skip")

Skip ==
    /\ pc = "skip"
    /\ skipped' = skipped \cup {cur}
    /\ committed' = [committed EXCEPT ![cur[1]] = cur[2] + 1]
    /\ NextTurn
    /\ UNCHANGED <<log, loop, stop, occurrences, faults>>

\* Mutant of Commit: the seek back is done on success too.
Commit_SeeksBack ==
    /\ pc = "commit"
    /\ committed' = [committed EXCEPT ![cur[1]] = cur[2] + 1]
    /\ position' = [position EXCEPT ![cur[1]] = cur[2]]
    /\ NextTurn
    /\ UNCHANGED <<log, assigned, stop, occurrences, skipped, faults>>

Commit ==
    /\ pc = "commit"
    /\ committed' = [committed EXCEPT ![cur[1]] = cur[2] + 1]
    /\ NextTurn
    /\ UNCHANGED <<log, loop, stop, occurrences, skipped, faults>>

SeekTo(offset) ==
    /\ pc = "seek"
    /\ position' = [position EXCEPT ![cur[1]] = offset]
    /\ pc' = "sleep"
    /\ UNCHANGED <<kafka, assigned, cur, stop, occurrences, skipped, faults>>

\* Mutants of SeekBack: one record too far; not at all.
SeekBack_OneBefore == SeekTo(cur[2] - 1)
SeekBack_Forgotten == SeekTo(position[cur[1]])

\* Do not commit; seek back, then sleep RETRY_BACKOFF_SECONDS.
SeekBack == SeekTo(cur[2])

Wake ==
    /\ pc = "sleep"
    /\ NextTurn
    /\ UNCHANGED <<kafka, loop, stop, occurrences, skipped, faults>>

------------------------------------------------------------------------------
Handle == \/ Decode \/ DecodeDies \/ FormatEpisode \/ AddEpisode
          \/ Skip \/ Commit \/ SeekBack \/ Wake

Fault == Crash \/ Signal \/ AddEpisodeFails \/ AddEpisodeValueError

Next == \/ \E p \in Partitions, k \in Kinds : Publish(p, k)
        \/ \E D \in SUBSET Partitions : Rebalance(D)
        \/ \E p \in Partitions : Poll(p)
        \/ Start \/ Close \/ Handle \/ Fault

Spec == Init /\ [][Next]_vars

\* The same assumptions as the agent's: restart policy, every await ends, the
\* rebalance completes, and the fetch queue serves each partition in turn.
Fairness ==
    /\ WF_vars(Start) /\ WF_vars(Close) /\ WF_vars(Handle)
    /\ \A p \in Partitions :
          /\ SF_vars(\E D \in SUBSET Partitions : p \in D /\ Rebalance(D))
          /\ SF_vars(Poll(p))

FairSpec == Spec /\ Fairness

------------------------------------------------------------------------------
(* Properties.                                                              *)

Done(p) == IF committed[p] = NoOffset THEN 0 ELSE committed[p]

\* "a crash mid-ingest replays the message rather than dropping it"
\* (pattern_ingester.py:6-7): a record behind the committed offset has its
\* episode, or was reported as skipped.
IngestedOrReported ==
    \A p \in Partitions : \A o \in 0 .. Done(p) - 1 :
        occurrences[<<p, o>>] > 0 \/ <<p, o>> \in skipped

\* A record's second and later occurrence episodes are each paid for by a
\* crash or a failed write.  (episode_formatter.py:41-42 and
\* docs/architecture.md:77-78 say a repeated write is deduplicated; the code
\* hands add_episode no identity of the occurrence, and each call adds one.)
ReplaysNeedFaults == \A r \in Records : occurrences[r] <= 1 + faults

\* The two error classes (pattern_ingester.py:9-14): only bad JSON and
\* payloads that fail validation are skipped, a match Graphiti could not take
\* is retried; so a valid match behind the committed offset is in the graph.
ValidIsIngested ==
    \A p \in Partitions : \A o \in 0 .. Done(p) - 1 :
        KindAt(log, <<p, o>>) = "ok" => occurrences[<<p, o>>] > 0

\* Every ok or poison record with only such records before it is committed in
\* the end, even while another partition's record is retried for ever.
EverythingSettles ==
    \A p \in Partitions : \A o \in Offsets :
       (o < Len(log[p]) /\ \A i \in 0 .. o : KindAt(log, <<p, i>>) \in Poison \cup {"ok"})
          ~> Done(p) > o

\* The ingester implements the abstract consumer; it may refuse any record the
\* formatter accepts too, because a ValueError from Graphiti is taken for poison.
Abstract == INSTANCE AtLeastOnce WITH
    settled   <- [p \in Partitions |-> Done(p)],
    processed <- {r \in Records : occurrences[r] > 0},
    refused   <- skipped,
    Refusable <- IF GraphitiValueErrors THEN Poison \cup {"ok"} ELSE Poison

ImplementsAtLeastOnce == Abstract!Spec
==============================================================================
