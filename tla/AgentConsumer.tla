---------------------------- MODULE AgentConsumer ----------------------------
(***************************************************************************)
(* The reasoning agent: the outer loop of consumers/agent_consumer.py and  *)
(* the seven LangGraph nodes of agent/, one action per node, with the      *)
(* alert producer's local queue, the Graphiti episodes and the training    *)
(* file as the effects the nodes leave behind.                             *)
(*                                                                         *)
(* One process, one message at a time; what interleaves with it is the     *)
(* broker (publishing, rebalancing, acknowledging alerts), failures of the *)
(* services a node calls, SIGTERM, and a crash between any two steps.      *)
(***************************************************************************)
EXTENDS KafkaLog, FiniteSets

CONSTANTS
    Established,    \* TRUE: the group has committed on every partition before
    MaxFaults       \* bound: crashes, signals, failed calls

ASSUME AgentAssumption == /\ Established \in BOOLEAN
                          /\ MaxFaults \in Nat

VARIABLES
    log,            \* the pattern topics (broker)
    committed,      \* the group's committed offset per partition (broker)
    assigned,       \* partitions the running consumer was assigned
    position,       \* the consumer's next fetch offset per partition
    pc,             \* where the process is
    cur,            \* the record being handled
    delay,          \* _BackoffState._delay, seconds
    pause,          \* the delay asyncio.sleep is serving, 0 when awake
    stop,           \* the stop event set by SIGINT / SIGTERM
    produced,       \* produce() calls made for the alert of each record
    outbox,         \* alerts still in the producer's local queue
    acked,          \* alerts on harmonicmesh.alerts.<machine>
    episodes,       \* agent_alert episodes written to Graphiti
    training,       \* lines appended to the training file
    faults          \* disturbances so far

kafka   == <<log, committed>>
loop    == <<assigned, position>>
retry   == <<delay, pause>>
alerts  == <<produced, outbox, acked>>
effects == <<produced, outbox, acked, episodes, training>>
vars    == <<log, committed, assigned, position, pc, cur, delay, pause, stop,
             produced, outbox, acked, episodes, training, faults>>

INITIAL_BACKOFF_SECONDS == 2
MAX_BACKOFF_SECONDS == 60
AutoOffsetReset == "latest"

NoRecord == <<>>

\* The compiled graph, in edge order.
Nodes == {"parse", "retrieve", "reason", "validate", "emit", "reify", "train"}
Busy  == Nodes \cup {"decode", "skip", "commit", "seek", "sleep"}
Stages == Busy \cup {"down", "idle", "closing"}

None == [r \in Records |-> 0]
Incremented(f, r) == [f EXCEPT ![r] = @ + 1]

TypeOK ==
    /\ log \in Logs
    /\ \A p \in Partitions : Len(log[p]) <= MaxLog
    /\ committed \in [Partitions -> Nat \cup {NoOffset}]
    /\ assigned \in SUBSET Partitions
    /\ position \in [Partitions -> Nat]
    /\ pc \in Stages
    /\ cur \in Records \cup {NoRecord}
    /\ delay \in INITIAL_BACKOFF_SECONDS .. MAX_BACKOFF_SECONDS
    /\ pause \in 0 .. MAX_BACKOFF_SECONDS
    /\ stop \in BOOLEAN
    /\ produced \in [Records -> Nat]
    /\ outbox \in [Records -> Nat]
    /\ acked \in [Records -> Nat]
    /\ episodes \in [Records -> Nat]
    /\ training \in [Records -> Nat]
    /\ faults \in 0 .. MaxFaults

Init ==
    /\ log = [p \in Partitions |-> <<>>]
    /\ committed = [p \in Partitions |-> IF Established THEN 0 ELSE NoOffset]
    /\ assigned = {}
    /\ position = [p \in Partitions |-> 0]
    /\ pc = "down" /\ cur = NoRecord
    /\ delay = INITIAL_BACKOFF_SECONDS /\ pause = 0
    /\ stop = FALSE
    /\ produced = None /\ outbox = None /\ acked = None
    /\ episodes = None /\ training = None
    /\ faults = 0

------------------------------------------------------------------------------
(* The broker.                                                              *)

\* A Flink job publishes a pattern match.
Publish(p, k) ==
    /\ Len(log[p]) < MaxLog
    /\ log' = Published(log, p, k)
    /\ UNCHANGED <<committed, loop, pc, cur, retry, stop, effects, faults>>

\* The regex subscription finds new partitions D: the group rebalances, and
\* every partition of the consumer resumes at its committed offset.  The Python
\* client serves the rebalance inside poll, so no message is in hand.
Rebalance(D) ==
    /\ pc = "idle" /\ D # {} /\ D \cap assigned = {}
    /\ assigned' = assigned \cup D
    /\ position' = [p \in Partitions |->
                      IF p \in assigned' THEN ResumeAt(log, committed, p, AutoOffsetReset)
                                         ELSE position[p]]
    /\ UNCHANGED <<kafka, pc, cur, retry, stop, effects, faults>>

\* The producer's background thread gets an alert acknowledged ...
Acknowledge(r) ==
    /\ pc # "down" /\ outbox[r] > 0
    /\ outbox' = [outbox EXCEPT ![r] = @ - 1]
    /\ acked' = Incremented(acked, r)
    /\ UNCHANGED <<kafka, loop, pc, cur, retry, stop, produced, episodes, training, faults>>

\* ... or gives up on it: no delivery callback is registered.
Expire(r) ==
    /\ pc # "down" /\ outbox[r] > 0
    /\ outbox' = [outbox EXCEPT ![r] = @ - 1]
    /\ UNCHANGED <<kafka, loop, pc, cur, retry, stop, produced, acked, episodes, training, faults>>

------------------------------------------------------------------------------
(* The process: run().                                                      *)

\* The container starts: Graphiti is loaded, the graph compiled, the
\* subscription made, and a fresh _BackoffState created.
Start ==
    /\ pc = "down"
    /\ pc' = "idle"
    /\ delay' = INITIAL_BACKOFF_SECONDS
    /\ UNCHANGED <<kafka, loop, cur, pause, stop, effects, faults>>

\* What is left of the process when it is gone.
Gone ==
    /\ pc' = "down" /\ cur' = NoRecord /\ pause' = 0 /\ stop' = FALSE
    /\ assigned' = {}
    /\ outbox' = None

\* The process dies: killed, or an exception (a failed commit or seek) leaves run().
Crash ==
    /\ pc # "down" /\ faults < MaxFaults
    /\ Gone
    /\ faults' = faults + 1
    /\ UNCHANGED <<kafka, position, delay, produced, acked, episodes, training>>

Signal ==
    /\ pc # "down" /\ ~stop /\ faults < MaxFaults
    /\ stop' = TRUE
    /\ faults' = faults + 1
    /\ UNCHANGED <<kafka, loop, pc, cur, retry, effects>>

\* The handler returned: `while not stop.is_set()`, then poll.
NextTurn ==
    /\ cur' = NoRecord
    /\ pc' = IF stop THEN "closing" ELSE "idle"

\* The loop sees the stop event, after a message or after an empty poll, and
\* closes the consumer.
Close ==
    /\ pc = "closing" \/ (pc = "idle" /\ stop)
    /\ Gone
    /\ UNCHANGED <<kafka, position, delay, produced, acked, episodes, training, faults>>

\* consumer.poll returns the next record of p.  A poll already waiting when
\* the signal arrives still returns a record, and that record is handled.
Poll(p) ==
    /\ pc = "idle"
    /\ p \in assigned /\ position[p] < Len(log[p])
    /\ cur' = <<p, position[p]>>
    /\ position' = [position EXCEPT ![p] = @ + 1]
    /\ pc' = "decode"
    /\ UNCHANGED <<kafka, assigned, retry, stop, effects, faults>>

------------------------------------------------------------------------------
(* _handle_message.                                                         *)

Kind == KindAt(log, cur)

\* json.loads succeeds: the graph is invoked.
Decode ==
    /\ pc = "decode" /\ Kind \notin {"bad_json", "undecodable"}
    /\ pc' = "parse"
    /\ UNCHANGED <<kafka, loop, cur, retry, stop, effects, faults>>

DecodeFails ==
    /\ pc = "decode" /\ Kind = "bad_json"
    /\ pc' = "skip"
    /\ UNCHANGED <<kafka, loop, cur, retry, stop, effects, faults>>

\* Only JSONDecodeError is caught: any other exception of json.loads leaves
\* _handle_message and run(), and the container restarts.
DecodeDies ==
    /\ pc = "decode" /\ Kind = "undecodable"
    /\ Gone
    /\ UNCHANGED <<kafka, position, delay, produced, acked, episodes, training, faults>>

CommitCurrent ==
    committed' = [committed EXCEPT ![cur[1]] = cur[2] + 1]

\* A poison record is committed; the backoff is left as it is.
Skip ==
    /\ pc = "skip"
    /\ CommitCurrent
    /\ NextTurn
    /\ UNCHANGED <<log, loop, retry, stop, effects, faults>>

\* Mutant of Commit: the offset is never committed.
Commit_Forgotten ==
    /\ pc = "commit"
    /\ delay' = INITIAL_BACKOFF_SECONDS
    /\ NextTurn
    /\ UNCHANGED <<kafka, loop, pause, stop, effects, faults>>

\* Mutant of Commit: the seek back is done on success too.
Commit_SeeksBack ==
    /\ pc = "commit"
    /\ CommitCurrent
    /\ delay' = INITIAL_BACKOFF_SECONDS
    /\ position' = [position EXCEPT ![cur[1]] = cur[2]]
    /\ NextTurn
    /\ UNCHANGED <<log, assigned, pause, stop, effects, faults>>

\* The graph returned: commit, then reset the backoff.
Commit ==
    /\ pc = "commit"
    /\ CommitCurrent
    /\ delay' = INITIAL_BACKOFF_SECONDS
    /\ NextTurn
    /\ UNCHANGED <<log, loop, pause, stop, effects, faults>>

Doubled(d) == IF 2 * d < MAX_BACKOFF_SECONDS THEN 2 * d ELSE MAX_BACKOFF_SECONDS

\* Backing off from the current record with the given seek.
BackOff(seek) ==
    /\ pc = "seek"
    /\ pause' = delay /\ delay' = Doubled(delay)
    /\ position' = [position EXCEPT ![cur[1]] = seek]
    /\ pc' = "sleep"
    /\ UNCHANGED <<kafka, assigned, cur, stop, effects, faults>>

\* Mutants of SeekBack: one record too far, not at all.
SeekBack_OneBefore == BackOff(cur[2] - 1)
SeekBack_Forgotten == BackOff(position[cur[1]])

\* Mutant of SeekBack: every assigned partition is sought to the record's offset.
SeekBack_EveryPartition ==
    /\ pc = "seek"
    /\ pause' = delay /\ delay' = Doubled(delay)
    /\ position' = [p \in Partitions |-> IF p \in assigned THEN cur[2] ELSE position[p]]
    /\ pc' = "sleep"
    /\ UNCHANGED <<kafka, assigned, cur, stop, effects, faults>>

\* Any other exception of the graph: take the next delay, seek back, sleep.
\* If the signal comes during the sleep, the sleep is served to its end.
SeekBack == BackOff(cur[2])

Wake ==
    /\ pc = "sleep"
    /\ NextTurn
    /\ pause' = 0
    /\ UNCHANGED <<kafka, loop, delay, stop, effects, faults>>

------------------------------------------------------------------------------
(* The graph's nodes.  A node that raises leaves no state update behind, so *)
(* the next attempt starts from the record again.                           *)

\* Mutant of Edge: memory is reified before the alert is emitted.
Edge_ReifyFirst ==
    [parse |-> "retrieve", retrieve |-> "reason", reason |-> "validate",
     validate |-> "reify", reify |-> "emit", emit |-> "train", train |-> "commit"]

\* The node that follows each node along build_agent's edges.
Edge ==
    [parse |-> "retrieve", retrieve |-> "reason", reason |-> "validate",
     validate |-> "emit", emit |-> "reify", reify |-> "train", train |-> "commit"]

ParsePatternMatch ==
    /\ pc = "parse" /\ Kind # "invalid"
    /\ pc' = Edge.parse
    /\ UNCHANGED <<kafka, loop, cur, retry, stop, effects, faults>>

\* Mutant of ParseRejects: an invalid pattern match is retried.
ParseRejects_Retries ==
    /\ pc = "parse" /\ Kind = "invalid"
    /\ pc' = "seek"
    /\ UNCHANGED <<kafka, loop, cur, retry, stop, effects, faults>>

\* InvalidPatternMatchError.
ParseRejects ==
    /\ pc = "parse" /\ Kind = "invalid"
    /\ pc' = "skip"
    /\ UNCHANGED <<kafka, loop, cur, retry, stop, effects, faults>>

RetrieveHistory ==
    /\ pc = "retrieve"
    /\ pc' = Edge.retrieve
    /\ UNCHANGED <<kafka, loop, cur, retry, stop, effects, faults>>

Reason ==
    /\ pc = "reason" /\ Kind # "hopeless"
    /\ pc' = Edge.reason
    /\ UNCHANGED <<kafka, loop, cur, retry, stop, effects, faults>>

\* The model never returns the required fields for this record.
ReasonNeverSucceeds ==
    /\ pc = "reason" /\ Kind = "hopeless"
    /\ pc' = "seek"
    /\ UNCHANGED <<kafka, loop, cur, retry, stop, effects, faults>>

ValidateConfidence ==
    /\ pc = "validate"
    /\ pc' = Edge.validate
    /\ UNCHANGED <<kafka, loop, cur, retry, stop, effects, faults>>

\* produce() queues the alert; flush() waits until the queue is empty or the
\* timeout passes.  Its result is ignored: the node returns either way.
EmitAlert ==
    /\ pc = "emit"
    /\ produced' = Incremented(produced, cur)
    /\ \/ acked' = [r \in Records |-> acked[r] + Incremented(outbox, cur)[r]]
          /\ outbox' = None
       \/ outbox' = Incremented(outbox, cur) /\ acked' = acked
    /\ pc' = Edge.emit
    /\ UNCHANGED <<kafka, loop, cur, retry, stop, episodes, training, faults>>

ReifyMemory ==
    /\ pc = "reify"
    /\ episodes' = Incremented(episodes, cur)
    /\ pc' = Edge.reify
    /\ UNCHANGED <<kafka, loop, cur, retry, stop, alerts, training, faults>>

\* The write reached Neo4j but the call raised (a lost reply, a failing
\* later step of add_episode).
ReifyHalfFails ==
    /\ pc = "reify" /\ faults < MaxFaults
    /\ episodes' = Incremented(episodes, cur)
    /\ pc' = "seek" /\ faults' = faults + 1
    /\ UNCHANGED <<kafka, loop, cur, retry, stop, alerts, training>>

EmitTrainingRecord ==
    /\ pc = "train"
    /\ training' = Incremented(training, cur)
    /\ pc' = Edge.train
    /\ UNCHANGED <<kafka, loop, cur, retry, stop, alerts, episodes, faults>>

\* Mutant of NodeFails: the failure is swallowed and the record committed.
NodeFails_Swallowed ==
    /\ pc \in {"retrieve", "reason", "emit", "reify", "train"} /\ faults < MaxFaults
    /\ pc' = "commit" /\ faults' = faults + 1
    /\ UNCHANGED <<kafka, loop, cur, retry, stop, effects>>

\* Graphiti, the LLM, the producer's queue or the file system fails before the
\* node had any effect.  parse and validate call nothing that can fail.
NodeFails ==
    /\ pc \in {"retrieve", "reason", "emit", "reify", "train"} /\ faults < MaxFaults
    /\ pc' = "seek" /\ faults' = faults + 1
    /\ UNCHANGED <<kafka, loop, cur, retry, stop, effects>>

------------------------------------------------------------------------------
Invoke == \/ ParsePatternMatch \/ ParseRejects \/ RetrieveHistory
          \/ Reason \/ ReasonNeverSucceeds \/ ValidateConfidence
          \/ EmitAlert \/ ReifyMemory \/ EmitTrainingRecord

Handle == \/ Decode \/ DecodeFails \/ DecodeDies \/ Invoke
          \/ Skip \/ Commit \/ SeekBack \/ Wake

Fault == Crash \/ Signal \/ ReifyHalfFails \/ NodeFails

Broker == \/ \E p \in Partitions, k \in Kinds : Publish(p, k)
          \/ \E D \in SUBSET Partitions : Rebalance(D)
          \/ \E r \in Records : Acknowledge(r) \/ Expire(r)

Next == \/ Broker
        \/ Start \/ Close \/ Handle \/ Fault
        \/ \E p \in Partitions : Poll(p)

Spec == Init /\ [][Next]_vars

\* The process runs and is restarted (docker-compose: restart unless-stopped),
\* every await ends, the group's rebalance completes, and librdkafka's single
\* fetch queue serves a partition that has records again and again.
Fairness ==
    /\ WF_vars(Start) /\ WF_vars(Close) /\ WF_vars(Handle)
    /\ \A p \in Partitions :
          /\ SF_vars(\E D \in SUBSET Partitions : p \in D /\ Rebalance(D))
          /\ SF_vars(Poll(p))

FairSpec == Spec /\ Fairness

------------------------------------------------------------------------------
(* Properties.                                                              *)

Settled(r) == \/ KindAt(log, r) \in Poison
              \/ produced[r] > 0 /\ episodes[r] > 0 /\ training[r] > 0

\* At-least-once, as agent_consumer.py:63-64 promises it: once the group has
\* a committed offset, it never moves past a record unless that record is
\* poison or its alert was handed to the producer, its memory reified and its
\* training record written, whatever crashed, failed or rebalanced before.
CommittedIsSettled ==
    Established => \A p \in Partitions : \A o \in 0 .. committed[p] - 1 : Settled(<<p, o>>)

\* What a consumer that restarts, seeks back or is rebalanced reads next is the
\* first record that is not committed: retries and redeliveries never wander
\* back over settled records, and never run ahead of the commit.
NoDeepReplay ==
    Established /\ cur # NoRecord => cur[2] = committed[cur[1]]

\* build_agent's edge order survives every retry: a record never has more
\* memory episodes than alerts produced, nor more training lines than episodes.
EffectsOrdered ==
    \A r \in Records : training[r] <= episodes[r] /\ episodes[r] <= produced[r]

\* Duplicate alerts are the admitted price of a retry (docs/architecture.md,
\* "alert duplication on downstream retry"), and of nothing else: a record's
\* second and later alerts are each paid for by a crash or a failed call.
DuplicatesNeedFaults == \A r \in Records : Established => produced[r] <= 1 + faults

\* A committed offset is never taken back.
CommitNeverRegresses ==
    [][Established => \A p \in Partitions : committed'[p] >= committed[p]]_vars

\* Every record the consumer can handle is eventually committed, on every
\* partition, even while a record of another partition fails for ever.
EverythingSettles ==
    \A p \in Partitions : \A o \in Offsets :
       (o < Len(log[p]) /\ \A i \in 0 .. o : KindAt(log, <<p, i>>) \in Poison \cup {"ok"})
          ~> committed[p] > o

\* What "at-least-once" says of the record being handled when the process
\* dies: a record that had an effect but was not finished is read again.
HalfDoneIsRetried ==
    \A r \in Records :
       produced[r] > 0 /\ ~Settled(r) /\ r[1] \in assigned
          => r = cur \/ position[r[1]] <= r[2]

\* At-least-once for the alert itself: the alert of a committed record is on
\* the alert topic, or still in the queue of a live producer.
CommittedIsAlerted ==
    \A p \in Partitions : \A o \in 0 .. committed[p] - 1 :
       KindAt(log, <<p, o>>) \notin Poison => acked[<<p, o>>] + outbox[<<p, o>>] > 0

\* The agent implements the abstract consumer of the pattern topic, where a
\* record counts as processed once its training record, the graph's last
\* effect, is written (stated for a group that is Established).
Abstract == INSTANCE AtLeastOnce WITH
    settled   <- committed,
    processed <- {r \in Records : training[r] > 0},
    refused   <- {r \in Records : r[2] < committed[r[1]] /\ KindAt(log, r) \in Poison},
    Refusable <- Poison

ImplementsAtLeastOnce == Abstract!Spec
==============================================================================
