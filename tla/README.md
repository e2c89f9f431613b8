# HarmonicMesh: TLA+ models, checks and proofs

HarmonicMesh turns machine telemetry and EDI events into alerts. Simulators
write events to Kafka; three Flink jobs detect patterns in them; two Python
consumers read the pattern topics, one writing every match into a Graphiti
memory, the other running a seven-node LangGraph agent that reasons over that
memory, emits an alert, writes the alert back as memory and appends a training
record.

    simulators --> kafka: telemetry, heartbeats, edi --> Flink jobs
                                                            |
                                                kafka: harmonicmesh.patterns.*
                                                  |                       |
                                        pattern_ingester            agent_consumer
                                                  |                  |    |     |
                                              Graphiti  <--history---+  alerts  training file

## 1. Inventory

| component | source | state | operations | interacts with | what is hard | correct when |
|---|---|---|---|---|---|---|
| agent consumer | `consumers/agent_consumer.py` | committed offset (broker), fetch position, backoff delay, stop event | poll, decode, commit, skip, seek back and sleep, shut down, restart | broker (group `harmonicmesh-agent`), graph, container runtime | crash between any two steps, a rebalance that undoes a seek back, poison, one sleeper for all partitions | no record is lost or overtaken; re-reads are shallow; what can be handled is handled |
| agent graph | `agent/graph.py`, `agent/nodes/*`, `agent/llm.py` | alerts produced, episodes, training lines | seven nodes in a line | LLM, Graphiti, alert producer, file | a failure of node *n* repeats nodes 1..n; the memory changes between two searches; the LLM answers anything | effects keep the edge order; duplicates come only from failures; an alert's confidence keeps the scale its history allows |
| alert producer | `agent/nodes/emit_alert.py` | local queue of librdkafka | produce, flush with timeout | broker | flush's result is ignored; queue dies with the process | a committed record's alert was delivered |
| pattern ingester | `consumers/pattern_ingester.py` | as the agent consumer, fixed backoff | poll, format, write, commit / skip / seek back | broker (group `harmonicmesh-graphiti-ingester`), Graphiti | poison and transient told apart by exception class | behind the commit: an episode or a report |
| Graphiti layer | `graphiti_layer/*` | two process-wide singletons; the graph (external) | ingest_pattern_match, add_alert_episode, add_intervention, search_history, get/close_graphiti | Neo4j, LLM, models | half-done writes; a fact listed under several episodes; lazy initialisation from two threads | what a search returns is of the machine and of the wanted kinds, and stays so |
| EDI violation job | `flink_jobs/.../EDISequenceViolationJob.java` | keyed state of three detectors, timers | process order / shipment / invoice, onTimer | edi topic, pattern topic | reordered or repeated messages, timers, job restart without checkpoints | each violation reported exactly when its definition holds |
| heartbeat job | `flink_jobs/.../MissingHeartbeatJob.java` | last beat per machine | processElement | heartbeat topic | out-of-order beats, rounding at the threshold, silence that never ends | a gap over the threshold is reported once |
| cascade job | `flink_jobs/.../cep/*` | CEP partial matches, watermark | three followedBy conditions within 10 min | telemetry topic | late events, one anomaly feeding several matches | the matches are exactly the cascades of the event stream, and none without a fault |
| machine simulator | `simulators/machine_simulator/*` | clock, failure schedules, producer queue | tick, heartbeat, inject fault | telemetry, heartbeat topics | fault windows that overlap, a shutdown with a queue | a fault shows in its window and nowhere else |
| EDI simulator | `simulators/edi_simulator/__main__.py` | clock, priority queue of planned events | schedule, emit | edi topic | several events due at once, retries that land after later events, losses, shutdown with events pending | event order per order id |
| API, scripts, deployment | `api/`, `scripts/`, `docker-compose.yml` | none | health check, start-up | all | restart policy | not modelled |

`PROJECT.json` lists the hazards, each at its source line, with the properties
that watch it or the reason why none does.

## 2. Plan

1. `KafkaLog`, `AtLeastOnce`, `AgentConsumer`, its proofs: the core, since every
   alert passes through it. *(done)*
2. `PatternIngester`: the second consumer, same abstract specification. *(done)*
3. `EdiDetectors`: keyed state and timers of the EDI job against declarative
   definitions of the three violations, its proofs, and `EdiPipeline`, which
   composes it with the EDI simulator. *(done)*
4. `HeartbeatGap`: the detector with the simulator's scheduler and heartbeat loop,
   and its proofs. *(done)*
5. `CascadeCep` and `CascadePipeline`: the CEP job as an operator on any stream of
   events, then fed by Machine-03, its scheduler and its producer; the proofs of
   both, the second by refinement of the first. *(done)*
6. `MemoryLoop`: agent, ingester and Graphiti composed: what history an attempt
   finds, what validate_confidence makes of it, and what is written back; its
   proofs. *(done)*
7. The remaining safety properties of the runs as theorems: the agent's duplicate
   bound, the ingester's invariants and its refinement, `EdiPipeline` by refinement of
   the detectors. *(done)*
8. Left: nothing that a run checks as safety is without a theorem; the lazy
   singletons of `graphiti_layer/client.py` are not modelled (section 7).

## 3. Modules

* **KafkaLog**: partitions as append-only sequences, a record named by partition
  and offset, the reset policy for a group without a commit. A record is only
  its *kind*: what the consumers' control flow does with its bytes (`ok`,
  `bad_json`, `undecodable`, `invalid`, `hopeless`). Kafka is not in the
  repository; these definitions are marked external.
* **AgentConsumer**: `consumers/agent_consumer.py` and the graph. `pc` is where
  the process is between two awaits (`idle`, `decode`, the seven nodes, `skip`,
  `commit`, `seek`, `sleep`, `closing`, `down`); every call that touches
  the broker, a service or the file system is a step of its own, so a crash, a
  signal or a publish may come between any two. confluent-kafka serves a
  rebalance inside `poll`, so `Rebalance` is a step of the idle process only. `cur` is the
  message in hand, `delay` is `_BackoffState._delay`, `produced / outbox / acked`
  follow an alert from `produce()` through librdkafka's queue to the topic,
  `episodes` and `training` count the effects of the last two effectful nodes.
  `Established` says that the group has committed on every partition before;
  only its absence brings `auto.offset.reset=latest` into play.
  A failed commit or seek is `Crash`: the exception leaves `run()`, and the
  container is restarted (`restart: unless-stopped`). That covers the consumer
  evicted for exceeding `max.poll.interval.ms` too: its next commit or seek raises.
* **PatternIngester**: `consumers/pattern_ingester.py` around
  `ingest_pattern_match`. `GraphitiValueErrors` says whether a call into Graphiti
  may itself raise a ValueError (its JSON and pydantic errors are ValueErrors).
* **AtLeastOnce**: what both promise: per partition, settle in order; settle
  only what was processed or refused; read only the next record to settle. Both consumers are checked to implement it (`ImplementsAtLeastOnce`),
  with the mapping stated beside the property.
* **AgentConsumerProofs**, **PatternIngesterProofs**: theorems about both (section 6).
* **EdiDetectors**: `EDISequenceViolationJob`. Each detector is one operator over
  its own keyed state (`orderSeen`; `invoicing`, `shipmentSeen`; `unfulfilled`,
  `timerMs` and Flink's registered `timers`); `Process` hands one event to all
  three, `OnTimer` fires a due timer, at its time or later, `Resubmit` is the job
  started again with empty state (it enables no checkpointing). `history` is a
  history variable: what was processed, when, with which event time, by which
  submission; events in the state are indices into it, and `reports` counts what
  was sunk. The properties define each violation over `history` alone.
* **EdiPipeline**: the EDI simulator's `plan_transaction`, heap and main loop, the
  producer, the topic between, and the detectors by `EXTENDS`. `Emit` takes the
  earliest due event of the heap; the loop polls, so more than one event of an order
  may be due. The producer is not idempotent: an `Attempt` may fail or stay
  unacknowledged, its event is then written by a `Retry`, perhaps a second
  time and perhaps after later ones, or given up with a line in the log (`GiveUp`).
  `End` is the simulator's end, with events still on the heap. `MaxLag` bounds how long
  an event may be on its way, and the only assumption on the clock is that a delay
  and that lag together stay below the detection window
  (a delay is an hour of simulated time at most, the window four hours of the job's).
* **EdiDetectorsProofs**, **EdiPipelineProofs**: theorems about both (section 6).
* **HeartbeatGap**: Machine-04's thread (`Tick`, with `FailureScheduler.update` and
  `maybe_heartbeat` inside it), its topic and the gap detector (`Consume`). `schedule`
  is the scheduler's list, drawn at the start; `marker` and `sequence` are the
  machine's heartbeat timer and counter; `lastEvent` is the detector's keyed state.
  `suppressed` and `undelivered` are history: which sequence numbers a fault kept
  back and which the producer failed to deliver (`_delivery_callback` only logs).
  Times are units of the simulated clock; `EventTime` truncates them to
  milliseconds, `GapSeconds` to seconds, as strftime and the integer division do.
  The tick thread's pacing only bounds a tick from below; `HeartbeatAssumption`
  says how late a tick may be for the threshold of 63 s to separate one interval
  from two (just under 4 simulated seconds, 4 ms of wall time at compression 1000).
  `Repeat` writes the newest beat again before the next one is counted: with a minute
  between beats a retry seldom lasts that long, but at a high compression it may,
  and a beat that overtakes another, like a tick beyond the assumption, is outside
  what this module shows.
* **HeartbeatGapProofs**: theorems about HeartbeatGap (section 6).
* **CascadeCep**: `ThermalVibrationCascadeJob` as an operator on any stream of
  events: the bounded-out-of-orderness watermark, the drop of late events, the
  buffer that feeds the pattern in event-time order, the three `followedBy`
  conditions within the window, and `skipPastLastEvent`. Flink's operator is
  external and modelled as the job configures it; `Arrive` buffers an event or drops
  it as late, `EmitWatermark` is the generator's periodic emission, `Feed` hands the
  oldest due event to the pattern. `processed` is the history of what was fed; the
  properties define a cascade over it alone, in the words of the job's javadoc.
* **CascadePipeline**: Machine-03's tick loop with `FailureScheduler`, the phases
  of `ThermalVibrationCascade` by the time since the fault began, the producer
  (readings in flight arrive in any order, and at most `MaxFaults` of them are
  repeated or lost), and the job by `EXTENDS CascadeCep`. A reading is only which thresholds it crosses.
  Healthy noise crosses the vibration threshold of 4.5 and the current's 15 %
  (3.3 to 3.4 standard deviations) and never the temperature's 380 (6), so the
  model lets noise raise the first two at any tick. Three minutes into a fault the
  temperature is held at 420 within 3.
* **CascadeProofs**: theorems about both (section 6).
* **MemoryLoop**: what the nodes of the agent compute and what the memory they
  read consists of. A fact (an edge of Graphiti's) is the list of episodes it was
  extracted from, `sources[f]`, append-only; `AddEpisode` lists a new episode
  under any facts of its group, as the extraction LLM may. The ingester
  (`IngestPatternMatch`), the maintenance API (`AddIntervention`, which has no
  caller yet) and the agent's own `ReifyMemory` write at any time, also between
  the two searches (`RetrieveTier1`, `RetrieveTier2`). `Reason` takes an answer
  of any confidence, clamped as the code does; `ValidateConfidence` is the three
  checks in their order; `EmitAlert`, `ReifyMemory` and `EmitTrainingRecord` are
  the effects; `AttemptFails` is a failure of any node or a crash, after which the
  same match is handled again, and `ReifyHalfFails` an episode written by a call
  that raised. Confidences are in hundredths. `Legacy` facts are those whose first
  source has a description no type is known for. Polling, committing and poison are
  AgentConsumer's and PatternIngester's subject and not repeated here.
* **MemoryLoopProofs**: theorems about MemoryLoop (section 6).
* **AtLeastOnceProofs**: what AtLeastOnce promises, proved (section 6).
* **MC...**: model values, symmetry.

Definitions whose names end in `_Something` after the name of an action are
deliberate errors (mutants): each is a plausible slip in that code, and each
property is known to fail on at least one of them (`PROJECT.json`, "mutants").

## 4. Runs

| run | question | bounds | result |
|---|---|---|---|
| AgentSafety | is anything lost, overtaken, repeated without cause, under faults? | 2 partitions x 2 records, kinds ok / invalid / undecodable, 2 faults | holds |
| AgentLive | does everything that can be handled get committed, with one partition hopeless? | 2 partitions x 1 record, 2 faults | holds |
| AgentFirstSubscription | is a half-done record retried on the very first subscription? | not Established, 1 crash | violated |
| AgentAlertLost | was a committed record's alert delivered? | 1 record, 1 fault | violated |
| PatternIngester | behind the commit, an episode or a report? is everything that can be handled committed? | 2 partitions x 2 records, kinds ok / invalid / undecodable / hopeless, 1 fault | holds |
| IngesterValueError | is a valid match never dropped? | 1 fault | violated |
| EdiDetectors | does each detector report what its definition says, is no order forgotten, and is an open one reported in the end? | 1 id x 4 events, window 2, 6 ticks, 1 resubmission | holds |
| EdiPipeline | does the job report what the simulator injected, only that when events come in order, and none too early? | 1 id, delays 1-2, lag 2, window 5, 11 ticks, 2 attempts that fail or go unacknowledged, 5 events, end at any time | holds |
| HeartbeatGap | is a gap reported exactly when a heartbeat is missing, and does a silence end with its fault? | 58 units (14 s) of ticks of 4, 5 or 7, interval 12, 2 fault starts, 1 loss, 1 retry, 1 resubmission | holds |
| CascadePipeline | does the job report exactly the cascades, and those the machine had? | budget 1, window 3, a fault at 0 or two overlapping at 4 and 2, of length 3, noise up to time 4, 7 ticks, 2 in flight, 1 fault of delivery | holds |
| CascadeOnce | does a cascade fire one match? | budget 0, window 4, one fault of length 7, 9 ticks, delivery in order | violated |
| MemoryLoop | is the history sound and the confidence within its scale, with everyone writing? | 2 machines, 3 facts (one legacy), 2 matches of one machine, 1 retry, 1 intervention, answers below 0, above 1, in range and NaN | holds |

In the EDI runs one id is enough for the safety of a detector, whose state is
per key (the theorems drop that bound); four events take it through every pair of
repetitions, with one more event to disclose stale state; a window of two ticks
lets events fall before, at and after a deadline. EdiPipeline's window of five is the
smallest above a delay of two and a lag of two; the lag makes all three
events of an order due at once, so that their order on the heap matters, and two faults
of the producer are what it takes to write an event twice and lose another. Its transaction
has three events, so five let two repeats arrive.

In HeartbeatGap the constants are scaled so that `HeartbeatAssumption` is tight:
a tick longer by one unit would make two successive beats a gap. 58 units give
four heartbeats, enough for a gap of two and a beat on either side, with the
two-unit millisecond and ticks of 4, 5 and 7 falling on every parity.

In CascadePipeline the budget of 1 and the window of 3 let a reading arrive in
order, late within the budget or late beyond it, and a sequence fall just inside
or just outside the window; two overlapping faults are what it takes for the elapsed time of
one to be read as the other's. A second match does not
fit in that run; CascadeOnce reaches two matches of one fault, and exactness is
proved for every number of them.

In MemoryLoop two facts of the match's machine let a fact be in either tier while
another is not, the third belongs to another machine, and the legacy fact tests
the loop over sources that are not known; the second match finds
what the first left behind, and its retry its own alert. The ingester's order is
free: an episode may be there before, during or after the attempt, or not at all.

Two partitions are what it takes for one to disturb the other (backoff, head of
line, a rebalance that resets both); two records per partition for a replay, a seek
or a commit to be off by one; two faults for a fault during the recovery from
another (in the ingester, where restarts and retries come free with undecodable
and hopeless records, one fault on top of them). Deadlock checking is off where the model rests once its bounded log is
consumed: the program would wait for the next message.

The runs that end in a violation state what a docstring or comment of the
repository promises; `PROJECT.json`, "findings", quotes the line and explains
the behaviour TLC finds.

More disagreements are visible in the code and have no run of their own, since a few
steps show each:

* Bytes that are not UTF-8 raise UnicodeDecodeError outside the consumers' handlers
  and end the process at every restart (`AgentSafety` runs with such records and
  shows that nothing is lost over it).
* A match without `source_events` raises KeyError, which the ingester retries
  for ever (kind `hopeless`).
* `EDISequenceViolationJob.java:243` speaks of an event-time timer; the order window
  runs on processing time (`OuSound` states the window as the code has it).
* `EDISequenceViolationJob.java:40-41` says "no intervening SHIPMENT within the
  detection window" of `invoice_without_shipment`, which would ask for a report of
  order, late shipment, invoice. The detector keeps no time: any shipment between
  the two, however late, is intervening, as the javadoc of the detector itself
  (lines 175-176) has it. `IwsExact` states that.
* `graphiti_layer/episode_formatter.py:41-42` says that re-ingesting a redelivered
  message updates rather than duplicates, and `docs/architecture.md:77-78` that
  Graphiti deduplicates by reference time and group. `add_episode` is called without
  an identity to match on, so each write is a new episode: `ReplaysNeedFaults`
  counts them and bounds them by the faults.
* A producer's retry that lands after later events makes the EDI job report what was
  not injected: order, shipment, order again is an `order_unfulfilled`, and with an
  invoice behind it an `invoice_without_shipment`. So `InjectedIsReported` claims
  exactness only of events that arrive in order, and `InjectedIsNotMissed` what still
  holds when they do not: as long as the first copies came in order, no
  violation is hidden.
* `--inject refractory_degradation --on Machine-03` is accepted by the machine
  simulator, though the fault belongs to another machine; its drift could cross the
  cascade's temperature with no cascade injected. `CascadePipeline` has only the faults
  the schedule gives to Machine-03.

## 5. Fairness

`FairSpec` of both consumers assumes: the container is restarted and a handler's
await ends (weak fairness of `Start`, `Close`, `Handle`: HTTP and flush calls
carry timeouts, docker-compose has `restart: unless-stopped`); the group's
rebalance completes; and a partition with records that is again and again
ready to be polled is served (strong fairness of `Poll`: librdkafka's fetch queue
serves partitions in turn, but each seek empties that partition's part of it).
No fairness is assumed of faults, publishing or acknowledgement.

`FairSpec` of EdiDetectors assumes that time passes and that Flink fires a timer
that stays due (its timer service runs one for each key, whatever events arrive);
nothing is assumed of the arrival of events.

The other modules state safety only and assume no fairness: the cascade job can
report nothing before the watermark passes, and no code makes the last event of a
silent machine move it; whether an attempt of the agent ends is AgentConsumer's
question.

## 6. Proofs

`AgentConsumerProofs` proves, for every set of partitions, every set of kinds
and all bounds:

* `TypeCorrect`: the type invariant.
* `EffectsAlwaysOrdered`: training <= episodes <= produced per record. The
  property alone is not inductive: between `emit` and the end of the graph the
  record in hand may have strictly more of the earlier effect, which is what
  lets a later node run. `OrderInv` says for every stage which inequality is
  strict.
* `AtLeastOnceHolds`, `ReplayIsShallow`, `CommitIsMonotonic` for an Established
  group: `CommitInv` says that the record in hand is the one at the committed offset
  and that the fetch position is at that offset, or right behind it while the
  record is in hand and not yet sought back to (`PositionInv`); that all
  records behind the commit are settled follows by adding the record in hand at
  the two committing steps.
* `DuplicatesArePaidFor`: a record has at most one alert
  more than there were faults. `AlertsPaid` adds what the bound leaves out: at
  which stages the record in hand must have a fault to spare, and that a record
  which will be read again (at or behind the fetch position, or not yet committed)
  has no alert that a fault did not pay for.
* `AgentRefinesAtLeastOnce`: initial states map to initial states and every step
  maps to a step of `AtLeastOnce` or to a stutter, from the invariants above.

`PatternIngesterProofs` proves, for every set of partitions, every set of kinds and
all bounds, and from the group's very first subscription (`auto.offset.reset` is
`earliest`), `IngesterTypeCorrect`, `NothingIsLost` (behind the commit, an episode
or a report), `ReplaysArePaidFor` and `IngesterRefinesAtLeastOnce`. `StageInv` says
what each stage knows of the record in hand, `PositionInv` where the fetch position
may be (at the commit, or right after the record there while that is
in hand), `SkippedInv` which kinds can have been skipped. From the
last follows `ValidIsIngestedUnlessValueError`: without a ValueError from Graphiti
every valid match behind the commit is in the graph, so that the behaviour
the run IngesterValueError finds is the only way to drop one.

`AtLeastOnceProofs` proves what the abstract consumer promises
(`NothingIsLostSilently`, `ProcessedInOrder`), strengthened by `InLog`: what is
settled or processed is in the log.

`EdiDetectorsProofs` proves, for every set of order ids, window and bound,
`EdiTypeCorrect` and the four safety properties of the detectors (`SwoIsExact`,
`IwsIsExact`, `OuIsSound`, `OpenStaysWatched`). None is inductive alone, because
none mentions the detectors' state: `KeyInv` says for each id what that state
means in terms of the history (`SeenInv`, `AwaitInv`, `WatchInv`), that nothing is
reported of an event to come (`Past`), and that what was reported is right. It is
preserved key by key: `Frame` covers every id a step does not touch and the
passing of time, `SwoStep`, `IwsStep`, `OuStep`, `TimerStep` and `ResubmitStep` the
id it does.

`EdiPipelineProofs` shows that every behaviour of simulator, producer, topic and job
is one of the detectors on some stream (`PipelineImplementsDetectors`), takes the
detectors' invariant over, and proves for every plan, every delay and lag that fit
the window, and any number of failed, repeated, late and lost writes,
`EdiPipelineTypeCorrect`, `NothingReportedEarly`, `ExactlyTheInjectedIsReported`
and `NothingInjectedIsMissed`. The invariant, for each order: `PlanInv`, the events of
a transaction, wherever they are, are those of its plan, at its times, with the
shipment inside the window of the order, and none is missing without a fault;
`ClockInv`, an event is processed between its time and MaxLag after it;
`SequenceInv`, without a fault heap, topic and history keep the order; and `Ends`, a type
in the history has a first and a last event (an induction over the history, carried by
the steps). With these, `OrphanOfTypes`, `UnshippedOfTypes` and `UnfulfilledOfTypes`
reduce the detectors' definitions, which speak of a history with repetitions,
to the types that were received.

`HeartbeatGapProofs` proves, for every interval, threshold, tick length and
resolution that `HeartbeatAssumption` allows, `HeartbeatTypeCorrect`,
`GapMeansMissing` (what the job reports is exactly what is missing) and
`SilenceAlwaysEnds`. The detector's comparison says nothing of sequence numbers,
so the invariant ties times to them: `PairInv` says which neighbours the topic can
hold (a repetition, successive beats below the limit, beats around a missing one
above it), and is kept by `NewestInv`, which dates the newest beat back to the tick
that sent it: at the marker, or an interval before it. `MarkerInv` bounds the
age of the marker, `CountedInv` says what became of the last heartbeat counted,
`JobInv` that the detector holds the beat before. `OneInterval`, `TwoIntervals`
and `GapIsLimit` carry these facts through the two truncating divisions.

`CascadeProofs` proves, for every budget and window and any stream of events,
`CepTypeCorrect`, `FedInEventTimeOrder` and `MatchesAreExact`. What has to be added to make exactness inductive is what the
partial matches are (`PartialsIn`: exactly the temperatures still open, each with
its first vibration), that the matches so far are exact up to what was fed
(`ExactUpTo`), and that the watermark separates what was fed from what was not.

Its second part shows that every behaviour of the pipeline is one of that
operator (`PipelineImplementsCep`), takes those results over, and adds
`PipelineTypeCorrect`, `OnTimeKept`, `MatchesMeanFaults` and
`CascadesAreReported`, for every schedule, duration and noise, from an
invariant on what the events in flight, buffered and fed may show
(`EventsFit`).

`MemoryLoopProofs` proves all eight properties of its run for any machines, facts,
answers and bounds: `MemoryTypeCorrect`, `TiersAreDisjoint`, `HistoryIsStable`,
`ScaleHolds`, `CapsAreFlagged`, `TopTierUnreachable`, `MemoryIsHonest`,
`OwnAlertIsARetry`. The steps that write the memory are summed up once (`StepWrites`: a
step leaves the sources alone or appends one known episode, no outcome);
appending keeps the first known source (`FirstStays`, `TypeStays`), so a fact
keeps its kind while the attempt holds it. `ChecksCap` composes the three caps in
the order of the code; `OwnInv` says which of the agent's alerts
there can be yet: of no later match, and of the one in hand before reify only
in a later attempt.

Model-checked only: liveness under fairness (`EverythingSettles` of both consumers,
`OpenIsReported` of the order window), which TLAPS does not treat here; and that
the behaviours of the four runs that end in a violation exist, which is TLC's to show. Every safety
property and action property of a passing run is a theorem. The proofs need no
induction over recursive definitions: no module with theorems has one.

## 7. Not modelled

* `api/`, `scripts/`, the compose files and configuration: pure I/O; the
  restart policy, the topic layout and the group settings enter the consumers'
  models as assumptions.
* `graphiti_layer/ontology.py` beyond the content of an alert: field lists for
  the extraction LLM, with no state.
* `graphiti_layer/client.py`: the adapters that build the models, and the lazy
  singletons. `get_reranker` is a check-then-act without a lock, and `close_graphiti`
  clears the handle after an await; both consumers call them from one task of one
  event loop, so the second caller a race needs does not exist, and
  a second build would cost memory, not correctness.
* Growth and ranking: keyed state of the first two EDI detectors that is never
  cleared, the thirty candidates a search draws before it filters by type (any
  subset of the group may come back in MemoryLoop, so a tier may come back short for
  any reason), and the `occurrence_id` two violations within a second share, which
  is only text in an episode.
* The wording of prompts, episodes, violations and alerts; sensor values beyond
  the thresholds they cross; the faults and machines no Flink job listens to; the
  cascade job's sentinel for telemetry that does not parse.
* What Graphiti's extraction and the LLM answer: any answer is allowed, so nothing
  is claimed of its quality.
