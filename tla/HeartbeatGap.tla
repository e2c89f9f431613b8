---------------------------- MODULE HeartbeatGap ----------------------------
(***************************************************************************)
(* MissingHeartbeatJob and the machine that feeds it: the tick loop of     *)
(* Machine-04 on its own thread, the faults the scheduler activates in it, *)
(* the beats it sends and the detector that measures the gaps between them.*)
(* A beat can be missing because a fault suppressed it or because it was   *)
(* not delivered; the detector sees neither, only the times of the others. *)
(* Times are counted from the simulation's start in units of the simulated *)
(* clock.                                                                  *)
(***************************************************************************)
EXTENDS Integers, Sequences, FiniteSets

CONSTANTS
    Milli,          \* units of the clock in a millisecond
    Second,         \* milliseconds in a second (1000)
    Interval,       \* units between two heartbeats (60 s)
    GapThreshold,   \* GAP_THRESHOLD_SECONDS (63)
    Steps,          \* simulated time from one tick to the next
    MaxStep,        \* bound: the longest of them
    Starts,         \* when faults may begin
    Duration,       \* how long each kind of fault lasts
    End,            \* end_sim_dt
    MaxFailures,    \* bound: beats the producer fails to deliver
    MaxRepeats,     \* bound: beats its retries repeat
    MaxRuns         \* bound: times the job is submitted again

Faults == {"heartbeat_loss", "other"}

\* The threshold separates one interval from two: however the ticks fall, two
\* successive beats are never a gap, and two with a beat missing between them
\* are.  (63 s do that as long as no tick takes 4 simulated seconds.)
ASSUME HeartbeatAssumption ==
    /\ Milli \in Nat \ {0} /\ Second \in Nat \ {0}
    /\ Interval \in Nat \ {0} /\ GapThreshold \in Nat /\ MaxStep \in Nat
    /\ Steps \subseteq 1 .. MaxStep
    /\ Starts \subseteq Nat /\ Duration \in [Faults -> Nat] /\ End \in Nat
    /\ MaxFailures \in Nat /\ MaxRepeats \in Nat /\ MaxRuns \in Nat
    /\ Interval + MaxStep <= ((GapThreshold + 1) * Second - 1) * Milli + 1
    /\ 2 * Interval >= (GapThreshold + 1) * Second * Milli

VARIABLES
    schedule,       \* FailureScheduler._events, for this machine
    simTime,        \* sim_time of the latest tick
    activeFaults,   \* machine.active_faults
    marker,         \* machine._last_heartbeat_sim_time
    sequence,       \* machine._heartbeat_sequence
    topic,          \* harmonicmesh.heartbeats.machine-04
    suppressed,     \* history: sequence numbers a fault kept back
    undelivered,    \* history: sequence numbers the producer lost
    repeats,        \* history: beats repeated by the producer
    run,            \* which submission of the job this is
    first,          \* the offset at which it started
    offset,         \* the source's offset
    lastEvent,      \* "last-hb-event" and "last-hb-time-ms", updated together
    matches         \* harmonicmesh.patterns.machine-04

machine   == <<simTime, activeFaults, marker, sequence>>
transport == <<topic, suppressed, undelivered, repeats>>
job       == <<run, first, offset, lastEvent, matches>>
vars      == <<schedule, machine, transport, job>>

NoTime == -1        \* _last_heartbeat_sim_time being None

Beat == [sequence : Nat, event_time : Nat]
NoBeat == [sequence |-> -1, event_time |-> -1]      \* empty ValueStates

------------------------------------------------------------------------------
(* FailureScheduler.                                                        *)

AddScheduled(fault, start, duration) ==
    [fault |-> fault, sim_start |-> start, sim_end |-> start + duration]

\* --inject, at any time and for the whole duration.
Injected == {AddScheduled(f, s, Duration[f]) : f \in Faults, s \in Starts}

\* A profile's faults begin before the end and are clipped to it.
FromProfile ==
    {AddScheduled(f, s, IF s + Duration[f] <= End THEN Duration[f] ELSE End - s) :
        f \in Faults, s \in {t \in Starts : t < End}}

\* A profile's random faults, and at most one injected.
Schedules == {profile \cup inject :
                profile \in SUBSET FromProfile,
                inject \in {{}} \cup {{event} : event \in Injected}}

IsActiveAt(event, t) == event.sim_start <= t /\ t < event.sim_end

\* Mutant: the list of the last tick is not reset.
Update_NotReset(t) ==
    activeFaults' = activeFaults \cup {e.fault : e \in {f \in schedule : IsActiveAt(f, t)}}

Update(t) == activeFaults' = {e.fault : e \in {f \in schedule : IsActiveAt(f, t)}}

------------------------------------------------------------------------------
(* Machine.maybe_heartbeat, and producer.send of its result.                *)

\* strftime and Instant.parse: whole milliseconds.
\* Mutant: the fraction is formatted in full.
EventTime_Untruncated(t) == t

EventTime(t) == t \div Milli

\* The producer delivers in order, or reports a failure to a callback that
\* only logs it.
Send(beat) ==
    \/ topic' = Append(topic, beat) /\ UNCHANGED undelivered
    \/ /\ Cardinality(undelivered) < MaxFailures
       /\ undelivered' = undelivered \cup {beat.sequence}
       /\ UNCHANGED topic

Emit(t, suppress) ==
    \/ suppress /\ suppressed' = suppressed \cup {sequence + 1} /\ UNCHANGED <<topic, undelivered>>
    \/ /\ ~suppress
       /\ Send([sequence |-> sequence + 1, event_time |-> EventTime(t)])
       /\ UNCHANGED suppressed

\* Mutant: the timer stands still while heartbeats are suppressed.
MaybeHeartbeat_TimerStops(t, suppress) ==
    \/ /\ marker = NoTime
       /\ marker' = t
       /\ UNCHANGED <<sequence, topic, suppressed, undelivered>>
    \/ /\ marker # NoTime /\ (t - marker < Interval \/ suppress)
       /\ UNCHANGED <<marker, sequence, topic, suppressed, undelivered>>
    \/ /\ marker # NoTime /\ t - marker >= Interval /\ ~suppress
       /\ marker' = t
       /\ sequence' = sequence + 1
       /\ Emit(t, suppress)

MaybeHeartbeat(t, suppress) ==
    \/ /\ marker = NoTime
       /\ marker' = t
       /\ UNCHANGED <<sequence, topic, suppressed, undelivered>>
    \/ /\ marker # NoTime /\ t - marker < Interval
       /\ UNCHANGED <<marker, sequence, topic, suppressed, undelivered>>
    \/ /\ marker # NoTime /\ t - marker >= Interval
       /\ marker' = t
       /\ sequence' = sequence + 1
       /\ Emit(t, suppress)

\* One turn of _run_machine's loop, step after the last one: it sleeps away
\* what its work left of a simulated second, or is late.  (The two clock
\* readings, of the loop condition and of the tick, are one here.)
Tick(step) ==
    LET t == simTime + step IN
    /\ t < End
    /\ simTime' = t
    /\ Update(t)
    /\ MaybeHeartbeat(t, "heartbeat_loss" \in activeFaults')
    /\ UNCHANGED <<schedule, repeats, job>>

\* A retry after a lost acknowledgement repeats the last beat, before the next
\* one is sent (a retry that lasts longer is not modelled).
Repeat ==
    /\ topic # <<>> /\ repeats < MaxRepeats
    /\ topic' = Append(topic, topic[Len(topic)])
    /\ repeats' = repeats + 1
    /\ UNCHANGED <<schedule, machine, suppressed, undelivered, job>>

------------------------------------------------------------------------------
(* HeartbeatGapDetector.                                                    *)

GapSeconds(previous, event) == (event.event_time - previous.event_time) \div Second

IsGap(event) ==
    lastEvent # NoBeat /\ GapSeconds(lastEvent, event) > GapThreshold

ProcessElement(event) ==
    /\ matches' = IF IsGap(event)
                    THEN Append(matches, [detected |-> event, source |-> lastEvent])
                    ELSE matches
    /\ lastEvent' = event

Consume ==
    /\ offset < Len(topic)
    /\ offset' = offset + 1
    /\ ProcessElement(topic[offset + 1])
    /\ UNCHANGED <<schedule, machine, transport, run, first>>

\* The job is submitted again: no keyed state, and the source starts where
\* --starting-offsets says, whatever its group had committed.
Resubmit(from) ==
    /\ run <= MaxRuns
    /\ run' = run + 1
    /\ first' = from /\ offset' = from
    /\ lastEvent' = NoBeat
    /\ UNCHANGED <<schedule, machine, transport, matches>>

------------------------------------------------------------------------------
Init ==
    /\ schedule \in Schedules
    /\ simTime = 0 /\ activeFaults = {} /\ marker = NoTime /\ sequence = 0
    /\ topic = <<>> /\ suppressed = {} /\ undelivered = {} /\ repeats = 0
    /\ run = 1 /\ first = 0 /\ offset = 0
    /\ lastEvent = NoBeat /\ matches = <<>>

Next == \/ \E step \in Steps : Tick(step)
        \/ Repeat
        \/ Consume
        \/ \E from \in {0, Len(topic)} : Resubmit(from)     \* earliest, latest

Spec == Init /\ [][Next]_vars

------------------------------------------------------------------------------
(* Properties.                                                              *)

\* The state's types; beats carry milliseconds, none of them of the future.
TypeOK ==
    /\ schedule \subseteq Injected \cup FromProfile
    /\ simTime \in Nat /\ activeFaults \subseteq Faults
    /\ marker \in Nat \cup {NoTime} /\ sequence \in Nat
    /\ topic \in Seq(Beat)
    /\ \A i \in 1 .. Len(topic) : topic[i].event_time <= simTime \div Milli
    /\ suppressed \subseteq 1 .. sequence /\ undelivered \subseteq 1 .. sequence
    /\ repeats \in 0 .. MaxRepeats
    /\ run \in 1 .. MaxRuns + 1
    /\ first \in 0 .. offset /\ offset \in 0 .. Len(topic)
    /\ lastEvent \in Beat \cup {NoBeat}
    /\ matches \in Seq([detected : Beat, source : Beat])

\* A match says that heartbeats are missing, and nothing else makes one: of
\* two beats the job processes one after the other, the second is reported,
\* with the first as its source event, exactly when the machine counted a beat
\* between them that was suppressed or lost -- however the ticks fall, with
\* repeated beats, and after the job was submitted again.
GapIffMissing ==
    [][\A i \in 1 .. Len(topic) :
         (run' = run /\ offset' = i /\ offset = i - 1 /\ first < offset) =>
            LET previous == topic[i - 1]
                missing == {n \in suppressed \cup undelivered :
                              previous.sequence < n /\ n < topic[i].sequence}
            IN matches' = IF missing # {}
                            THEN Append(matches, [detected |-> topic[i], source |-> previous])
                            ELSE matches]_vars

LossDuring(from, to) ==
    \E e \in schedule : e.fault = "heartbeat_loss" /\ e.sim_start <= to /\ from < e.sim_end

\* The silence ends with the fault: when no heartbeat loss was scheduled for
\* an interval, the machine's newest beat is in the topic and younger than
\* that, unless the producer lost it -- the arrival the detector waits for.
SilenceEnds ==
    (/\ sequence > 0 /\ sequence \notin undelivered
     /\ ~LossDuring(simTime - Interval, simTime))
        => /\ topic # <<>>
           /\ topic[Len(topic)].sequence = sequence
           /\ topic[Len(topic)].event_time >= EventTime(simTime - Interval)
=============================================================================
