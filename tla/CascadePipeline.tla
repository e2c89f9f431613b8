--------------------------- MODULE CascadePipeline ---------------------------
(***************************************************************************)
(* Machine-03 and the cascade job: the machine's thread ticks once a       *)
(* simulated second, the faults the scheduler has for it shape what its    *)
(* sensors show, and the producer's retries deliver the telemetry late,    *)
(* out of order, twice or never.  When the job reads an event the topic    *)
(* holds is of no consequence to it, so delivery and reading are one step. *)
(***************************************************************************)
EXTENDS CascadeCep

CONSTANTS
    Schedules,      \* where cascades may start, as added: the injected one, then the profile's
    Duration,       \* how long one lasts (15 min)
    TempFrom,       \* into a cascade: the temperature may be anomalous
    TempSure,       \* ... and is (_TEMP_PHASE_END)
    End,            \* end_sim_dt
    QuietFrom,      \* bound: from then on, no noise
    MaxInFlight,    \* bound: events sent and not yet delivered
    MaxFaults       \* bound: events the retries repeat or give up

ASSUME PipelineAssumption ==
    /\ Schedules \subseteq Seq(Nat) /\ Duration \in Nat /\ End \in Nat
    /\ TempFrom \in Nat /\ TempSure \in Nat
    /\ QuietFrom \in Nat /\ MaxInFlight \in Nat /\ MaxFaults \in Nat

VARIABLES
    schedule,       \* FailureScheduler._events
    simTime,        \* sim_time of the latest tick
    inFlight,       \* events the producer has not had acknowledged
    faults,         \* how many it repeated or gave up
    onTime          \* history: events delivered within the job's budget

simVars == <<schedule, simTime, inFlight, faults, onTime>>
vars == <<simVars, cepVars>>

Init ==
    /\ CepInit
    /\ schedule \in Schedules
    /\ simTime = 0 /\ inFlight = {} /\ faults = 0 /\ onTime = {}

------------------------------------------------------------------------------
IsActiveAt(start, t) == start <= t /\ t < start + Duration
ActiveAt(t) == {f \in 1 .. Len(schedule) : IsActiveAt(schedule[f], t)}

\* Mutant: of the first fault, active or not.
FaultElapsed_FirstScheduled(t) ==
    IF t > schedule[1] THEN t - schedule[1] ELSE 0

\* get_fault_elapsed: of the first active fault, in the order they were added.
FaultElapsed(t) ==
    LET first == CHOOSE f \in ActiveAt(t) : \A g \in ActiveAt(t) : f <= g
    IN  t - schedule[first]

\* What the sensors show.  The noise of a healthy machine takes vibration and
\* current over their thresholds now and then (three deviations and more
\* above the range), never the temperature (six).  In a cascade the
\* temperature rises far over its threshold and stays there; vibration and
\* current rise to a level whose noise still crosses theirs.
Surely(t) == IF ActiveAt(t) # {} /\ FaultElapsed(t) > TempSure THEN {"temp"} ELSE {}

Possibly(t) ==
    {"vib", "current"}
        \cup (IF ActiveAt(t) # {} /\ FaultElapsed(t) >= TempFrom THEN {"temp"} ELSE {})

\* A turn of _run_machine's loop.
Tick ==
    LET t == simTime + 1 IN
    /\ t < End
    /\ Cardinality(inFlight) < MaxInFlight
    /\ simTime' = t
    /\ \E shown \in SUBSET Possibly(t) :
          /\ Surely(t) \subseteq shown /\ (t >= QuietFrom => shown = Surely(t))
          /\ inFlight' = inFlight \cup {[time |-> t, anomalies |-> shown]}
    /\ UNCHANGED <<schedule, faults, onTime, cepVars>>

\* A batch is written, and read by the job; a lost acknowledgement leaves the
\* event with the producer, which writes it again.
Deliver(e) ==
    /\ Arrive(e)
    /\ onTime' = IF e.time >= maxTime - OutOfOrderness THEN onTime \cup {e} ELSE onTime
    /\ \/ inFlight' = inFlight \ {e} /\ UNCHANGED faults
       \/ faults < MaxFaults /\ faults' = faults + 1 /\ UNCHANGED inFlight
    /\ UNCHANGED <<schedule, simTime>>

\* The producer gives up: _delivery_callback only logs it.
Lose(e) ==
    /\ faults < MaxFaults
    /\ faults' = faults + 1
    /\ inFlight' = inFlight \ {e}
    /\ UNCHANGED <<schedule, simTime, onTime, cepVars>>

Next ==
    \/ Tick
    \/ \E e \in inFlight : Deliver(e) \/ Lose(e)
    \/ (EmitWatermark \/ ProcessDue) /\ UNCHANGED simVars

Spec == Init /\ [][Next]_vars

------------------------------------------------------------------------------
(* Properties.                                                              *)

TypeOK ==
    /\ CepTypeOK
    /\ schedule \in Schedules /\ simTime \in Nat
    /\ inFlight \subseteq SensorEvent /\ onTime \subseteq SensorEvent
    /\ faults \in 0 .. MaxFaults
    /\ watermark < maxTime - OutOfOrderness

Held(e) == e \in {processed[i] : i \in 1 .. Len(processed)} \cup {buffer[i] : i \in 1 .. Len(buffer)}

\* An event no more than the out-of-orderness budget behind the newest is
\* never dropped, at whatever moment watermarks were emitted before it came
\* (javadoc lines 119-126, test lines 111-115).
OnTimeIsKept == \A e \in onTime : Held(e)

\* No false alarm: each match begins with a temperature measured while a
\* cascade was active, whatever noise the other sensors show.  (The faults of
\* Machine-03 are cascades; a refractory degradation, which the command line
\* can inject on it by hand, raises the temperature too and is left out.)
MatchMeansFault ==
    \A m \in 1 .. Len(matches) : ActiveAt(processed[matches[m].temp].time) # {}

\* A fault's temperature is up, and no earlier fault is active still: while
\* one is, the sensors follow its phases.
HotAt(f, t) ==
    /\ f \in ActiveAt(t) /\ t > schedule[f] + TempSure
    /\ \A g \in ActiveAt(t) : f <= g

\* An event of a cascade whose temperature is up, one with the vibration and
\* one with the current anomaly after it never pass without the end of a
\* match, whatever is open from before, lost, repeated or reordered.
CascadeIsReported ==
    \A f \in 1 .. Len(schedule) : \A i, j, k \in 1 .. Len(processed) :
        (/\ i < j /\ j < k /\ processed[k].time - processed[i].time < Within
         /\ HotAt(f, processed[i].time)
         /\ Shows(j, "vib") /\ Shows(k, "current"))
            => \E m \in 1 .. Len(matches) : matches[m].current \in i .. k

\* Javadoc lines 140-141, "skipPastLastEvent() guarantees one cascade fires one
\* match" (docs/patterns.md says the same): no two matches begin in one fault.
OneMatchPerCascade ==
    \A m, n \in 1 .. Len(matches) :
        m # n => ActiveAt(processed[matches[m].temp].time)
                    \cap ActiveAt(processed[matches[n].temp].time) = {}
=============================================================================
