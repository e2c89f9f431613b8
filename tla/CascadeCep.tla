----------------------------- MODULE CascadeCep -----------------------------
(***************************************************************************)
(* ThermalVibrationCascadeJob: telemetry of one machine (the stream is     *)
(* keyed by machine_id) arrives more or less in order, is held back until  *)
(* the watermark passes it, and is fed in event-time order to the pattern  *)
(*      temp_anomaly --> vib_anomaly --> current_anomaly, within 10 min.   *)
(* An event is its time and the conditions it satisfies.  Flink's CEP      *)
(* operator is not in the repository; the job configures it, and these are *)
(* the semantics of that configuration.  A job submitted again begins in   *)
(* Init.                                                                   *)
(***************************************************************************)
EXTENDS Integers, SequencesExt

CONSTANTS
    OutOfOrderness, \* forBoundedOutOfOrderness: how far behind is not yet late
    Within          \* within(...)

ASSUME CepAssumption == OutOfOrderness \in Nat /\ Within \in Nat \ {0}

Sensors == {"temp", "vib", "current"}
SensorEvent == [time : Nat, anomalies : SUBSET Sensors]

VARIABLES
    maxTime,        \* the watermark generator's largest timestamp
    watermark,      \* the last watermark the operator has got
    buffer,         \* the operator's queue of events above it, as they arrived
    processed,      \* history: the events the pattern has been fed
    partial,        \* the pattern's partial matches
    matches         \* harmonicmesh.patterns.machine-03

cepVars == <<maxTime, watermark, buffer, processed, partial, matches>>

None == 0           \* a stage not reached, where an event is an index of processed
Partial == [temp : Nat \ {0}, vib : Nat]
Match == [temp : Nat \ {0}, vib : Nat \ {0}, current : Nat \ {0}]

\* No event has been seen: below every time, by more than the budget.
NoTime == -(OutOfOrderness + 1)

CepInit ==
    /\ maxTime = NoTime /\ watermark = NoTime - OutOfOrderness - 1
    /\ buffer = <<>> /\ processed = <<>>
    /\ partial = {} /\ matches = <<>>

IsLate(e) == e.time <= watermark

\* Buffered events the watermark has passed, and the next of them: by time,
\* then as they arrived.
Due == {i \in 1 .. Len(buffer) : buffer[i].time <= watermark}

Before(i, j) == buffer[i].time < buffer[j].time \/ (buffer[i].time = buffer[j].time /\ i < j)

\* Mutant: the events are fed as they arrived.
IsNext_AsArrived(i) == i \in Due /\ \A j \in Due : i <= j

IsNext(i) == i \in Due /\ \A j \in Due \ {i} : Before(i, j)

\* An event arrives: a late one is dropped.  (What the watermark has passed is
\* fed before anything else happens in the operator.)
Arrive(e) ==
    /\ Due = {}
    /\ maxTime' = IF e.time > maxTime THEN e.time ELSE maxTime
    /\ buffer' = IF IsLate(e) THEN buffer ELSE Append(buffer, e)
    /\ UNCHANGED <<watermark, processed, partial, matches>>

\* Mutant: the watermark passes the events just within the budget.
EmitWatermark_OneTooFar ==
    /\ Due = {}
    /\ maxTime - OutOfOrderness > watermark
    /\ watermark' = maxTime - OutOfOrderness
    /\ UNCHANGED <<maxTime, buffer, processed, partial, matches>>

\* The generator emits its watermark from time to time.
EmitWatermark ==
    /\ Due = {}
    /\ maxTime - OutOfOrderness - 1 > watermark
    /\ watermark' = maxTime - OutOfOrderness - 1
    /\ UNCHANGED <<maxTime, buffer, processed, partial, matches>>

------------------------------------------------------------------------------
(* The pattern: begin("temp_anomaly") .followedBy("vib_anomaly")            *)
(* .followedBy("current_anomaly") .within(...), skipPastLastEvent.          *)

\* Mutant: the window includes its end.
Alive_AtTheEnd(e) == {p \in partial : e.time - processed[p.temp].time <= Within}

\* Partial matches that have not timed out when e comes.
Alive(e) == {p \in partial : e.time - processed[p.temp].time < Within}

Completed(e) == IF "current" \in e.anomalies THEN {p \in Alive(e) : p.vib # None} ELSE {}

\* Mutant: the stages in another order, vibration first.
Advanced_VibrationFirst(e, n) ==
    {[p EXCEPT !.vib = IF @ = None /\ "temp" \in e.anomalies THEN n ELSE @] : p \in Alive(e)}
        \cup (IF "vib" \in e.anomalies THEN {[temp |-> n, vib |-> None]} ELSE {})

\* Relaxed contiguity: an event that does not advance a partial match is
\* passed over.  Each temperature anomaly begins another.
Advanced(e, n) ==
    {[p EXCEPT !.vib = IF @ = None /\ "vib" \in e.anomalies THEN n ELSE @] : p \in Alive(e)}
        \cup (IF "temp" \in e.anomalies THEN {[temp |-> n, vib |-> None]} ELSE {})

\* The earliest of the completed matches is reported; all others, and all
\* partial ones, began before its last event and are dropped.
Report(p, e, n) ==
    /\ matches' = Append(matches, [temp |-> p.temp, vib |-> p.vib, current |-> n])
    /\ partial' = {}

Feed(i) ==
    LET e == buffer[i]
        n == Len(processed) + 1
    IN  /\ IsNext(i)
        /\ buffer' = RemoveAt(buffer, i)
        /\ processed' = Append(processed, e)
        /\ \/ \E p \in Completed(e) :
                 /\ \A q \in Completed(e) : p.temp <= q.temp
                 /\ Report(p, e, n)
           \/ Completed(e) = {} /\ partial' = Advanced(e, n) /\ UNCHANGED matches
        /\ UNCHANGED <<maxTime, watermark>>

ProcessDue == \E i \in Due : Feed(i)

CepNext == (\E e \in SensorEvent : Arrive(e)) \/ EmitWatermark \/ ProcessDue
CepSpec == CepInit /\ [][CepNext]_cepVars

------------------------------------------------------------------------------
(* Properties.                                                              *)

CepTypeOK ==
    /\ maxTime \in Int /\ watermark \in Int
    /\ buffer \in Seq(SensorEvent) /\ processed \in Seq(SensorEvent)
    /\ partial \subseteq Partial /\ matches \in Seq(Match)

Shows(i, s) == s \in processed[i].anomalies

\* No match ended at event i or after it, before event k.
Unmatched(i, k) == \A m \in 1 .. Len(matches) : matches[m].current \notin i .. k - 1

\* Events that may begin a match ending at k.
Beginnings(k) ==
    {i \in 1 .. k - 1 :
        /\ Shows(i, "temp") /\ Unmatched(i, k)
        /\ processed[k].time - processed[i].time < Within
        /\ \E j \in i + 1 .. k - 1 : Shows(j, "vib")}

\* What the javadoc promises of the pattern (lines 33-38), over the events in
\* event-time order: a match ends at an event exactly when that event shows
\* the current anomaly and a temperature anomaly less than ten minutes before
\* it, of no earlier match, was followed by a vibration anomaly; the match
\* begins at the first such temperature, with the first vibration after it.
MatchesExact ==
    /\ \A k \in 1 .. Len(processed) :
          (\E m \in 1 .. Len(matches) : matches[m].current = k)
              <=> (Shows(k, "current") /\ Beginnings(k) # {})
    /\ \A m \in 1 .. Len(matches) :
          LET match == matches[m] IN
          /\ match.current <= Len(processed)
          /\ match.temp \in Beginnings(match.current)
          /\ \A i \in Beginnings(match.current) : match.temp <= i
          /\ match.vib \in match.temp + 1 .. match.current - 1
          /\ Shows(match.vib, "vib")
          /\ \A j \in match.temp + 1 .. match.vib - 1 : ~Shows(j, "vib")

\* Whatever the order of arrival, the pattern sees events in event-time order,
\* and those it has yet to see are not older.
EventTimeOrder ==
    /\ \A i, j \in 1 .. Len(processed) : i < j => processed[i].time <= processed[j].time
    /\ \A i \in 1 .. Len(processed), b \in 1 .. Len(buffer) :
          processed[i].time <= buffer[b].time
=============================================================================
