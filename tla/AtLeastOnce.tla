----------------------------- MODULE AtLeastOnce -----------------------------
(***************************************************************************)
(* What the two consumers promise of the pattern topic, whatever they do   *)
(* with a record: each partition is settled in order; a record is settled  *)
(* only once it was processed, or refused with a logged error; processing  *)
(* may repeat, but only until the record is settled.                       *)
(***************************************************************************)
EXTENDS KafkaLog

CONSTANT Refusable      \* the kinds of record that may be refused

VARIABLES
    log,            \* the topic
    settled,        \* per partition, the offset up to which all is settled
    processed,      \* records whose processing completed at least once
    refused         \* records skipped as poison

vars == <<log, settled, processed, refused>>

Init ==
    /\ log = [p \in Partitions |-> <<>>]
    /\ settled = [p \in Partitions |-> 0]
    /\ processed = {} /\ refused = {}

Publish(p, k) ==
    /\ Len(log[p]) < MaxLog
    /\ log' = Published(log, p, k)
    /\ UNCHANGED <<settled, processed, refused>>

\* The one record of a partition that may be read now: the next to settle.
Readable(r) == r[2] < Len(log[r[1]]) /\ r[2] = settled[r[1]]

Process(r) ==
    /\ Readable(r)
    /\ processed' = processed \cup {r}
    /\ UNCHANGED <<log, settled, refused>>

Settle(r) ==
    /\ r \in processed /\ r[2] = settled[r[1]]
    /\ settled' = [settled EXCEPT ![r[1]] = @ + 1]
    /\ UNCHANGED <<log, processed, refused>>

\* Refusing settles the record.
Refuse(r) ==
    /\ Readable(r) /\ KindAt(log, r) \in Refusable
    /\ refused' = refused \cup {r}
    /\ settled' = [settled EXCEPT ![r[1]] = @ + 1]
    /\ UNCHANGED <<log, processed>>

Next == \/ \E p \in Partitions, k \in Kinds : Publish(p, k)
        \/ \E r \in Records : Process(r) \/ Settle(r) \/ Refuse(r)

Spec == Init /\ [][Next]_vars

TypeOK ==
    /\ log \in Logs
    /\ \A p \in Partitions : Len(log[p]) <= MaxLog
    /\ settled \in [Partitions -> Nat]
    /\ processed \subseteq Records /\ refused \subseteq Records

\* Nothing is lost silently: behind the settled offset every record was
\* processed or refused (the consumers' commit only after success or a skip).
NoSilentLoss ==
    \A p \in Partitions : \A o \in 0 .. settled[p] - 1 :
        <<p, o>> \in processed \/ (<<p, o>> \in refused /\ KindAt(log, <<p, o>>) \in Refusable)

\* Records of a partition are processed in order: nothing is processed beyond
\* the first record that is not settled.
InOrder == \A r \in processed : r[2] <= settled[r[1]]
==============================================================================
