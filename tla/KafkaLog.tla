------------------------------ MODULE KafkaLog ------------------------------
(***************************************************************************)
(* The part of Kafka the two Python consumers rely on, as they use it: a   *)
(* pattern topic is a set of append-only partitions, a record is named by  *)
(* its partition and its offset, and a consumer group that has no          *)
(* committed offset on a partition starts where auto.offset.reset says.    *)
(* Kafka is not under src/; the definitions are external.                  *)
(***************************************************************************)
EXTENDS Integers, Sequences

CONSTANTS
    Partitions,     \* the partitions matched by TOPICS_PATTERN
    Kinds,          \* what a record's bytes turn out to be (see Kinds below)
    MaxLog          \* bound: the records ever published to one partition

\* A record's kind is all the consumers' control flow depends on:
\*   "ok"            a pattern match every step accepts
\*   "bad_json"      json.loads raises JSONDecodeError
\*   "undecodable"   json.loads raises something else: TypeError on a
\*                   tombstone, UnicodeDecodeError on bytes that are no text
\*   "invalid"       JSON that the consumer's own validation refuses
\*   "hopeless"      accepted by validation, but one later step fails on it
\*                   every time with an exception the consumer calls transient
AllKinds == {"ok", "bad_json", "undecodable", "invalid", "hopeless"}

ASSUME LogAssumption == /\ MaxLog \in Nat
                        /\ Kinds \subseteq AllKinds

Poison == {"bad_json", "invalid"}

Offsets == 0 .. (MaxLog - 1)
Records == Partitions \X Offsets

\* The group's committed offset on a partition where it never committed.
NoOffset == -1

Logs == [Partitions -> Seq(Kinds)]

Published(log, p, k) == [log EXCEPT ![p] = Append(@, k)]

KindAt(log, r) == log[r[1]][r[2] + 1]

\* Where the group resumes on partition p when p is (re)assigned to it.
ResumeAt(log, committed, p, policy) ==
    IF committed[p] # NoOffset THEN committed[p]
    ELSE IF policy = "latest" THEN Len(log[p]) ELSE 0
=============================================================================
