-------------------------- MODULE AtLeastOnceProofs --------------------------
(***************************************************************************)
(* What the abstract consumer promises, for any partitions, kinds and      *)
(* bounds; a consumer that implements AtLeastOnce inherits it.             *)
(***************************************************************************)
EXTENDS AtLeastOnce, TLAPS

\* What was settled or processed is in the log.
InLog ==
    /\ \A p \in Partitions : settled[p] <= Len(log[p])
    /\ \A r \in processed : r[2] < Len(log[r[1]])

IndInv == TypeOK /\ InLog /\ NoSilentLoss /\ InOrder

LEMMA TypeNext == TypeOK /\ [Next]_vars => TypeOK'
  <1> SUFFICES ASSUME TypeOK, [Next]_vars PROVE TypeOK'
    OBVIOUS
  <1> USE LogAssumption DEF TypeOK
  <1>1. ASSUME NEW p \in Partitions, NEW k \in Kinds, Publish(p, k) PROVE TypeOK'
    <2>1. log \in [Partitions -> Seq(Kinds)] /\ log' = [log EXCEPT ![p] = Append(@, k)]
          /\ Len(log[p]) < MaxLog /\ \A q \in Partitions : Len(log[q]) <= MaxLog
      BY <1>1 DEF Publish, Published, Logs
    <2>2. Append(log[p], k) \in Seq(Kinds) /\ Len(Append(log[p], k)) = Len(log[p]) + 1
      BY <2>1
    <2>3. \A q \in Partitions : log'[q] = IF q = p THEN Append(log[p], k) ELSE log[q]
      BY <2>1
    <2>4. log' \in Logs /\ \A q \in Partitions : Len(log'[q]) <= MaxLog
      BY <2>1, <2>2, <2>3 DEF Logs
    <2>5. QED
      BY <1>1, <2>4 DEF Publish
  <1>2. ASSUME NEW r \in Records, Process(r) PROVE TypeOK'
    BY <1>2 DEF Process
  <1>3. ASSUME NEW r \in Records, Settle(r) PROVE TypeOK'
    BY <1>3 DEF Settle, Records
  <1>4. ASSUME NEW r \in Records, Refuse(r) PROVE TypeOK'
    BY <1>4 DEF Refuse, Records
  <1>5. CASE UNCHANGED vars
    BY <1>5 DEF vars
  <1>6. QED
    BY <1>1, <1>2, <1>3, <1>4, <1>5 DEF Next

\* A partition's log and its settled offset, and what a new record changes.
LEMMA LogTypes ==
    ASSUME TypeOK, NEW p \in Partitions
    PROVE  settled[p] \in Nat /\ Len(log[p]) \in Nat /\ log[p] \in Seq(Kinds)
  BY DEF TypeOK, Logs

LEMMA RecordPair ==
    ASSUME NEW r \in Records
    PROVE  r[1] \in Partitions /\ r[2] \in Nat /\ r = <<r[1], r[2]>>
  BY LogAssumption DEF Records, Offsets

LEMMA PublishStep ==
    ASSUME IndInv, NEW p \in Partitions, NEW k \in Kinds, Publish(p, k)
    PROVE  IndInv'
  <1>1. log' = [log EXCEPT ![p] = Append(@, k)] /\ UNCHANGED <<settled, processed, refused>>
    BY DEF Publish, Published
  <1>2. ASSUME NEW q \in Partitions
        PROVE  /\ Len(log'[q]) \in Nat /\ Len(log[q]) \in Nat /\ Len(log[q]) <= Len(log'[q])
               /\ \A i \in 1 .. Len(log[q]) : log'[q][i] = log[q][i]
    <2>1. log[q] \in Seq(Kinds) /\ log'[q] = IF q = p THEN Append(log[q], k) ELSE log[q]
      BY <1>1 DEF IndInv, TypeOK, Logs
    <2>2. QED
      BY <2>1
  <1>3. TypeOK'
    BY TypeNext DEF IndInv, Next
  <1>4. InLog'
    <2>1. ASSUME NEW q \in Partitions PROVE settled'[q] <= Len(log'[q])
      BY <1>1, <1>2, LogTypes DEF IndInv, InLog
    <2>2. ASSUME NEW r \in processed' PROVE r[2] < Len(log'[r[1]])
      <3>1. r \in processed /\ r \in Records
        BY <1>1 DEF IndInv, TypeOK
      <3>2. r[2] < Len(log[r[1]]) /\ r[1] \in Partitions /\ r[2] \in Nat
        BY <3>1, RecordPair DEF IndInv, InLog
      <3>3. QED
        BY <1>2, <3>2
    <2>3. QED
      BY <2>1, <2>2 DEF InLog
  <1>5. NoSilentLoss'
    <2>1. ASSUME NEW q \in Partitions, NEW o \in 0 .. settled[q] - 1
          PROVE  KindAt(log, <<q, o>>)' = KindAt(log, <<q, o>>)
      <3>1. o + 1 \in 1 .. Len(log[q])
        BY LogTypes DEF IndInv, InLog
      <3>2. QED
        BY <1>2, <3>1 DEF KindAt
    <2>2. QED
      BY <1>1, <2>1 DEF IndInv, NoSilentLoss
  <1>6. InOrder'
    BY <1>1 DEF IndInv, InOrder
  <1>7. QED
    BY <1>3, <1>4, <1>5, <1>6 DEF IndInv

LEMMA ProcessStep ==
    ASSUME IndInv, NEW r \in Records, Process(r)
    PROVE  IndInv'
  <1> USE DEF IndInv, Process
  <1>1. TypeOK'
    BY TypeNext DEF Next
  <1>2. InLog'
    BY DEF InLog, Readable
  <1>3. NoSilentLoss'
    BY DEF NoSilentLoss, KindAt
  <1>4. InOrder'
    BY LogTypes, RecordPair DEF InOrder, Readable
  <1>5. QED
    BY <1>1, <1>2, <1>3, <1>4

\* Settling or refusing r when it is the next of its partition.
LEMMA Advance ==
    ASSUME IndInv, NEW r \in Records, r[2] = settled[r[1]], r[2] < Len(log[r[1]]),
           settled' = [settled EXCEPT ![r[1]] = @ + 1], log' = log,
           processed' = processed, refused \subseteq refused',
           r \in processed \/ (r \in refused' /\ KindAt(log, r) \in Refusable)
    PROVE  InLog' /\ NoSilentLoss' /\ InOrder'
  <1>1. r[1] \in Partitions /\ r = <<r[1], settled[r[1]]>>
    BY RecordPair
  <1>2. ASSUME NEW q \in Partitions
        PROVE  settled[q] \in Nat /\ settled'[q] = IF q = r[1] THEN settled[q] + 1 ELSE settled[q]
    BY LogTypes DEF IndInv, TypeOK
  <1>3. InLog'
    <2>1. ASSUME NEW q \in Partitions PROVE settled'[q] <= Len(log[q])
      BY <1>2, LogTypes DEF IndInv, InLog
    <2>2. QED
      BY <2>1 DEF IndInv, InLog
  <1>4. NoSilentLoss'
    <2>1. ASSUME NEW q \in Partitions, NEW o \in 0 .. settled'[q] - 1
          PROVE  <<q, o>> \in processed
                   \/ (<<q, o>> \in refused' /\ KindAt(log, <<q, o>>) \in Refusable)
      <3>1. CASE o \in 0 .. settled[q] - 1
        BY <3>1 DEF IndInv, NoSilentLoss
      <3>2. CASE o \notin 0 .. settled[q] - 1
        <4>1. q = r[1] /\ o = settled[q]
          BY <1>2, <3>2
        <4>2. <<q, o>> = r
          BY <1>1, <4>1
        <4>3. QED
          BY <4>2
      <3>3. QED
        BY <3>1, <3>2
    <2>2. QED
      BY <2>1 DEF NoSilentLoss, KindAt
  <1>5. InOrder'
    <2>1. ASSUME NEW s \in processed PROVE s[2] <= settled'[s[1]]
      <3>1. s \in Records /\ s[2] <= settled[s[1]]
        BY DEF IndInv, TypeOK, InOrder
      <3>2. s[1] \in Partitions /\ s[2] \in Nat
        BY <3>1, RecordPair
      <3>3. QED
        BY <1>2, <3>1, <3>2
    <2>2. QED
      BY <2>1 DEF InOrder
  <1>6. QED
    BY <1>3, <1>4, <1>5

LEMMA IndNext == IndInv /\ [Next]_vars => IndInv'
  <1> SUFFICES ASSUME IndInv, [Next]_vars PROVE IndInv'
    OBVIOUS
  <1>1. TypeOK'
    BY TypeNext DEF IndInv
  <1>2. ASSUME NEW r \in Records, Settle(r) PROVE IndInv'
    <2>1. r[2] < Len(log[r[1]])
      BY <1>2 DEF Settle, IndInv, InLog
    <2>2. InLog' /\ NoSilentLoss' /\ InOrder'
      BY <1>2, <2>1, Advance DEF Settle
    <2>3. QED
      BY <1>1, <2>2 DEF IndInv
  <1>3. ASSUME NEW r \in Records, Refuse(r) PROVE IndInv'
    <2>1. Readable(r) /\ KindAt(log, r) \in Refusable /\ refused' = refused \cup {r}
          /\ log' = log /\ processed' = processed /\ settled' = [settled EXCEPT ![r[1]] = @ + 1]
      BY <1>3 DEF Refuse
    <2>2. InLog' /\ NoSilentLoss' /\ InOrder'
      BY <2>1, Advance DEF Readable
    <2>3. QED
      BY <1>1, <2>2 DEF IndInv
  <1>4. CASE UNCHANGED vars
    BY <1>1, <1>4 DEF vars, IndInv, InLog, NoSilentLoss, InOrder, KindAt
  <1>5. QED
    BY <1>2, <1>3, <1>4, PublishStep, ProcessStep DEF Next

\* The contract: behind the settled offset every record was processed, or
\* refused for its kind.
THEOREM NothingIsLostSilently == Spec => []NoSilentLoss
  <1>1. Init => IndInv
    BY LogAssumption DEF Init, IndInv, TypeOK, Logs, InLog, NoSilentLoss, InOrder
  <1>2. IndInv => NoSilentLoss
    BY DEF IndInv
  <1>3. QED
    BY <1>1, <1>2, IndNext, PTL DEF Spec

\* Nothing is processed beyond the first record that is not settled.
THEOREM ProcessedInOrder == Spec => []InOrder
  <1>1. Init => IndInv
    BY LogAssumption DEF Init, IndInv, TypeOK, Logs, InLog, NoSilentLoss, InOrder
  <1>2. IndInv => InOrder
    BY DEF IndInv
  <1>3. QED
    BY <1>1, <1>2, IndNext, PTL DEF Spec
==============================================================================
