---------------------------- MODULE CascadeProofs ----------------------------
(***************************************************************************)
(* Theorems about CascadeCep, for every budget, window and order in which  *)
(* events arrive and watermarks are emitted; then about CascadePipeline,   *)
(* for all schedules, phases, budgets, windows and bounds.                 *)
(***************************************************************************)
EXTENDS CascadePipeline, SequenceTheorems, TLAPS

(* The properties over any events pr fed and matches ma reported.           *)

ShowsIn(pr, i, s) == s \in pr[i].anomalies

UnmatchedIn(ma, i, k) == \A m \in 1 .. Len(ma) : ma[m].current \notin i .. k - 1

NoVibIn(pr, t, n) == \A j \in t + 1 .. n : ~ShowsIn(pr, j, "vib")

FirstVibIn(pr, t, v, n) == v \in t + 1 .. n /\ ShowsIn(pr, v, "vib") /\ NoVibIn(pr, t, v - 1)

BeginningsIn(pr, ma, k) ==
    {i \in 1 .. k - 1 :
        /\ ShowsIn(pr, i, "temp") /\ UnmatchedIn(ma, i, k)
        /\ pr[k].time - pr[i].time < Within
        /\ \E j \in i + 1 .. k - 1 : ShowsIn(pr, j, "vib")}

EndsIn(ma, k) == \E m \in 1 .. Len(ma) : ma[m].current = k

\* MatchesExact, of one event and of one match.
ExactIn(pr, ma, k) == EndsIn(ma, k) <=> (ShowsIn(pr, k, "current") /\ BeginningsIn(pr, ma, k) # {})

GoodIn(pr, ma, x) ==
    /\ x.current \in 1 .. Len(pr)
    /\ x.temp \in BeginningsIn(pr, ma, x.current)
    /\ \A i \in BeginningsIn(pr, ma, x.current) : x.temp <= i
    /\ FirstVibIn(pr, x.temp, x.vib, x.current - 1)

ExactUpTo(pr, ma) ==
    /\ \A k \in 1 .. Len(pr) : ExactIn(pr, ma, k)
    /\ \A m \in 1 .. Len(ma) : GoodIn(pr, ma, ma[m])

OrderedIn(pr) == \A i, j \in 1 .. Len(pr) : i < j => pr[i].time <= pr[j].time

\* A match can still begin at event i, at the given time.
OpenIn(pr, ma, i, time) ==
    ShowsIn(pr, i, "temp") /\ UnmatchedIn(ma, i, Len(pr) + 1) /\ time - pr[i].time < Within

\* The partial matches are those, each with its first vibration anomaly.
StageIn(pr, p) ==
    \/ p.vib = None /\ NoVibIn(pr, p.temp, Len(pr))
    \/ p.vib # None /\ FirstVibIn(pr, p.temp, p.vib, Len(pr))

PartialsIn(pr, ma, pa, time) ==
    /\ \A p \in pa : p.temp \in 1 .. Len(pr) /\ OpenIn(pr, ma, p.temp, time) /\ StageIn(pr, p)
    /\ \A i \in 1 .. Len(pr) : OpenIn(pr, ma, i, time) => \E p \in pa : p.temp = i

LatestTime == processed[Len(processed)].time

\* The strengthening: the partial matches are what the pattern may still
\* complete, and the watermark parts the fed events from those to arrive.
CepInv ==
    /\ CepTypeOK /\ EventTimeOrder
    /\ \A i \in 1 .. Len(processed) : processed[i].time <= watermark
    /\ ExactUpTo(processed, matches)
    /\ PartialsIn(processed, matches, partial, LatestTime)

------------------------------------------------------------------------------
(* Sequences.                                                               *)

LEMMA RemoveAtProperties ==
    ASSUME NEW S, NEW s \in Seq(S), NEW i \in 1 .. Len(s)
    PROVE  /\ RemoveAt(s, i) \in Seq(S)
           /\ Len(RemoveAt(s, i)) = Len(s) - 1
           /\ \A j \in 1 .. Len(s) - 1 : RemoveAt(s, i)[j] = IF j < i THEN s[j] ELSE s[j + 1]
  <1> DEFINE a == SubSeq(s, 1, i - 1)
             b == SubSeq(s, i + 1, Len(s))
  <1>1. a \in Seq(S) /\ Len(a) = i - 1 /\ \A j \in 1 .. i - 1 : a[j] = s[j]
    BY SubSeqProperties, SMT
  <1>2. b \in Seq(S) /\ Len(b) = Len(s) - i /\ \A j \in 1 .. Len(s) - i : b[j] = s[i + j]
    BY SubSeqProperties, SMT
  <1>3. RemoveAt(s, i) = a \o b /\ Len(s) \in Nat
    BY LenProperties DEF RemoveAt
  <1> HIDE DEF a, b
  <1>4. /\ a \o b \in Seq(S) /\ Len(a \o b) = Len(a) + Len(b)
        /\ \A j \in 1 .. Len(a) + Len(b) : (a \o b)[j] = IF j <= Len(a) THEN a[j] ELSE b[j - Len(a)]
    BY <1>1, <1>2, ConcatProperties
  <1>5. Len(a) + Len(b) = Len(s) - 1
    BY <1>1, <1>2, <1>3
  <1>6. ASSUME NEW j \in 1 .. Len(s) - 1
        PROVE  (a \o b)[j] = IF j < i THEN s[j] ELSE s[j + 1]
    <2>1. (a \o b)[j] = IF j <= Len(a) THEN a[j] ELSE b[j - Len(a)]
      BY <1>4, <1>5
    <2>2. CASE j < i
      BY <2>1, <2>2, <1>1
    <2>3. CASE ~(j < i)
      <3>1. j - (i - 1) \in 1 .. Len(s) - i /\ i + (j - (i - 1)) = j + 1 /\ ~(j <= i - 1)
        BY <2>3, <1>3
      <3> QED BY <3>1, <2>1, <2>3, <1>1, <1>2
    <2> QED BY <2>2, <2>3
  <1> QED BY <1>3, <1>4, <1>5, <1>6

\* What is left of a sequence without one of its elements.
LEMMA RemainingElements ==
    ASSUME NEW S, NEW s \in Seq(S), NEW i \in 1 .. Len(s), NEW b \in 1 .. Len(RemoveAt(s, i))
    PROVE  \E j \in 1 .. Len(s) : j # i /\ RemoveAt(s, i)[b] = s[j]
  <1>1. Len(s) \in Nat /\ b \in 1 .. Len(s) - 1
        /\ RemoveAt(s, i)[b] = IF b < i THEN s[b] ELSE s[b + 1]
    BY RemoveAtProperties, LenProperties
  <1>2. CASE b < i
    BY <1>1, <1>2
  <1>3. CASE ~(b < i)
    BY <1>1, <1>3
  <1> QED BY <1>2, <1>3

LEMMA Appended ==
    ASSUME NEW S, NEW s \in Seq(S), NEW e \in S
    PROVE  /\ Append(s, e) \in Seq(S) /\ Len(s) \in Nat
           /\ Len(Append(s, e)) = Len(s) + 1
           /\ \A i \in 1 .. Len(s) : Append(s, e)[i] = s[i]
           /\ Append(s, e)[Len(s) + 1] = e
  BY LenProperties, AppendProperties

------------------------------------------------------------------------------
(* One more event e fed, and a match that ends at it or none.               *)

\* ma2 is ma, or ma and a match that ends at n.
Extends(ma2, ma, n) ==
    ma2 = ma \/ \E x \in Match : x.current = n /\ ma2 = Append(ma, x)

\* A match reported at n takes nothing from what began and ended before.
LEMMA UnmatchedStable ==
    ASSUME NEW ma \in Seq(Match), NEW ma2, NEW n \in Nat, Extends(ma2, ma, n),
           NEW i \in Int, NEW k \in Int, k <= n
    PROVE  UnmatchedIn(ma2, i, k) <=> UnmatchedIn(ma, i, k)
  <1>1. CASE ma2 = ma
    BY <1>1
  <1>2. ASSUME NEW x \in Match, x.current = n, ma2 = Append(ma, x)
        PROVE  UnmatchedIn(ma2, i, k) <=> UnmatchedIn(ma, i, k)
    <2>1. /\ Len(ma) \in Nat /\ Len(ma2) = Len(ma) + 1
          /\ \A m \in 1 .. Len(ma) : ma2[m] = ma[m]
          /\ ma2[Len(ma) + 1] = x
      BY <1>2, Appended
    <2>2. x.current \notin i .. k - 1
      BY <1>2
    <2>3. \A m \in 1 .. Len(ma) : m \in 1 .. Len(ma2)
      BY <2>1
    <2>4. \A m \in 1 .. Len(ma2) : m \in 1 .. Len(ma) \/ m = Len(ma) + 1
      BY <2>1
    <2>5. ASSUME UnmatchedIn(ma, i, k), NEW m \in 1 .. Len(ma2)
          PROVE  ma2[m].current \notin i .. k - 1
      BY <2>5, <2>1, <2>2, <2>4 DEF UnmatchedIn
    <2>6. ASSUME UnmatchedIn(ma2, i, k), NEW m \in 1 .. Len(ma)
          PROVE  ma[m].current \notin i .. k - 1
      BY <2>6, <2>1, <2>3 DEF UnmatchedIn
    <2> QED BY <2>5, <2>6 DEF UnmatchedIn
  <1> QED BY <1>1, <1>2 DEF Extends

LEMMA BeginningsStable ==
    ASSUME NEW pr \in Seq(SensorEvent), NEW e \in SensorEvent, NEW ma \in Seq(Match), NEW ma2,
           Extends(ma2, ma, Len(pr) + 1), NEW k \in 1 .. Len(pr)
    PROVE  BeginningsIn(Append(pr, e), ma2, k) = BeginningsIn(pr, ma, k)
  <1>1. Len(pr) \in Nat /\ \A i \in 1 .. Len(pr) : Append(pr, e)[i] = pr[i]
    BY Appended
  <1>2. \A i \in 1 .. k - 1 : i \in 1 .. Len(pr)
    BY <1>1
  <1>3. \A i \in 1 .. k - 1 : \A j \in i + 1 .. k - 1 : j \in 1 .. Len(pr)
    BY <1>1
  <1>4. \A i \in 1 .. k - 1 : UnmatchedIn(ma2, i, k) <=> UnmatchedIn(ma, i, k)
    BY <1>1, UnmatchedStable
  <1>5. ASSUME NEW i \in 1 .. k - 1
        PROVE  i \in BeginningsIn(Append(pr, e), ma2, k) <=> i \in BeginningsIn(pr, ma, k)
    <2>1. Append(pr, e)[i] = pr[i] /\ Append(pr, e)[k] = pr[k]
      BY <1>1, <1>2
    <2>2. \A j \in i + 1 .. k - 1 : Append(pr, e)[j] = pr[j]
      BY <1>1, <1>3
    <2> QED BY <2>1, <2>2, <1>4 DEF BeginningsIn, ShowsIn
  <1> QED BY <1>5 DEF BeginningsIn

LEMMA FirstVibStable ==
    ASSUME NEW pr \in Seq(SensorEvent), NEW e \in SensorEvent,
           NEW t \in 1 .. Len(pr), NEW v \in Int, NEW n \in 0 .. Len(pr)
    PROVE  /\ FirstVibIn(pr, t, v, n) <=> FirstVibIn(Append(pr, e), t, v, n)
           /\ NoVibIn(pr, t, n) <=> NoVibIn(Append(pr, e), t, n)
  <1>1. Len(pr) \in Nat /\ \A i \in 1 .. Len(pr) : Append(pr, e)[i] = pr[i]
    BY Appended
  <1>2. \A j \in t + 1 .. n : j \in 1 .. Len(pr)
    BY <1>1
  <1>3. \A j \in t + 1 .. n : Append(pr, e)[j] = pr[j]
    BY <1>1, <1>2
  <1>4. NoVibIn(pr, t, n) <=> NoVibIn(Append(pr, e), t, n)
    BY <1>3 DEF NoVibIn, ShowsIn
  <1>5. CASE v \in t + 1 .. n
    <2>1. \A j \in t + 1 .. v - 1 : Append(pr, e)[j] = pr[j]
      BY <1>5, <1>3
    <2> QED BY <2>1, <1>3, <1>4, <1>5 DEF NoVibIn, FirstVibIn, ShowsIn
  <1>6. CASE ~(v \in t + 1 .. n)
    BY <1>4, <1>6 DEF FirstVibIn
  <1> QED BY <1>5, <1>6

\* What was exact stays so.
LEMMA ExactStable ==
    ASSUME NEW pr \in Seq(SensorEvent), NEW e \in SensorEvent, NEW ma \in Seq(Match), NEW ma2,
           Extends(ma2, ma, Len(pr) + 1), ExactUpTo(pr, ma)
    PROVE  /\ \A k \in 1 .. Len(pr) : ExactIn(Append(pr, e), ma2, k)
           /\ \A m \in 1 .. Len(ma) : GoodIn(Append(pr, e), ma2, ma[m])
  <1>1. /\ Len(pr) \in Nat /\ Len(Append(pr, e)) = Len(pr) + 1
        /\ \A i \in 1 .. Len(pr) : Append(pr, e)[i] = pr[i]
    BY Appended
  <1>2. ASSUME NEW k \in 1 .. Len(pr)
        PROVE  ExactIn(Append(pr, e), ma2, k)
    <2>1. EndsIn(ma2, k) <=> EndsIn(ma, k)
      <3>1. CASE ma2 = ma
        BY <3>1
      <3>2. ASSUME NEW x \in Match, x.current = Len(pr) + 1, ma2 = Append(ma, x)
            PROVE  EndsIn(ma2, k) <=> EndsIn(ma, k)
        <4>1. /\ Len(ma) \in Nat /\ Len(ma2) = Len(ma) + 1
              /\ \A m \in 1 .. Len(ma) : ma2[m] = ma[m]
              /\ ma2[Len(ma) + 1] = x
          BY <3>2, Appended
        <4>2. x.current # k
          BY <3>2, <1>1
        <4>3. \A m \in 1 .. Len(ma) : m \in 1 .. Len(ma2)
          BY <4>1
        <4>4. \A m \in 1 .. Len(ma2) : m \in 1 .. Len(ma) \/ m = Len(ma) + 1
          BY <4>1
        <4> QED BY <4>1, <4>2, <4>3, <4>4 DEF EndsIn
      <3> QED BY <3>1, <3>2 DEF Extends
    <2>2. BeginningsIn(Append(pr, e), ma2, k) = BeginningsIn(pr, ma, k)
      BY BeginningsStable
    <2>3. ExactIn(pr, ma, k) /\ Append(pr, e)[k] = pr[k]
      BY <1>1 DEF ExactUpTo
    <2> QED BY <2>1, <2>2, <2>3 DEF ExactIn, ShowsIn
  <1>3. ASSUME NEW m \in 1 .. Len(ma)
        PROVE  GoodIn(Append(pr, e), ma2, ma[m])
    <2>1. GoodIn(pr, ma, ma[m]) /\ ma[m] \in Match
      BY ElementOfSeq DEF ExactUpTo
    <2>2. ma[m].current \in 1 .. Len(pr) /\ ma[m].current \in 1 .. Len(pr) + 1 /\ ma[m].vib \in Nat
      BY <2>1, <1>1 DEF GoodIn, Match
    <2>3. BeginningsIn(Append(pr, e), ma2, ma[m].current) = BeginningsIn(pr, ma, ma[m].current)
      BY <2>2, BeginningsStable
    <2>4. ma[m].temp \in 1 .. Len(pr) /\ ma[m].current - 1 \in 0 .. Len(pr)
      <3>1. ma[m].temp \in BeginningsIn(pr, ma, ma[m].current)
        BY <2>1 DEF GoodIn
      <3>2. ma[m].temp \in 1 .. ma[m].current - 1
        BY <3>1 DEF BeginningsIn
      <3> QED BY <3>2, <2>2, <1>1
    <2>5. FirstVibIn(Append(pr, e), ma[m].temp, ma[m].vib, ma[m].current - 1)
      BY <2>1, <2>2, <2>4, FirstVibStable DEF GoodIn
    <2> QED BY <2>1, <2>2, <2>3, <2>5, <1>1 DEF GoodIn
  <1> QED BY <1>2, <1>3

------------------------------------------------------------------------------
(* The partial matches when event e comes.                                  *)

AliveIn(pr, pa, e) == {p \in pa : e.time - pr[p.temp].time < Within}

LatestIn(pr) == pr[Len(pr)].time

LEMMA AliveExact ==
    ASSUME NEW pr \in Seq(SensorEvent), NEW e \in SensorEvent, NEW ma \in Seq(Match),
           NEW pa \in SUBSET Partial, OrderedIn(Append(pr, e)),
           PartialsIn(pr, ma, pa, LatestIn(pr))
    PROVE  /\ \A p \in AliveIn(pr, pa, e) :
                 p.temp \in 1 .. Len(pr) /\ OpenIn(pr, ma, p.temp, e.time) /\ StageIn(pr, p)
           /\ \A i \in 1 .. Len(pr) :
                 OpenIn(pr, ma, i, e.time) => \E p \in AliveIn(pr, pa, e) : p.temp = i
  <1>1. \A p \in AliveIn(pr, pa, e) :
           p.temp \in 1 .. Len(pr) /\ OpenIn(pr, ma, p.temp, e.time) /\ StageIn(pr, p)
    BY DEF AliveIn, PartialsIn, OpenIn
  <1>2. ASSUME NEW i \in 1 .. Len(pr), OpenIn(pr, ma, i, e.time)
        PROVE  \E p \in AliveIn(pr, pa, e) : p.temp = i
    <2>1. /\ Len(pr) \in 1 .. Len(pr) /\ Len(pr) \in Nat /\ Len(Append(pr, e)) = Len(pr) + 1
          /\ Append(pr, e)[Len(pr)] = pr[Len(pr)] /\ Append(pr, e)[Len(pr) + 1] = e
      BY Appended
    <2>2. LatestIn(pr) <= e.time
      <3>1. Len(pr) \in 1 .. Len(pr) + 1 /\ Len(pr) + 1 \in 1 .. Len(pr) + 1 /\ Len(pr) < Len(pr) + 1
        BY <2>1
      <3> QED BY <2>1, <3>1 DEF OrderedIn, LatestIn
    <2>3. pr[i] \in SensorEvent /\ pr[Len(pr)] \in SensorEvent
      BY <2>1, ElementOfSeq
    <2>4. LatestIn(pr) - pr[i].time < Within
      <3>1. LatestIn(pr) \in Nat /\ pr[i].time \in Nat /\ e.time \in Nat /\ Within \in Nat
        BY <2>3, CepAssumption DEF SensorEvent, LatestIn
      <3>2. e.time - pr[i].time < Within
        BY <1>2 DEF OpenIn
      <3> QED BY <3>1, <3>2, <2>2
    <2>5. PICK p \in pa : p.temp = i
      BY <1>2, <2>4 DEF PartialsIn, OpenIn
    <2> QED BY <1>2, <2>5 DEF AliveIn, OpenIn
  <1> QED BY <1>1, <1>2

\* The events a match ending at e may begin at are those of the partial
\* matches that wait for their last stage.
LEMMA BeginningsNew ==
    ASSUME NEW pr \in Seq(SensorEvent), NEW e \in SensorEvent, NEW ma \in Seq(Match),
           NEW pa \in SUBSET Partial, OrderedIn(Append(pr, e)),
           PartialsIn(pr, ma, pa, LatestIn(pr)),
           NEW ma2, Extends(ma2, ma, Len(pr) + 1)
    PROVE  /\ \A i \in BeginningsIn(Append(pr, e), ma2, Len(pr) + 1) :
                 \E p \in AliveIn(pr, pa, e) : p.vib # None /\ p.temp = i
           /\ \A p \in AliveIn(pr, pa, e) :
                 p.vib # None => p.temp \in BeginningsIn(Append(pr, e), ma2, Len(pr) + 1)
  <1>1. /\ Len(pr) \in Nat /\ Append(pr, e)[Len(pr) + 1] = e
        /\ \A i \in 1 .. Len(pr) : Append(pr, e)[i] = pr[i]
    BY Appended
  <1>2. Len(pr) + 1 - 1 = Len(pr)
    BY <1>1
  <1>3. \A i \in 1 .. Len(pr) :
           UnmatchedIn(ma2, i, Len(pr) + 1) <=> UnmatchedIn(ma, i, Len(pr) + 1)
    BY <1>1, UnmatchedStable
  <1>4. ASSUME NEW i \in BeginningsIn(Append(pr, e), ma2, Len(pr) + 1)
        PROVE  \E p \in AliveIn(pr, pa, e) : p.vib # None /\ p.temp = i
    <2>1. i \in 1 .. Len(pr) /\ \E j \in i + 1 .. Len(pr) : ShowsIn(Append(pr, e), j, "vib")
      BY <1>2 DEF BeginningsIn
    <2>2. OpenIn(pr, ma, i, e.time)
      BY <1>1, <1>3, <2>1 DEF BeginningsIn, OpenIn, ShowsIn
    <2>3. PICK p \in AliveIn(pr, pa, e) : p.temp = i
      BY <2>1, <2>2, AliveExact
    <2>4. PICK j \in i + 1 .. Len(pr) : ShowsIn(Append(pr, e), j, "vib")
      BY <2>1
    <2>5. j \in 1 .. Len(pr)
      BY <2>1, <1>1
    <2>6. ShowsIn(pr, j, "vib")
      BY <2>4, <2>5, <1>1 DEF ShowsIn
    <2>7. ~NoVibIn(pr, p.temp, Len(pr))
      BY <2>3, <2>4, <2>6 DEF NoVibIn
    <2> QED BY <2>3, <2>7, AliveExact DEF StageIn
  <1>5. ASSUME NEW p \in AliveIn(pr, pa, e), p.vib # None
        PROVE  p.temp \in BeginningsIn(Append(pr, e), ma2, Len(pr) + 1)
    <2>1. p.temp \in 1 .. Len(pr) /\ OpenIn(pr, ma, p.temp, e.time)
          /\ FirstVibIn(pr, p.temp, p.vib, Len(pr))
      BY <1>5, AliveExact DEF StageIn
    <2>2. p.vib \in p.temp + 1 .. Len(pr) /\ ShowsIn(pr, p.vib, "vib")
      BY <2>1 DEF FirstVibIn
    <2>3. p.vib \in 1 .. Len(pr)
      BY <2>1, <2>2, <1>1
    <2>4. ShowsIn(Append(pr, e), p.vib, "vib") /\ ShowsIn(Append(pr, e), p.temp, "temp")
      BY <1>1, <2>1, <2>2, <2>3 DEF ShowsIn, OpenIn
    <2>5. Append(pr, e)[Len(pr) + 1].time - Append(pr, e)[p.temp].time < Within
      BY <1>1, <2>1 DEF OpenIn
    <2> QED BY <1>2, <1>3, <2>1, <2>2, <2>4, <2>5 DEF BeginningsIn, OpenIn
  <1> QED BY <1>4, <1>5

------------------------------------------------------------------------------
(* The partial matches after event e.                                       *)

AdvanceIn(p, e, n) == [p EXCEPT !.vib = IF @ = None /\ "vib" \in e.anomalies THEN n ELSE @]

AdvancedIn(pr, pa, e) ==
    {AdvanceIn(p, e, Len(pr) + 1) : p \in AliveIn(pr, pa, e)}
        \cup (IF "temp" \in e.anomalies THEN {[temp |-> Len(pr) + 1, vib |-> None]} ELSE {})

\* An advanced partial match is at the stage its events say.
LEMMA StageAdvanced ==
    ASSUME NEW pr \in Seq(SensorEvent), NEW e \in SensorEvent, NEW p \in Partial,
           p.temp \in 1 .. Len(pr), StageIn(pr, p)
    PROVE  LET q == AdvanceIn(p, e, Len(pr) + 1)
           IN  q \in Partial /\ q.temp = p.temp /\ StageIn(Append(pr, e), q)
  <1> DEFINE n == Len(pr) + 1
             q == AdvanceIn(p, e, n)
  <1>1. /\ Len(pr) \in Nat /\ Len(Append(pr, e)) = n /\ Append(pr, e)[n] = e /\ n \in Nat \ {0}
        /\ \A i \in 1 .. Len(pr) : Append(pr, e)[i] = pr[i]
    BY Appended
  <1>2. p.vib \in Nat /\ p.temp \in Nat \ {0} /\ q.temp = p.temp
        /\ q.vib = (IF p.vib = None /\ "vib" \in e.anomalies THEN n ELSE p.vib)
    BY DEF Partial, AdvanceIn
  <1>3. q \in Partial
    BY <1>1, <1>2 DEF Partial, AdvanceIn
  <1>4. Len(pr) \in 0 .. Len(pr) /\ p.temp \in Int
    BY <1>1
  <1>5. StageIn(Append(pr, e), q)
    <2>1. CASE p.vib # None
      <3>1. FirstVibIn(Append(pr, e), p.temp, p.vib, Len(pr))
        BY <1>2, <1>4, <2>1, FirstVibStable DEF StageIn
      <3>2. p.vib \in p.temp + 1 .. n
        BY <3>1, <1>1, <1>2 DEF FirstVibIn
      <3> QED BY <3>1, <3>2, <1>1, <1>2, <2>1 DEF FirstVibIn, StageIn
    <2>2. CASE p.vib = None
      <3>1. NoVibIn(Append(pr, e), p.temp, Len(pr))
        BY <1>2, <1>4, <2>2, FirstVibStable DEF StageIn
      <3>2. CASE "vib" \in e.anomalies
        <4>1. q.vib = n /\ n # None /\ n - 1 = Len(pr) /\ n \in p.temp + 1 .. n
          BY <1>1, <1>2, <2>2, <3>2 DEF None
        <4> QED BY <4>1, <3>1, <3>2, <1>1, <1>2 DEF FirstVibIn, StageIn, ShowsIn
      <3>3. CASE "vib" \notin e.anomalies
        <4>1. \A j \in p.temp + 1 .. n : j \in p.temp + 1 .. Len(pr) \/ j = n
          BY <1>1, <1>2
        <4>2. NoVibIn(Append(pr, e), p.temp, n)
          BY <4>1, <3>1, <3>3, <1>1 DEF NoVibIn, ShowsIn
        <4> QED BY <4>2, <1>1, <1>2, <2>2, <3>3 DEF StageIn
      <3> QED BY <3>2, <3>3
    <2> QED BY <2>1, <2>2
  <1> QED BY <1>2, <1>3, <1>5

\* No match ends at e: what can still begin is advanced, or begins with e.
LEMMA PartialsAdvanced ==
    ASSUME NEW pr \in Seq(SensorEvent), NEW e \in SensorEvent, NEW ma \in Seq(Match),
           NEW pa \in SUBSET Partial, OrderedIn(Append(pr, e)),
           PartialsIn(pr, ma, pa, LatestIn(pr)),
           \A m \in 1 .. Len(ma) : ma[m].current \in 1 .. Len(pr)
    PROVE  /\ AdvancedIn(pr, pa, e) \subseteq Partial
           /\ PartialsIn(Append(pr, e), ma, AdvancedIn(pr, pa, e), e.time)
  <1> DEFINE n == Len(pr) + 1
             pr2 == Append(pr, e)
             fresh == [temp |-> n, vib |-> None]
  <1>1. /\ Len(pr) \in Nat /\ Len(pr2) = n /\ pr2[n] = e /\ n \in Nat \ {0}
        /\ \A i \in 1 .. Len(pr) : pr2[i] = pr[i] /\ i \in 1 .. n
        /\ n \in 1 .. n
        /\ \A i \in 1 .. n : i \in 1 .. Len(pr) \/ i = n
    BY Appended
  <1>2. \A i \in 1 .. Len(pr) : UnmatchedIn(ma, i, n + 1) <=> UnmatchedIn(ma, i, n)
    <2> SUFFICES ASSUME NEW i \in 1 .. Len(pr), NEW m \in 1 .. Len(ma)
                 PROVE  ma[m].current \in i .. n + 1 - 1 <=> ma[m].current \in i .. n - 1
      BY DEF UnmatchedIn
    <2>1. ma[m].current \in 1 .. Len(pr)
      OBVIOUS
    <2> QED BY <2>1, <1>1
  <1>3. UnmatchedIn(ma, n, n + 1)
    BY <1>1 DEF UnmatchedIn
  <1>4. \A i \in 1 .. Len(pr) : OpenIn(pr2, ma, i, e.time) <=> OpenIn(pr, ma, i, e.time)
    BY <1>1, <1>2 DEF OpenIn, ShowsIn
  <1>5. OpenIn(pr2, ma, n, e.time) <=> "temp" \in e.anomalies
    <2>1. e.time - e.time < Within
      BY CepAssumption DEF SensorEvent
    <2> QED BY <1>1, <1>3, <2>1 DEF OpenIn, ShowsIn
  <1>6. \A p \in AliveIn(pr, pa, e) :
           /\ p \in Partial /\ AdvanceIn(p, e, n) \in Partial
           /\ AdvanceIn(p, e, n).temp = p.temp /\ StageIn(pr2, AdvanceIn(p, e, n))
           /\ p.temp \in 1 .. Len(pr) /\ OpenIn(pr, ma, p.temp, e.time)
    BY AliveExact, StageAdvanced DEF AliveIn
  <1>7. fresh \in Partial /\ fresh.temp = n /\ StageIn(pr2, fresh)
    <2>1. NoVibIn(pr2, n, n)
      BY <1>1 DEF NoVibIn
    <2> QED BY <2>1, <1>1 DEF Partial, StageIn, None
  <1>8. AdvancedIn(pr, pa, e) \subseteq Partial
    BY <1>6, <1>7 DEF AdvancedIn
  <1>9. ASSUME NEW q \in AdvancedIn(pr, pa, e)
        PROVE  q.temp \in 1 .. Len(pr2) /\ OpenIn(pr2, ma, q.temp, e.time) /\ StageIn(pr2, q)
    <2>1. CASE \E p \in AliveIn(pr, pa, e) : q = AdvanceIn(p, e, n)
      BY <2>1, <1>1, <1>4, <1>6
    <2>2. CASE "temp" \in e.anomalies /\ q = fresh
      BY <2>2, <1>1, <1>5, <1>7
    <2> QED BY <2>1, <2>2 DEF AdvancedIn
  <1>10. ASSUME NEW i \in 1 .. Len(pr2), OpenIn(pr2, ma, i, e.time)
         PROVE  \E q \in AdvancedIn(pr, pa, e) : q.temp = i
    <2>1. CASE i \in 1 .. Len(pr)
      <3>1. PICK p \in AliveIn(pr, pa, e) : p.temp = i
        BY <2>1, <1>4, <1>10, AliveExact
      <3>2. AdvanceIn(p, e, n) \in AdvancedIn(pr, pa, e)
        BY DEF AdvancedIn
      <3> QED BY <3>1, <3>2, <1>6
    <2>2. CASE i = n
      <3>1. fresh \in AdvancedIn(pr, pa, e)
        BY <2>2, <1>5, <1>10 DEF AdvancedIn
      <3> QED BY <3>1, <2>2
    <2> QED BY <2>1, <2>2, <1>1
  <1> QED BY <1>8, <1>9, <1>10 DEF PartialsIn

\* A match ends at e: nothing begun until then is open.
LEMMA PartialsReported ==
    ASSUME NEW pr \in Seq(SensorEvent), NEW e \in SensorEvent, NEW ma \in Seq(Match),
           NEW x \in Match, x.current = Len(pr) + 1
    PROVE  PartialsIn(Append(pr, e), Append(ma, x), {}, e.time)
  <1>1. /\ Len(pr) \in Nat /\ Len(Append(pr, e)) = Len(pr) + 1
        /\ Len(ma) \in Nat /\ Len(Append(ma, x)) = Len(ma) + 1 /\ Append(ma, x)[Len(ma) + 1] = x
    BY Appended
  <1>2. ASSUME NEW i \in 1 .. Len(pr) + 1
        PROVE  ~UnmatchedIn(Append(ma, x), i, Len(pr) + 1 + 1)
    <2>1. Len(ma) + 1 \in 1 .. Len(Append(ma, x)) /\ Len(pr) + 1 \in i .. Len(pr) + 1 + 1 - 1
      BY <1>1
    <2> QED BY <2>1, <1>1 DEF UnmatchedIn
  <1> QED BY <1>1, <1>2 DEF PartialsIn, OpenIn

------------------------------------------------------------------------------
(* What is reported at event e.                                             *)

LEMMA ReportedExactly ==
    ASSUME NEW pr \in Seq(SensorEvent), NEW e \in SensorEvent, NEW ma \in Seq(Match),
           NEW pa \in SUBSET Partial, OrderedIn(Append(pr, e)),
           PartialsIn(pr, ma, pa, LatestIn(pr)), ExactUpTo(pr, ma),
           "current" \in e.anomalies,
           NEW p \in AliveIn(pr, pa, e), p.vib # None,
           \A q \in AliveIn(pr, pa, e) : q.vib # None => p.temp <= q.temp,
           NEW x, x = [temp |-> p.temp, vib |-> p.vib, current |-> Len(pr) + 1]
    PROVE  /\ x \in Match
           /\ ExactUpTo(Append(pr, e), Append(ma, x))
           /\ \A m \in 1 .. Len(ma) : ma[m].current < x.temp
  <1> DEFINE n == Len(pr) + 1
             pr2 == Append(pr, e)
             ma2 == Append(ma, x)
  <1>1. /\ Len(pr) \in Nat /\ Len(pr2) = n /\ pr2[n] = e /\ n \in Nat \ {0} /\ n \in 1 .. n
        /\ \A i \in 1 .. n : i \in 1 .. Len(pr) \/ i = n
        /\ n - 1 = Len(pr)
    BY Appended
  <1>2. p \in Partial /\ p.temp \in 1 .. Len(pr) /\ OpenIn(pr, ma, p.temp, e.time)
        /\ FirstVibIn(pr, p.temp, p.vib, Len(pr)) /\ p.vib \in Nat \ {0} /\ p.temp \in Nat \ {0}
    BY AliveExact DEF AliveIn, StageIn, Partial, None
  <1>3. x \in Match /\ x.temp = p.temp /\ x.vib = p.vib /\ x.current = n
    BY <1>1, <1>2 DEF Match
  <1>4. /\ Len(ma) \in Nat /\ Len(ma2) = Len(ma) + 1 /\ ma2[Len(ma) + 1] = x
        /\ \A m \in 1 .. Len(ma) : ma2[m] = ma[m]
        /\ Len(ma) + 1 \in 1 .. Len(ma2)
        /\ \A m \in 1 .. Len(ma2) : m \in 1 .. Len(ma) \/ m = Len(ma) + 1
    BY <1>3, Appended
  <1>5. Extends(ma2, ma, n)
    BY <1>3 DEF Extends
  <1>6. GoodIn(pr2, ma2, x)
    <2>1. x.temp \in BeginningsIn(pr2, ma2, n)
      BY <1>3, <1>5, BeginningsNew
    <2>2. \A i \in BeginningsIn(pr2, ma2, n) : x.temp <= i
      BY <1>3, <1>5, BeginningsNew
    <2>3. Len(pr) \in 0 .. Len(pr) /\ p.vib \in Int
      BY <1>1, <1>2
    <2>4. FirstVibIn(pr2, p.temp, p.vib, Len(pr))
      BY <1>2, <2>3, FirstVibStable
    <2> QED BY <1>1, <1>3, <2>1, <2>2, <2>4 DEF GoodIn
  <1>7. ExactIn(pr2, ma2, n)
    <2>1. EndsIn(ma2, n)
      BY <1>3, <1>4 DEF EndsIn
    <2> QED BY <1>1, <1>3, <1>6, <2>1 DEF ExactIn, ShowsIn, GoodIn
  <1>8. ExactUpTo(pr2, ma2)
    <2>1. /\ \A k \in 1 .. Len(pr) : ExactIn(pr2, ma2, k)
          /\ \A m \in 1 .. Len(ma) : GoodIn(pr2, ma2, ma[m])
      BY <1>5, ExactStable
    <2> QED BY <2>1, <1>1, <1>4, <1>6, <1>7 DEF ExactUpTo
  <1>9. ASSUME NEW m \in 1 .. Len(ma)
        PROVE  ma[m].current < x.temp
    <2>1. ma[m].current \in 1 .. Len(pr)
      BY DEF ExactUpTo, GoodIn
    <2>2. ma[m].current \notin p.temp .. n - 1
      BY <1>2 DEF OpenIn, UnmatchedIn
    <2> QED BY <1>1, <1>2, <1>3, <2>1, <2>2
  <1> QED BY <1>3, <1>8, <1>9

LEMMA NothingReported ==
    ASSUME NEW pr \in Seq(SensorEvent), NEW e \in SensorEvent, NEW ma \in Seq(Match),
           NEW pa \in SUBSET Partial, OrderedIn(Append(pr, e)),
           PartialsIn(pr, ma, pa, LatestIn(pr)), ExactUpTo(pr, ma),
           "current" \in e.anomalies => \A p \in AliveIn(pr, pa, e) : p.vib = None
    PROVE  ExactUpTo(Append(pr, e), ma)
  <1> DEFINE n == Len(pr) + 1
             pr2 == Append(pr, e)
  <1>1. /\ Len(pr) \in Nat /\ Len(pr2) = n /\ pr2[n] = e
        /\ \A i \in 1 .. n : i \in 1 .. Len(pr) \/ i = n
    BY Appended
  <1>2. Extends(ma, ma, n)
    BY DEF Extends
  <1>3. ~EndsIn(ma, n)
    <2>1. \A m \in 1 .. Len(ma) : ma[m].current \in 1 .. Len(pr)
      BY DEF ExactUpTo, GoodIn
    <2>2. n \notin 1 .. Len(pr)
      BY <1>1
    <2> QED BY <2>1, <2>2 DEF EndsIn
  <1>4. ~(ShowsIn(pr2, n, "current") /\ BeginningsIn(pr2, ma, n) # {})
    BY <1>1, <1>2, BeginningsNew DEF ShowsIn
  <1>5. /\ \A k \in 1 .. Len(pr) : ExactIn(pr2, ma, k)
        /\ \A m \in 1 .. Len(ma) : GoodIn(pr2, ma, ma[m])
    BY <1>2, ExactStable
  <1> QED BY <1>1, <1>3, <1>4, <1>5 DEF ExactUpTo, ExactIn

------------------------------------------------------------------------------
(* The steps.                                                               *)

LEMMA FedTimes ==
    ASSUME NEW s \in Seq(SensorEvent), NEW i \in 1 .. Len(s)
    PROVE  s[i] \in SensorEvent /\ s[i].time \in Nat
  <1>1. s[i] \in SensorEvent
    BY ElementOfSeq
  <1> QED BY <1>1 DEF SensorEvent

LEMMA InvInit == CepInit => CepInv
  <1> SUFFICES ASSUME CepInit PROVE CepInv
    OBVIOUS
  <1>1. Len(processed) = 0 /\ Len(matches) = 0 /\ Len(buffer) = 0 /\ partial = {}
    BY EmptySeq DEF CepInit
  <1>2. CepTypeOK
    BY CepAssumption, EmptySeq DEF CepInit, CepTypeOK, NoTime
  <1> QED BY <1>1, <1>2 DEF CepInv, EventTimeOrder, ExactUpTo, PartialsIn

\* The parts of the invariant an arrival or a watermark can disturb.
LEMMA ArriveStep == CepInv /\ (\E e \in SensorEvent : Arrive(e)) => CepInv'
  <1> SUFFICES ASSUME CepInv, NEW e \in SensorEvent, Arrive(e) PROVE CepInv'
    OBVIOUS
  <1>1. UNCHANGED <<watermark, processed, partial, matches>>
    BY DEF Arrive
  <1>2. buffer \in Seq(SensorEvent) /\ watermark \in Int /\ maxTime \in Int
        /\ processed \in Seq(SensorEvent) /\ e.time \in Nat
    BY DEF CepInv, CepTypeOK, SensorEvent
  <1>3. buffer' \in Seq(SensorEvent)
        /\ \A b \in 1 .. Len(buffer') :
              (b \in 1 .. Len(buffer) /\ buffer'[b] = buffer[b]) \/ (buffer'[b] = e /\ ~IsLate(e))
    <2>1. CASE IsLate(e)
      BY <2>1, <1>2 DEF Arrive
    <2>2. CASE ~IsLate(e)
      <3>1. buffer' = Append(buffer, e)
        BY <2>2 DEF Arrive
      <3>2. /\ Append(buffer, e) \in Seq(SensorEvent) /\ Len(buffer) \in Nat
            /\ Len(Append(buffer, e)) = Len(buffer) + 1
            /\ \A i \in 1 .. Len(buffer) : Append(buffer, e)[i] = buffer[i]
            /\ Append(buffer, e)[Len(buffer) + 1] = e
        BY <1>2, Appended
      <3>3. \A b \in 1 .. Len(buffer) + 1 : b \in 1 .. Len(buffer) \/ b = Len(buffer) + 1
        BY <3>2
      <3> QED BY <2>2, <3>1, <3>2, <3>3
    <2> QED BY <2>1, <2>2
  <1>4. CepTypeOK'
    BY <1>1, <1>2, <1>3 DEF CepInv, CepTypeOK, Arrive
  <1>5. EventTimeOrder'
    <2>1. ASSUME NEW i \in 1 .. Len(processed), NEW b \in 1 .. Len(buffer')
          PROVE  processed[i].time <= buffer'[b].time
      <3>1. processed[i].time \in Nat
        BY <1>2, FedTimes
      <3>2. CASE b \in 1 .. Len(buffer) /\ buffer'[b] = buffer[b]
        BY <3>2 DEF CepInv, EventTimeOrder
      <3>3. CASE buffer'[b] = e /\ ~IsLate(e)
        <4>1. processed[i].time <= watermark /\ ~(e.time <= watermark)
          BY <3>3 DEF CepInv, IsLate
        <4> QED BY <4>1, <3>1, <3>3, <1>2
      <3> QED BY <3>2, <3>3, <1>3
    <2> QED BY <2>1, <1>1 DEF CepInv, EventTimeOrder
  <1> QED BY <1>1, <1>4, <1>5 DEF CepInv, LatestTime

LEMMA EmitWatermarkStep == CepInv /\ EmitWatermark => CepInv'
  <1> SUFFICES ASSUME CepInv, EmitWatermark PROVE CepInv'
    OBVIOUS
  <1>1. UNCHANGED <<maxTime, buffer, processed, partial, matches>>
    BY DEF EmitWatermark
  <1>2. watermark \in Int /\ watermark' \in Int /\ watermark < watermark'
    BY CepAssumption DEF CepInv, CepTypeOK, EmitWatermark
  <1>3. \A i \in 1 .. Len(processed) : processed[i].time \in Nat
    BY FedTimes DEF CepInv, CepTypeOK
  <1>4. \A i \in 1 .. Len(processed) : processed[i].time <= watermark'
    BY <1>2, <1>3 DEF CepInv
  <1> QED BY <1>1, <1>2, <1>4
        DEF CepInv, CepTypeOK, EventTimeOrder, LatestTime

\* Without one that is due and next, the buffer holds nothing older than it.
LEMMA FeedOrder ==
    ASSUME CepInv, NEW i \in Due, Feed(i)
    PROVE  LET e == buffer[i]
           IN  /\ e \in SensorEvent /\ e.time <= watermark
               /\ processed' = Append(processed, e)
               /\ buffer' \in Seq(SensorEvent)
               /\ \A b \in 1 .. Len(buffer') : e.time <= buffer'[b].time
               /\ \A k \in 1 .. Len(processed) : processed[k].time <= e.time
               /\ \A k \in 1 .. Len(processed), b \in 1 .. Len(buffer') :
                     processed[k].time <= buffer'[b].time
  <1> DEFINE e == buffer[i]
  <1>1. buffer \in Seq(SensorEvent) /\ watermark \in Int /\ i \in 1 .. Len(buffer)
    BY DEF CepInv, CepTypeOK, Due
  <1>2. e \in SensorEvent /\ e.time \in Nat /\ e.time <= watermark
    BY <1>1, FedTimes DEF Due
  <1>3. processed' = Append(processed, e) /\ buffer' = RemoveAt(buffer, i)
        /\ \A j \in Due \ {i} : Before(i, j)
    BY DEF Feed, IsNext
  <1>4. buffer' \in Seq(SensorEvent)
    BY <1>1, <1>3, RemoveAtProperties
  <1>5. ASSUME NEW j \in 1 .. Len(buffer), j # i
        PROVE  e.time <= buffer[j].time
    <2>1. buffer[j].time \in Nat
      BY <1>1, FedTimes
    <2>2. CASE j \in Due
      BY <2>1, <2>2, <1>2, <1>3, <1>5 DEF Before
    <2>3. CASE j \notin Due
      BY <2>1, <2>3, <1>1, <1>2 DEF Due
    <2> QED BY <2>2, <2>3
  <1>6. ASSUME NEW b \in 1 .. Len(buffer')
        PROVE  /\ e.time <= buffer'[b].time
               /\ \A k \in 1 .. Len(processed) : processed[k].time <= buffer'[b].time
    <2>1. PICK j \in 1 .. Len(buffer) : j # i /\ RemoveAt(buffer, i)[b] = buffer[j]
      BY <1>1, <1>3, RemainingElements
    <2> QED BY <2>1, <1>3, <1>5 DEF CepInv, EventTimeOrder
  <1>7. \A k \in 1 .. Len(processed) : processed[k].time <= e.time
    BY <1>1 DEF CepInv, EventTimeOrder
  <1> QED BY <1>2, <1>3, <1>4, <1>6, <1>7

LEMMA OrderedAppended ==
    ASSUME NEW pr \in Seq(SensorEvent), NEW e \in SensorEvent, OrderedIn(pr),
           \A k \in 1 .. Len(pr) : pr[k].time <= e.time
    PROVE  OrderedIn(Append(pr, e))
  <1>1. /\ Len(pr) \in Nat /\ Len(Append(pr, e)) = Len(pr) + 1
        /\ \A i \in 1 .. Len(pr) : Append(pr, e)[i] = pr[i]
        /\ Append(pr, e)[Len(pr) + 1] = e
    BY Appended
  <1> SUFFICES ASSUME NEW i \in 1 .. Len(pr) + 1, NEW j \in 1 .. Len(pr) + 1, i < j
               PROVE  Append(pr, e)[i].time <= Append(pr, e)[j].time
    BY <1>1 DEF OrderedIn
  <1>2. i \in 1 .. Len(pr) /\ (j \in 1 .. Len(pr) \/ j = Len(pr) + 1)
    BY <1>1
  <1> QED BY <1>1, <1>2 DEF OrderedIn

LEMMA FeedStep == CepInv /\ ProcessDue => CepInv'
  <1> SUFFICES ASSUME CepInv, NEW i \in Due, Feed(i) PROVE CepInv'
    BY DEF ProcessDue
  <1> DEFINE e == buffer[i]
             n == Len(processed) + 1
  <1>1. /\ e \in SensorEvent /\ e.time <= watermark
        /\ processed' = Append(processed, e)
        /\ buffer' \in Seq(SensorEvent)
        /\ \A b \in 1 .. Len(buffer') : e.time <= buffer'[b].time
        /\ \A k \in 1 .. Len(processed) : processed[k].time <= e.time
        /\ \A k \in 1 .. Len(processed), b \in 1 .. Len(buffer') :
              processed[k].time <= buffer'[b].time
    BY FeedOrder
  <1>2. processed \in Seq(SensorEvent) /\ matches \in Seq(Match) /\ partial \in SUBSET Partial
        /\ UNCHANGED <<maxTime, watermark>>
    BY DEF CepInv, CepTypeOK, Feed
  <1>3. /\ OrderedIn(processed) /\ ExactUpTo(processed, matches)
        /\ PartialsIn(processed, matches, partial, LatestIn(processed))
    BY DEF CepInv, EventTimeOrder, OrderedIn, LatestTime, LatestIn
  <1> HIDE DEF e
  <1>4. OrderedIn(Append(processed, e))
    BY <1>1, <1>2, <1>3, OrderedAppended
  <1>5. /\ processed' \in Seq(SensorEvent) /\ Len(processed) \in Nat
        /\ Len(processed') = n /\ processed'[n] = e
        /\ \A k \in 1 .. Len(processed) : processed'[k] = processed[k]
        /\ \A k \in 1 .. n : k \in 1 .. Len(processed) \/ k = n
    BY <1>1, <1>2, Appended
  <1>6. \A m \in 1 .. Len(matches) : matches[m].current \in 1 .. Len(processed)
    BY <1>3 DEF ExactUpTo, GoodIn
  <1> DEFINE Reported ==
                /\ matches' \in Seq(Match) /\ partial' \subseteq Partial
                /\ ExactUpTo(processed', matches')
                /\ PartialsIn(processed', matches', partial', e.time)
  <1>7. Reported
    <2>1. ASSUME NEW p \in Completed(e), \A q \in Completed(e) : p.temp <= q.temp, Report(p, e, n)
          PROVE  Reported
      <3> DEFINE x == [temp |-> p.temp, vib |-> p.vib, current |-> n]
      <3>1. /\ "current" \in e.anomalies /\ p \in AliveIn(processed, partial, e) /\ p.vib # None
            /\ \A q \in AliveIn(processed, partial, e) : q.vib # None => p.temp <= q.temp
        BY <2>1 DEF Completed, Alive, AliveIn
      <3>2. /\ x \in Match
            /\ ExactUpTo(Append(processed, e), Append(matches, x))
            /\ \A m \in 1 .. Len(matches) : matches[m].current < x.temp
        BY <3>1, <1>1, <1>2, <1>3, <1>4, ReportedExactly
      <3>3. matches' = Append(matches, x) /\ partial' = {} /\ x.current = n
        BY <2>1 DEF Report
      <3>4. PartialsIn(Append(processed, e), Append(matches, x), {}, e.time)
        BY <3>2, <3>3, <1>1, <1>2, PartialsReported
      <3> HIDE DEF x
      <3>5. /\ matches' \in Seq(Match) /\ Len(matches) \in Nat /\ Len(matches') = Len(matches) + 1
            /\ \A m \in 1 .. Len(matches) : matches'[m] = matches[m]
            /\ matches'[Len(matches) + 1] = x
        BY <3>2, <3>3, <1>2, Appended
      <3> QED BY <3>2, <3>3, <3>4, <3>5, <1>1
    <2>2. ASSUME Completed(e) = {}, partial' = Advanced(e, n), UNCHANGED matches
          PROVE  Reported
      <3>1. partial' = AdvancedIn(processed, partial, e)
        BY <2>2 DEF Advanced, AdvancedIn, AdvanceIn, Alive, AliveIn
      <3>2. "current" \in e.anomalies => \A p \in AliveIn(processed, partial, e) : p.vib = None
        BY <2>2 DEF Completed, Alive, AliveIn
      <3>3. ExactUpTo(Append(processed, e), matches)
        BY <3>2, <1>1, <1>2, <1>3, <1>4, NothingReported
      <3>4. /\ partial' \subseteq Partial
            /\ PartialsIn(Append(processed, e), matches, partial', e.time)
        BY <3>1, <1>1, <1>2, <1>3, <1>4, <1>6, PartialsAdvanced
      <3> QED BY <3>3, <3>4, <2>2, <1>1, <1>2 DEF CepInv
    <2> QED BY <2>1, <2>2 DEF Feed, e
  <1>8. LatestTime' = e.time
    BY <1>5 DEF LatestTime
  <1>9. CepTypeOK'
    BY <1>1, <1>2, <1>5, <1>7 DEF CepInv, CepTypeOK
  <1>10. EventTimeOrder'
    <2>1. OrderedIn(processed')
      BY <1>1, <1>4
    <2>2. ASSUME NEW k \in 1 .. Len(processed'), NEW b \in 1 .. Len(buffer')
          PROVE  processed'[k].time <= buffer'[b].time
      BY <1>1, <1>5
    <2> QED BY <2>1, <2>2 DEF EventTimeOrder, OrderedIn
  <1>11. \A k \in 1 .. Len(processed') : processed'[k].time <= watermark'
    BY <1>1, <1>2, <1>5 DEF CepInv
  <1> QED BY <1>7, <1>8, <1>9, <1>10, <1>11 DEF CepInv

LEMMA InvStep == CepInv /\ [CepNext]_cepVars => CepInv'
  <1> SUFFICES ASSUME CepInv, [CepNext]_cepVars PROVE CepInv'
    OBVIOUS
  <1>1. CASE \E e \in SensorEvent : Arrive(e)
    BY <1>1, ArriveStep
  <1>2. CASE EmitWatermark
    BY <1>2, EmitWatermarkStep
  <1>3. CASE ProcessDue
    BY <1>3, FeedStep
  <1>4. CASE UNCHANGED cepVars
    BY <1>4 DEF cepVars, CepInv, CepTypeOK, EventTimeOrder, LatestTime
  <1> QED BY <1>1, <1>2, <1>3, <1>4 DEF CepNext

LEMMA InvExact == CepInv => MatchesExact
  <1> SUFFICES ASSUME CepInv PROVE MatchesExact
    OBVIOUS
  <1>1. \A i, s : Shows(i, s) <=> ShowsIn(processed, i, s)
    BY DEF Shows, ShowsIn
  <1>2. \A k : Beginnings(k) = BeginningsIn(processed, matches, k)
    BY <1>1 DEF Beginnings, BeginningsIn, Unmatched, UnmatchedIn
  <1>3. ASSUME NEW k \in 1 .. Len(processed)
        PROVE  (\E m \in 1 .. Len(matches) : matches[m].current = k)
                  <=> (Shows(k, "current") /\ Beginnings(k) # {})
    <2>1. ExactIn(processed, matches, k)
      BY DEF CepInv, ExactUpTo
    <2> QED BY <2>1, <1>1, <1>2 DEF ExactIn, EndsIn
  <1>4. ASSUME NEW m \in 1 .. Len(matches)
        PROVE  LET match == matches[m] IN
               /\ match.current <= Len(processed)
               /\ match.temp \in Beginnings(match.current)
               /\ \A i \in Beginnings(match.current) : match.temp <= i
               /\ match.vib \in match.temp + 1 .. match.current - 1
               /\ Shows(match.vib, "vib")
               /\ \A j \in match.temp + 1 .. match.vib - 1 : ~Shows(j, "vib")
    <2>1. GoodIn(processed, matches, matches[m])
      BY DEF CepInv, ExactUpTo
    <2> QED BY <2>1, <1>1, <1>2 DEF GoodIn, FirstVibIn, NoVibIn
  <1> QED BY <1>3, <1>4 DEF MatchesExact

------------------------------------------------------------------------------
(* The theorems about the operator.                                         *)

\* The strengthened invariant.
THEOREM CepInvariance == CepSpec => []CepInv
  <1>1. CepInit => CepInv
    BY InvInit
  <1>2. CepInv /\ [CepNext]_cepVars => CepInv'
    BY InvStep
  <1> QED BY <1>1, <1>2, PTL DEF CepSpec

\* The operator's state, whatever arrives in whatever order.
THEOREM CepTypeCorrect == CepSpec => []CepTypeOK
  <1>1. CepInv => CepTypeOK
    BY DEF CepInv
  <1> QED BY <1>1, CepInvariance, PTL

\* buildPattern is fed in event-time order, however the events arrive.
THEOREM FedInEventTimeOrder == CepSpec => []EventTimeOrder
  <1>1. CepInv => EventTimeOrder
    BY DEF CepInv
  <1> QED BY <1>1, CepInvariance, PTL

\* Matches are exactly the temperature, vibration, current successions within
\* the window, over the events in event-time order.
THEOREM MatchesAreExact == CepSpec => []MatchesExact
  <1>1. CepInv => MatchesExact
    BY InvExact
  <1> QED BY <1>1, CepInvariance, PTL

------------------------------------------------------------------------------
(* The pipeline.                                                            *)

\* An event shows what the machine's faults may make it show.
Fits(e) == e \in SensorEvent /\ Surely(e.time) \subseteq e.anomalies /\ e.anomalies \subseteq Possibly(e.time)

EventsFit ==
    /\ \A e \in inFlight : Fits(e)
    /\ \A i \in 1 .. Len(buffer) : Fits(buffer[i])
    /\ \A i \in 1 .. Len(processed) : Fits(processed[i])

SimTypeOK ==
    /\ schedule \in Schedules /\ simTime \in Nat
    /\ inFlight \subseteq SensorEvent /\ onTime \subseteq SensorEvent
    /\ faults \in 0 .. MaxFaults

\* The strengthening: the watermark stays behind by the budget, and an event's
\* anomalies are those of its time's faults, wherever it is.
PipelineInv == SimTypeOK /\ watermark < maxTime - OutOfOrderness /\ EventsFit /\ OnTimeIsKept

------------------------------------------------------------------------------
LEMMA SimInit == Init => PipelineInv
  <1> SUFFICES ASSUME Init PROVE PipelineInv
    OBVIOUS
  <1>1. Len(buffer) = 0 /\ Len(processed) = 0 /\ inFlight = {} /\ onTime = {}
    BY EmptySeq DEF Init, CepInit
  <1>2. SimTypeOK
    BY PipelineAssumption DEF Init, SimTypeOK
  <1>3. watermark < maxTime - OutOfOrderness
    BY CepAssumption DEF Init, CepInit, NoTime
  <1> QED BY <1>1, <1>2, <1>3 DEF PipelineInv, EventsFit, OnTimeIsKept

\* What fits keeps fitting while the schedule stands, as it always does.
LEMMA FitsStable ==
    ASSUME UNCHANGED schedule
    PROVE  \A e : Fits(e)' <=> Fits(e)
  <1>1. \A t : ActiveAt(t)' = ActiveAt(t)
    BY DEF ActiveAt, IsActiveAt
  <1>2. \A t : FaultElapsed(t)' = FaultElapsed(t)
    BY <1>1 DEF FaultElapsed
  <1> QED BY <1>1, <1>2 DEF Fits, Surely, Possibly

LEMMA TickStep == CepInv /\ PipelineInv /\ Tick => PipelineInv' /\ UNCHANGED cepVars
  <1> SUFFICES ASSUME CepInv, PipelineInv, Tick PROVE PipelineInv' /\ UNCHANGED cepVars
    OBVIOUS
  <1> DEFINE t == simTime + 1
  <1>1. PICK shown \in SUBSET Possibly(t) :
           /\ Surely(t) \subseteq shown
           /\ inFlight' = inFlight \cup {[time |-> t, anomalies |-> shown]}
    BY DEF Tick
  <1>2. /\ UNCHANGED <<schedule, faults, onTime>> /\ simTime' = t
        /\ UNCHANGED <<maxTime, watermark, buffer, processed, partial, matches>>
    BY DEF Tick, cepVars
  <1> DEFINE e == [time |-> t, anomalies |-> shown]
  <1>3. t \in Nat
    BY DEF PipelineInv, SimTypeOK
  <1> HIDE DEF t
  <1>4. Possibly(t) \subseteq Sensors
    BY DEF Possibly, Sensors
  <1>5. e \in SensorEvent /\ Fits(e)
    BY <1>1, <1>3, <1>4 DEF SensorEvent, Fits
  <1> HIDE DEF e
  <1>6. inFlight' = inFlight \cup {e}
    BY <1>1 DEF e
  <1>7. EventsFit'
    BY <1>2, <1>5, <1>6, FitsStable DEF PipelineInv, EventsFit
  <1>8. SimTypeOK'
    BY <1>2, <1>3, <1>5, <1>6 DEF PipelineInv, SimTypeOK
  <1>9. OnTimeIsKept'
    BY <1>2 DEF PipelineInv, OnTimeIsKept, Held
  <1> QED BY <1>2, <1>7, <1>8, <1>9 DEF PipelineInv, cepVars

LEMMA DeliverStep ==
    ASSUME CepInv, PipelineInv, NEW e \in inFlight, Deliver(e)
    PROVE  PipelineInv'
  <1>1. /\ UNCHANGED <<schedule, simTime, watermark, processed>>
        /\ maxTime' = IF e.time > maxTime THEN e.time ELSE maxTime
        /\ buffer' = IF IsLate(e) THEN buffer ELSE Append(buffer, e)
        /\ inFlight' \subseteq inFlight
        /\ onTime' = IF e.time >= maxTime - OutOfOrderness THEN onTime \cup {e} ELSE onTime
    BY DEF Deliver, Arrive
  <1>2. /\ e \in SensorEvent /\ e.time \in Nat /\ Fits(e)
        /\ watermark \in Int /\ maxTime \in Int /\ OutOfOrderness \in Nat
        /\ buffer \in Seq(SensorEvent) /\ watermark < maxTime - OutOfOrderness
    BY CepAssumption DEF PipelineInv, SimTypeOK, EventsFit, SensorEvent, CepInv, CepTypeOK
  <1>3. faults' \in 0 .. MaxFaults
    BY PipelineAssumption DEF Deliver, PipelineInv, SimTypeOK
  <1>4. /\ \A b \in 1 .. Len(buffer') : Fits(buffer'[b])
        /\ \A b \in 1 .. Len(buffer) : \E c \in 1 .. Len(buffer') : buffer'[c] = buffer[b]
        /\ ~IsLate(e) => \E c \in 1 .. Len(buffer') : buffer'[c] = e
    <2>1. CASE IsLate(e)
      BY <2>1, <1>1 DEF PipelineInv, EventsFit
    <2>2. CASE ~IsLate(e)
      <3>1. /\ buffer' = Append(buffer, e) /\ Len(buffer) \in Nat
            /\ Len(buffer') = Len(buffer) + 1 /\ buffer'[Len(buffer) + 1] = e
            /\ \A i \in 1 .. Len(buffer) : buffer'[i] = buffer[i]
        BY <2>2, <1>1, <1>2, Appended
      <3>2. /\ \A b \in 1 .. Len(buffer') : b \in 1 .. Len(buffer) \/ b = Len(buffer) + 1
            /\ \A b \in 1 .. Len(buffer) : b \in 1 .. Len(buffer')
            /\ Len(buffer) + 1 \in 1 .. Len(buffer')
        BY <3>1
      <3> QED BY <3>1, <3>2, <1>2 DEF PipelineInv, EventsFit
    <2> QED BY <2>1, <2>2
  <1>5. EventsFit'
    <2>1. \A f : Fits(f)' <=> Fits(f)
      BY <1>1, FitsStable
    <2> QED BY <2>1, <1>1, <1>4 DEF PipelineInv, EventsFit
  <1>6. SimTypeOK'
    BY <1>1, <1>2, <1>3 DEF PipelineInv, SimTypeOK
  <1>7. watermark' < maxTime' - OutOfOrderness
    BY <1>1, <1>2
  <1>8. OnTimeIsKept'
    <2> SUFFICES ASSUME NEW f \in onTime' PROVE Held(f)'
      BY DEF OnTimeIsKept
    <2>1. CASE f \in onTime
      BY <2>1, <1>1, <1>4 DEF PipelineInv, OnTimeIsKept, Held
    <2>2. CASE f \notin onTime
      <3>1. f = e /\ e.time >= maxTime - OutOfOrderness
        BY <2>2, <1>1
      <3>2. ~IsLate(e)
        BY <3>1, <1>2 DEF IsLate
      <3> QED BY <3>1, <3>2, <1>4 DEF Held
    <2> QED BY <2>1, <2>2
  <1> QED BY <1>5, <1>6, <1>7, <1>8 DEF PipelineInv

LEMMA LoseStep ==
    ASSUME PipelineInv, NEW e \in inFlight, Lose(e)
    PROVE  PipelineInv' /\ UNCHANGED cepVars
  <1>1. /\ UNCHANGED <<schedule, simTime, onTime>> /\ UNCHANGED cepVars
        /\ UNCHANGED <<maxTime, watermark, buffer, processed, partial, matches>>
        /\ inFlight' \subseteq inFlight /\ faults' \in 0 .. MaxFaults
    BY PipelineAssumption DEF Lose, cepVars, PipelineInv, SimTypeOK
  <1>2. EventsFit'
    BY <1>1, FitsStable DEF PipelineInv, EventsFit
  <1> QED BY <1>1, <1>2 DEF PipelineInv, SimTypeOK, OnTimeIsKept, Held

LEMMA WatermarkStep ==
    ASSUME CepInv, PipelineInv, EmitWatermark, UNCHANGED simVars
    PROVE  PipelineInv'
  <1>1. /\ UNCHANGED <<maxTime, buffer, processed>>
        /\ UNCHANGED <<schedule, simTime, inFlight, faults, onTime>>
        /\ watermark' = maxTime - OutOfOrderness - 1
    BY DEF EmitWatermark, simVars
  <1>2. watermark' < maxTime' - OutOfOrderness
    BY <1>1, CepAssumption DEF CepInv, CepTypeOK
  <1>3. EventsFit'
    BY <1>1, FitsStable DEF PipelineInv, EventsFit
  <1> QED BY <1>1, <1>2, <1>3 DEF PipelineInv, SimTypeOK, OnTimeIsKept, Held

LEMMA ProcessStep ==
    ASSUME CepInv, PipelineInv, ProcessDue, UNCHANGED simVars
    PROVE  PipelineInv'
  <1>1. PICK i \in Due : Feed(i)
    BY DEF ProcessDue
  <1>2. /\ UNCHANGED <<maxTime, watermark>>
        /\ UNCHANGED <<schedule, simTime, inFlight, faults, onTime>>
        /\ buffer' = RemoveAt(buffer, i) /\ processed' = Append(processed, buffer[i])
    BY <1>1 DEF Feed, simVars
  <1>3. /\ buffer \in Seq(SensorEvent) /\ processed \in Seq(SensorEvent)
        /\ i \in 1 .. Len(buffer) /\ buffer[i] \in SensorEvent
    BY FedTimes DEF CepInv, CepTypeOK, Due
  <1>4. /\ Len(buffer) \in Nat /\ Len(buffer') = Len(buffer) - 1
        /\ \A j \in 1 .. Len(buffer) - 1 : buffer'[j] = IF j < i THEN buffer[j] ELSE buffer[j + 1]
    BY <1>2, <1>3, RemoveAtProperties, LenProperties
  <1>5. \A j \in 1 .. Len(buffer) : j = i \/ \E b \in 1 .. Len(buffer') : buffer'[b] = buffer[j]
    <2> SUFFICES ASSUME NEW j \in 1 .. Len(buffer), j # i
                 PROVE  \E b \in 1 .. Len(buffer') : buffer'[b] = buffer[j]
      OBVIOUS
    <2>1. CASE j < i
      <3>1. j \in 1 .. Len(buffer') /\ j \in 1 .. Len(buffer) - 1
        BY <2>1, <1>3, <1>4
      <3> QED BY <3>1, <2>1, <1>4
    <2>2. CASE ~(j < i)
      <3>1. j - 1 \in 1 .. Len(buffer') /\ j - 1 \in 1 .. Len(buffer) - 1 /\ ~(j - 1 < i)
            /\ j - 1 + 1 = j
        BY <2>2, <1>3, <1>4
      <3> QED BY <3>1, <1>4
    <2> QED BY <2>1, <2>2
  <1>6. /\ Len(processed) \in Nat /\ Len(processed') = Len(processed) + 1
        /\ processed'[Len(processed) + 1] = buffer[i]
        /\ \A k \in 1 .. Len(processed) : processed'[k] = processed[k] /\ k \in 1 .. Len(processed')
        /\ \A k \in 1 .. Len(processed') : k \in 1 .. Len(processed) \/ k = Len(processed) + 1
        /\ Len(processed) + 1 \in 1 .. Len(processed')
    BY <1>2, <1>3, Appended
  <1>7. EventsFit'
    <2>1. \A f : Fits(f)' <=> Fits(f)
      BY <1>2, FitsStable
    <2>2. \A b \in 1 .. Len(buffer') : Fits(buffer'[b])
      BY <1>2, <1>3, RemainingElements DEF PipelineInv, EventsFit
    <2>3. \A k \in 1 .. Len(processed') : Fits(processed'[k])
      BY <1>3, <1>6 DEF PipelineInv, EventsFit
    <2> QED BY <2>1, <2>2, <2>3, <1>2 DEF PipelineInv, EventsFit
  <1>8. ASSUME NEW f, Held(f)
        PROVE  Held(f)'
    <2>1. CASE \E k \in 1 .. Len(processed) : f = processed[k]
      BY <2>1, <1>6 DEF Held
    <2>2. CASE \E j \in 1 .. Len(buffer) : f = buffer[j]
      BY <2>2, <1>5, <1>6 DEF Held
    <2> QED BY <2>1, <2>2, <1>8 DEF Held
  <1>9. OnTimeIsKept'
    BY <1>2, <1>8 DEF PipelineInv, OnTimeIsKept
  <1> QED BY <1>2, <1>7, <1>9 DEF PipelineInv, SimTypeOK

LEMMA PipelineStep ==
    CepInv /\ PipelineInv /\ [Next]_vars => PipelineInv' /\ [CepNext]_cepVars
  <1> SUFFICES ASSUME CepInv, PipelineInv, [Next]_vars
               PROVE  PipelineInv' /\ [CepNext]_cepVars
    OBVIOUS
  <1>1. CASE Tick
    BY <1>1, TickStep
  <1>2. ASSUME NEW e \in inFlight, Deliver(e)
        PROVE  PipelineInv' /\ CepNext
    <2>1. e \in SensorEvent /\ Arrive(e)
      BY <1>2 DEF Deliver, PipelineInv, SimTypeOK
    <2> QED BY <1>2, <2>1, DeliverStep DEF CepNext
  <1>3. ASSUME NEW e \in inFlight, Lose(e)
        PROVE  PipelineInv' /\ UNCHANGED cepVars
    BY <1>3, LoseStep
  <1>4. CASE EmitWatermark /\ UNCHANGED simVars
    BY <1>4, WatermarkStep DEF CepNext
  <1>5. CASE ProcessDue /\ UNCHANGED simVars
    BY <1>5, ProcessStep DEF CepNext
  <1>6. CASE UNCHANGED vars
    <2>1. UNCHANGED <<schedule, simTime, inFlight, faults, onTime>>
          /\ UNCHANGED <<maxTime, watermark, buffer, processed>> /\ UNCHANGED cepVars
      BY <1>6 DEF vars, simVars, cepVars
    <2>2. EventsFit'
      BY <2>1, FitsStable DEF PipelineInv, EventsFit
    <2> QED BY <2>1, <2>2 DEF PipelineInv, SimTypeOK, OnTimeIsKept, Held
  <1> QED BY <1>1, <1>2, <1>3, <1>4, <1>5, <1>6 DEF Next

\* Every event fed to the pattern is one the faults of its time explain.
LEMMA FedFits ==
    ASSUME CepInv, PipelineInv, NEW i \in 1 .. Len(processed)
    PROVE  /\ Shows(i, "temp") => ActiveAt(processed[i].time) # {}
           /\ \A f \in 1 .. Len(schedule) :
                 HotAt(f, processed[i].time) => Shows(i, "temp")
  <1>1. Fits(processed[i])
    BY DEF PipelineInv, EventsFit
  <1> DEFINE t == processed[i].time
  <1>2. Shows(i, "temp") => "temp" \in Possibly(t)
    BY <1>1 DEF Shows, Fits
  <1>3. Shows(i, "temp") => ActiveAt(t) # {}
    BY <1>2 DEF Possibly
  <1>4. ASSUME NEW f \in 1 .. Len(schedule), HotAt(f, t)
        PROVE  Shows(i, "temp")
    <2>1. f \in ActiveAt(t) /\ t > schedule[f] + TempSure /\ \A g \in ActiveAt(t) : f <= g
      BY <1>4 DEF HotAt
    <2>2. /\ schedule \in Seq(Nat) /\ TempSure \in Nat /\ t \in Nat /\ processed \in Seq(SensorEvent)
      BY <1>1, PipelineAssumption DEF PipelineInv, SimTypeOK, CepInv, CepTypeOK, Fits, SensorEvent
    <2>3. schedule[f] \in Nat
      BY <2>2, ElementOfSeq
    <2>4. ActiveAt(t) \subseteq Nat
      BY DEF ActiveAt
    <2> DEFINE first == CHOOSE g \in ActiveAt(t) : \A h \in ActiveAt(t) : g <= h
    <2>5. first \in ActiveAt(t) /\ \A h \in ActiveAt(t) : first <= h
      BY <2>1
    <2>6. first = f
      <3> HIDE DEF first
      <3> QED BY <2>1, <2>4, <2>5
    <2>7. FaultElapsed(t) = t - schedule[f]
      BY <2>6 DEF FaultElapsed
    <2>8. FaultElapsed(t) > TempSure
      <3> HIDE DEF t, first
      <3> QED BY <2>1, <2>2, <2>3, <2>7
    <2>9. "temp" \in Surely(t)
      BY <2>1, <2>8 DEF Surely
    <2> QED BY <2>9, <1>1 DEF Fits, Shows
  <1> QED BY <1>3, <1>4

LEMMA InvMeansFault == CepInv /\ PipelineInv => MatchMeansFault
  <1> SUFFICES ASSUME CepInv, PipelineInv, NEW m \in 1 .. Len(matches)
               PROVE  ActiveAt(processed[matches[m].temp].time) # {}
    BY DEF MatchMeansFault
  <1>1. matches[m].temp \in Beginnings(matches[m].current)
        /\ matches[m].current <= Len(processed) /\ matches[m] \in Match
    BY InvExact, ElementOfSeq DEF MatchesExact, CepInv, CepTypeOK
  <1>2. Len(processed) \in Nat
    BY LenProperties DEF CepInv, CepTypeOK
  <1>3. matches[m].temp \in 1 .. Len(processed) /\ Shows(matches[m].temp, "temp")
    BY <1>1, <1>2 DEF Beginnings, Match
  <1> QED BY <1>3, FedFits

LEMMA InvReported == CepInv /\ PipelineInv => CascadeIsReported
  <1> SUFFICES ASSUME CepInv, PipelineInv, NEW f \in 1 .. Len(schedule),
                      NEW i \in 1 .. Len(processed), NEW j \in 1 .. Len(processed),
                      NEW k \in 1 .. Len(processed),
                      i < j, j < k, processed[k].time - processed[i].time < Within,
                      HotAt(f, processed[i].time), Shows(j, "vib"), Shows(k, "current")
               PROVE  \E m \in 1 .. Len(matches) : matches[m].current \in i .. k
    BY DEF CascadeIsReported
  <1>1. Shows(i, "temp")
    BY FedFits
  <1>2. i \in 1 .. k - 1 /\ j \in i + 1 .. k - 1 /\ k \in i .. k
    OBVIOUS
  <1>3. CASE Unmatched(i, k)
    <2>1. i \in Beginnings(k)
      BY <1>1, <1>2, <1>3 DEF Beginnings
    <2>2. \E m \in 1 .. Len(matches) : matches[m].current = k
      BY <2>1, InvExact DEF MatchesExact
    <2> QED BY <2>2, <1>2
  <1>4. CASE ~Unmatched(i, k)
    <2>1. \A n \in i .. k - 1 : n \in i .. k
      OBVIOUS
    <2> QED BY <2>1, <1>4 DEF Unmatched
  <1> QED BY <1>3, <1>4

------------------------------------------------------------------------------
(* The theorems about the pipeline.                                         *)

LEMMA PipelineInvariance == Spec => [](CepInv /\ PipelineInv)
  <1>1. Init => CepInv /\ PipelineInv
    BY InvInit, SimInit DEF Init
  <1>2. CepInv /\ PipelineInv /\ [Next]_vars => (CepInv /\ PipelineInv)'
    BY InvStep, PipelineStep
  <1> QED BY <1>1, <1>2, PTL DEF Spec

\* Whatever the machine and its producer do, the job sees arrivals of sensor
\* events: what CascadeCepProofs proves of it holds here.
THEOREM PipelineImplementsCep == Spec => CepSpec
  <1>1. Init => CepInit
    BY DEF Init
  <1>2. CepInv /\ PipelineInv /\ [Next]_vars => [CepNext]_cepVars
    BY PipelineStep
  <1> QED BY <1>1, <1>2, PipelineInvariance, PTL DEF Spec, CepSpec

\* The machine's and the job's state, and the watermark behind by the budget.
THEOREM PipelineTypeCorrect == Spec => []TypeOK
  <1>1. CepInv /\ PipelineInv => TypeOK
    BY DEF CepInv, PipelineInv, SimTypeOK, TypeOK
  <1> QED BY <1>1, PipelineInvariance, PTL

\* makeWatermarkStrategy: telemetry within the budget is never dropped.
THEOREM OnTimeKept == Spec => []OnTimeIsKept
  <1>1. CepInv /\ PipelineInv => OnTimeIsKept
    BY DEF PipelineInv
  <1> QED BY <1>1, PipelineInvariance, PTL

\* The job raises no false alarm.
THEOREM MatchesMeanFaults == Spec => []MatchMeansFault
  <1>1. CepInv /\ PipelineInv => MatchMeansFault
    BY InvMeansFault
  <1> QED BY <1>1, PipelineInvariance, PTL

\* The job misses no cascade whose telemetry reaches it.
THEOREM CascadesAreReported == Spec => []CascadeIsReported
  <1>1. CepInv /\ PipelineInv => CascadeIsReported
    BY InvReported
  <1> QED BY <1>1, PipelineInvariance, PTL
==============================================================================
