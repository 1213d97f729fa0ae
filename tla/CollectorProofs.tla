-------------------------- MODULE CollectorProofs --------------------------
(* Proofs about module Collector, for every capacity and any number of     *)
(* recorders: the span buffer, the extremes of the histogram, what the     *)
(* quiet metrics say of the elements recorded, and the percentiles of a    *)
(* snapshot.                                                               *)
EXTENDS Collector, NaturalRecursion, SequenceTheorems, FiniteSetTheorems, TLAPS

(* Division with remainder.                                                *)
LEMMA DivMod ==
  ASSUME NEW c \in Nat \ {0}, NEW a \in Nat
  PROVE  a % c \in 0..(c - 1) /\ a \div c \in Int /\ a = c * (a \div c) + (a % c)
  BY SMT

(* Multiples of c are at least c apart.                                    *)
LEMMA MultiplesApart ==
  ASSUME NEW c \in Nat \ {0}, NEW q \in Int, NEW p \in Int, q < p
  PROVE  c * q + c <= c * p
  BY SMT

(* Numbers less than c apart have the same remainder only if they are one. *)
LEMMA RemainderApart ==
  ASSUME NEW c \in Nat \ {0}, NEW a \in Nat, NEW b \in Nat, b < a, a < b + c
  PROVE  a % c # b % c
<1> DEFINE p == a \div c
           q == b \div c
           r == a % c
           t == b % c
<1>1. p \in Int /\ r \in 0..(c - 1) /\ a = c * p + r
  BY DivMod
<1>2. q \in Int /\ t \in 0..(c - 1) /\ b = c * q + t
  BY DivMod
<1> HIDE DEF p, q, r, t
<1>3. ASSUME r = t PROVE FALSE
  <2>1. CASE q < p
    <3>1. c * q + c <= c * p /\ c * q \in Int /\ c * p \in Int
      BY <1>1, <1>2, <2>1, MultiplesApart
    <3> QED BY <1>1, <1>2, <1>3, <3>1
  <2>2. CASE p < q
    <3>1. c * p + c <= c * q /\ c * q \in Int /\ c * p \in Int
      BY <1>1, <1>2, <2>2, MultiplesApart
    <3> QED BY <1>1, <1>2, <1>3, <3>1
  <2>3. CASE p = q
    BY <1>1, <1>2, <1>3, <2>3
  <2> QED BY <1>1, <1>2, <2>1, <2>2, <2>3
<1> QED BY <1>3 DEF r, t

(* Adding c does not change the remainder.                                 *)
LEMMA RemainderPeriod ==
  ASSUME NEW c \in Nat \ {0}, NEW a \in Nat
  PROVE  (a + c) % c = a % c
<1> DEFINE p == (a + c) \div c
           q == a \div c
           r == (a + c) % c
           t == a % c
<1>0. a + c \in Nat
  OBVIOUS
<1>1. p \in Int /\ r \in 0..(c - 1) /\ a + c = c * p + r
  BY <1>0, DivMod
<1>2. q \in Int /\ t \in 0..(c - 1) /\ a = c * q + t
  BY DivMod
<1> HIDE DEF p, q, r, t
<1>3. c * (q + 1) = c * q + c /\ c * q \in Int /\ c * p \in Int /\ q + 1 \in Int
  BY <1>1, <1>2, SMT
<1>4. ~(q + 1 < p)
  <2> SUFFICES ASSUME q + 1 < p PROVE FALSE
    OBVIOUS
  <2>1. c * (q + 1) + c <= c * p
    BY <1>1, <1>3, MultiplesApart
  <2> QED BY <1>1, <1>2, <1>3, <2>1
<1>5. ~(p < q + 1)
  <2> SUFFICES ASSUME p < q + 1 PROVE FALSE
    OBVIOUS
  <2>1. c * p + c <= c * (q + 1)
    BY <1>1, <1>3, MultiplesApart
  <2> QED BY <1>1, <1>2, <1>3, <2>1
<1>6. p = q + 1
  BY <1>1, <1>2, <1>4, <1>5
<1>7. r = t
  BY <1>1, <1>2, <1>3, <1>6
<1> QED BY <1>7 DEF r, t

(* A number below c is its own remainder.                                  *)
LEMMA RemainderSmall ==
  ASSUME NEW c \in Nat \ {0}, NEW a \in 0..(c - 1)
  PROVE  a % c = a
<1> DEFINE q == a \div c
           r == a % c
<1>0. a \in Nat
  OBVIOUS
<1>1. q \in Int /\ r \in 0..(c - 1) /\ a = c * q + r
  BY <1>0, DivMod
<1> HIDE DEF q, r
<1>2. c * 0 = 0 /\ c * q \in Int /\ 0 \in Int
  BY <1>1, SMT
<1>3. CASE 0 < q
  <2>1. c * 0 + c <= c * q
    BY <1>1, <1>2, <1>3, MultiplesApart
  <2> QED BY <1>1, <1>2, <2>1
<1>4. CASE q < 0
  <2>1. c * q + c <= c * 0
    BY <1>1, <1>2, <1>4, MultiplesApart
  <2> QED BY <1>1, <1>2, <2>1
<1>5. CASE q = 0
  <2>1. a = r
    BY <1>1, <1>2, <1>5
  <2> QED BY <2>1 DEF r
<1> QED BY <1>1, <1>3, <1>4, <1>5

(* An array of numbers is a sequence.                                      *)
LEMMA ArrayIsSeq ==
  ASSUME NEW n \in Nat, NEW d \in [1..n -> Nat]
  PROVE  d \in Seq(Nat) /\ Len(d) = n
  OBVIOUS

(* A sequence that agrees with the end of another is a suffix of it.       *)
LEMMA EndIsSuffix ==
  ASSUME NEW s \in Seq(Nat), NEW t \in Seq(Nat), Len(s) <= Len(t),
         \A i \in 1..Len(s) : s[i] = t[Len(t) - Len(s) + i]
  PROVE  IsSuffix(s, t)
<1> DEFINE R == Reverse(s)
           T == Reverse(t)
<1>1. /\ R \in Seq(Nat) /\ Len(R) = Len(s)
      /\ \A i \in 1..Len(s) : R[i] = s[(Len(s) - i) + 1]
  BY DEF Reverse
<1>2. /\ T \in Seq(Nat) /\ Len(T) = Len(t)
      /\ \A i \in 1..Len(t) : T[i] = t[(Len(t) - i) + 1]
  BY DEF Reverse
<1> HIDE DEF R, T
<1>3. ASSUME NEW i \in 1..Len(s) PROVE R[i] = T[i]
  <2> DEFINE k == (Len(s) - i) + 1
  <2>0. Len(s) \in Nat /\ Len(t) \in Nat /\ i \in Nat /\ 1 <= i /\ i <= Len(s)
    BY LenProperties
  <2>1. k \in 1..Len(s) /\ i \in 1..Len(t) /\ Len(t) - Len(s) + k = (Len(t) - i) + 1
    BY <2>0
  <2>2. R[i] = s[k] /\ T[i] = t[(Len(t) - i) + 1]
    BY <1>1, <1>2, <2>1
  <2> QED BY <2>1, <2>2
<1>4. /\ SubSeq(R, 1, Len(R)) = [i \in 1..Len(s) |-> R[i]]
      /\ SubSeq(T, 1, Len(R)) = [i \in 1..Len(s) |-> T[i]]
  BY <1>1, <1>2
<1> QED BY <1>1, <1>2, <1>3, <1>4 DEF IsSuffix, IsPrefix, R, T

(* push_overwrite puts a span into the slot of the one that is Capacity    *)
(* older, and leaves the others of the window alone.                       *)
LEMMA RingStep ==
  ASSUME TraceTypeOK, RingInv, ~report.made, UNCHANGED report,
         slots' = [slots EXCEPT ![writePos % Capacity] = Len(pushed) + 1],
         writePos' = writePos + 1,
         pushed' = Append(pushed, Len(pushed) + 1)
  PROVE  TraceTypeOK' /\ RingInv'
<1> DEFINE n == Len(pushed)
<1>1. /\ n \in Nat /\ writePos = n /\ Capacity \in Nat \ {0} /\ pushed \in Seq(Nat)
      /\ slots \in [0..(Capacity - 1) -> Nat]
  BY CollectorAssumption DEF RingInv, TraceTypeOK
<1>2. n % Capacity \in 0..(Capacity - 1)
  BY <1>1, DivMod
<1>3. /\ pushed' \in Seq(Nat) /\ Len(pushed') = n + 1 /\ pushed'[n + 1] = n + 1
      /\ \A i \in 1..n : pushed'[i] = pushed[i]
  BY <1>1
<1>4. TraceTypeOK'
  BY <1>1, <1>2, <1>3 DEF TraceTypeOK
<1>5. ASSUME NEW i \in 1..(n + 1), i + Capacity > n + 1
      PROVE  slots'[(i - 1) % Capacity] = pushed'[i]
  <2>1. i - 1 \in Nat /\ (i - 1) % Capacity \in 0..(Capacity - 1)
    <3>1. i - 1 \in Nat
      BY <1>1
    <3> QED BY <1>1, <3>1, DivMod
  <2>2. CASE i = n + 1
    BY <1>1, <1>2, <1>3, <2>2
  <2>3. CASE i \in 1..n
    <3>1. i - 1 < n /\ n < (i - 1) + Capacity
      BY SMTT(30), <1>1, <1>5, <2>3
    <3>2. n % Capacity # (i - 1) % Capacity
      BY <1>1, <2>1, <3>1, RemainderApart
    <3>3. slots[(i - 1) % Capacity] = pushed[i]
      BY <1>1, <1>5, <2>3 DEF RingInv
    <3> QED BY <1>1, <1>2, <1>3, <2>1, <2>3, <3>2, <3>3
  <2> QED BY <1>1, <2>2, <2>3
<1> HIDE DEF n
<1>6. RingInv'
  BY <1>1, <1>3, <1>5 DEF RingInv, n
<1> QED BY <1>4, <1>6

(* drain reads the spans of the window in the order of their numbers.      *)
LEMMA DrainedLatest ==
  ASSUME TraceTypeOK, RingInv, ~report.made
  PROVE  LET n == Len(pushed)
             m == IF n <= Capacity THEN n ELSE Capacity
         IN /\ Drained \in Seq(Nat) /\ Len(Drained) = m
            /\ \A i \in 1..m : Drained[i] = pushed[n - m + i]
<1> DEFINE n == Len(pushed)
<1>1. /\ n \in Nat /\ writePos = n /\ Capacity \in Nat \ {0} /\ pushed \in Seq(Nat)
      /\ slots \in [0..(Capacity - 1) -> Nat]
      /\ \A i \in 1..n : i + Capacity > n => slots[(i - 1) % Capacity] = pushed[i]
      /\ \A i \in 1..n : pushed[i] \in Nat
  BY SMTT(30), CollectorAssumption DEF RingInv, TraceTypeOK
<1> HIDE DEF n
<1>2. CASE n <= Capacity
  <2>1. Drained = [i \in 1..n |-> slots[i - 1]]
    BY <1>1, <1>2 DEF Drained
  <2>2. ASSUME NEW i \in 1..n PROVE slots[i - 1] = pushed[i]
    <3>1. i - 1 \in 0..(Capacity - 1) /\ i + Capacity > n
      BY <1>1, <1>2
    <3>2. (i - 1) % Capacity = i - 1
      BY <1>1, <3>1, RemainderSmall
    <3> QED BY <1>1, <3>1, <3>2
  <2>a. Drained \in [1..n -> Nat] /\ \A i \in 1..n : Drained[i] = pushed[i]
    BY <1>1, <2>1, <2>2
  <2>3. Drained \in Seq(Nat) /\ Len(Drained) = n /\ \A i \in 1..n : Drained[i] = pushed[i]
    BY <1>1, <2>a, ArrayIsSeq
  <2>4. \A i \in 1..n : n - n + i = i
    BY <1>1
  <2> QED BY <1>2, <2>3, <2>4 DEF n
<1>3. CASE ~(n <= Capacity)
  <2>1. Drained = [i \in 1..Capacity |-> slots[(n + i - 1) % Capacity]]
    BY <1>1, <1>3 DEF Drained
  <2>2. ASSUME NEW i \in 1..Capacity
        PROVE  slots[(n + i - 1) % Capacity] = pushed[n - Capacity + i] /\ n - Capacity + i \in 1..n
    <3> DEFINE j == n - Capacity + i
    <3>1. j \in 1..n /\ j + Capacity > n /\ j - 1 \in Nat /\ n + i - 1 = (j - 1) + Capacity
      BY <1>1, <1>3
    <3> HIDE DEF j
    <3>2. ((j - 1) + Capacity) % Capacity = (j - 1) % Capacity
      BY <1>1, <3>1, RemainderPeriod
    <3>3. slots[(n + i - 1) % Capacity] = pushed[j]
      BY <1>1, <3>1, <3>2
    <3> QED BY <3>1, <3>3 DEF j
  <2>3. /\ Drained \in Seq(Nat) /\ Len(Drained) = Capacity
        /\ \A i \in 1..Capacity : Drained[i] = pushed[n - Capacity + i]
    <3>1. \A i \in 1..Capacity : /\ n - Capacity + i \in 1..n
                                 /\ Drained[i] = pushed[n - Capacity + i]
      BY <2>1, <2>2
    <3>2. \A i \in 1..Capacity : Drained[i] \in Nat
      BY <1>1, <3>1
    <3>3. Drained \in [1..Capacity -> Nat]
      BY <2>1, <3>2
    <3> QED BY <1>1, <3>1, <3>3, ArrayIsSeq
  <2> QED BY <1>3, <2>3 DEF n
<1> QED BY <1>2, <1>3

(* The trace command reports what drain returned and whether it wrapped.   *)
LEMMA TraceStep ==
  ASSUME TraceInv, Trace
  PROVE  TraceInv'
<1> DEFINE n == Len(pushed)
           m == IF n <= Capacity THEN n ELSE Capacity
           d == Drained
<1>1. /\ ~report.made /\ TraceTypeOK /\ RingInv /\ Capacity \in Nat \ {0}
      /\ n \in Nat /\ writePos = n /\ pushed \in Seq(Nat)
  BY CollectorAssumption DEF TraceInv, Trace, RingInv, TraceTypeOK
<1>2. d \in Seq(Nat) /\ Len(d) = m /\ \A i \in 1..m : d[i] = pushed[n - m + i]
  BY <1>1, DrainedLatest
<1>3. /\ report' = [spans |-> d, truncated |-> n >= Capacity, made |-> TRUE]
      /\ writePos' = 0 /\ UNCHANGED <<slots, pushed, phase>> /\ \A r \in Recorder : phase[r] = "idle"
  BY <1>1 DEF Trace, HasWrapped, recorder
<1> HIDE DEF d
<1>4. report'.spans = d /\ report'.made = TRUE /\ (report'.truncated <=> n >= Capacity)
  BY <1>3
<1>5. TraceTypeOK'
  BY <1>1, <1>2, <1>3 DEF TraceTypeOK
<1>6. RingInv' /\ QuiescentInv'
  BY <1>3, <1>4 DEF RingInv, QuiescentInv
<1>7. m <= n /\ m \in Nat
  BY <1>1
<1>8. IsSuffix(d, pushed)
  BY <1>1, <1>2, <1>7, EndIsSuffix
<1>9. (n <= Capacity => d = pushed) /\ (~(n <= Capacity) => Len(d) = Capacity)
  <2>1. CASE n <= Capacity
    <3>1. \A i \in 1..n : d[i] = pushed[i]
      BY <1>1, <1>2, <2>1
    <3> QED BY <1>1, <1>2, <2>1, <3>1
  <2> QED BY <1>2, <2>1
<1>10. TraceHonest'
  BY <1>1, <1>3, <1>4, <1>8, <1>9 DEF TraceHonest
<1> QED BY <1>5, <1>6, <1>10 DEF TraceInv

(* Every step keeps the window of the buffer and, once made, the report.   *)
LEMMA TraceInvStep ==
  ASSUME TraceInv, [CollectNext]_collectVars
  PROVE  TraceInv'
<1>1. ASSUME UNCHANGED <<spans, report>>, report.made => UNCHANGED phase
      PROVE  TraceInv'
  <2>1. UNCHANGED <<slots, writePos, pushed, report>>
    BY <1>1 DEF spans
  <2> QED BY <1>1, <2>1 DEF TraceInv, TraceTypeOK, RingInv, QuiescentInv, TraceHonest
<1>2. ASSUME NEW r \in Recorder, phase[r] # "idle" PROVE ~report.made
  BY <1>2 DEF TraceInv, QuiescentInv
<1>3. ASSUME NEW r \in Recorder, NEW d \in Duration, RecordInvocation(r, d) PROVE TraceInv'
  BY <1>1, <1>3 DEF RecordInvocation
<1>4. ASSUME NEW r \in Recorder, CountBucket(r) \/ IncrementCount(r) PROVE TraceInv'
  BY <1>1, <1>2, <1>4 DEF CountBucket, IncrementCount
<1>5. ASSUME NEW r \in Recorder, LoadBound(r) \/ SwapBound(r) PROVE TraceInv'
  BY <1>1, <1>2, <1>5 DEF LoadBound, SwapBound
<1>6. ASSUME NEW r \in Recorder, NEW failure \in BOOLEAN, EndRecord(r, failure) PROVE TraceInv'
  BY <1>1, <1>2, <1>6 DEF EndRecord
<1>7. ASSUME NEW r \in Recorder, NEW element \in BOOLEAN, RecordElementSpan(r, element)
      PROVE  TraceInv'
  <2>1. ~report.made /\ UNCHANGED report
    BY <1>2, <1>7 DEF RecordElementSpan
  <2>2. CASE UNCHANGED spans
    BY <1>1, <2>1, <2>2
  <2>3. CASE ~UNCHANGED spans
    <3>1. /\ slots' = [slots EXCEPT ![writePos % Capacity] = Len(pushed) + 1]
          /\ writePos' = writePos + 1
          /\ pushed' = Append(pushed, Len(pushed) + 1)
      BY <1>7, <2>3 DEF RecordElementSpan
    <3>2. TraceTypeOK' /\ RingInv'
      BY <2>1, <3>1, RingStep DEF TraceInv
    <3> QED BY <2>1, <3>2 DEF TraceInv, QuiescentInv, TraceHonest
  <2> QED BY <2>2, <2>3
<1>8. CASE BeginSnapshot \/ ReadField
  BY <1>1, <1>8 DEF BeginSnapshot, ReadField, recorder
<1>9. ASSUME NEW l \in Level, SetLevel(l) PROVE TraceInv'
  BY <1>1, <1>9 DEF SetLevel, recorder
<1>10. CASE UNCHANGED collectVars
  BY <1>1, <1>10 DEF collectVars, recorder
<1> QED BY <1>3, <1>4, <1>5, <1>6, <1>7, <1>8, <1>9, <1>10, TraceStep DEF CollectNext

(* What the trace command prints is the end of what the flow recorded, in  *)
(* order and without a gap, whatever the capacity of the buffer and        *)
(* however the recorders and changes of level interleave; a trace that is  *)
(* not marked as truncated is the whole.                                   *)
THEOREM TraceIsHonest == CollectSpec => []TraceHonest
<1>1. CollectInit => TraceInv
  <2> SUFFICES ASSUME CollectInit PROVE TraceInv
    OBVIOUS
  <2>1. report.made = FALSE /\ report.spans = <<>> /\ report.truncated = FALSE
    BY DEF CollectInit, NoReport
  <2>2. pushed = <<>> /\ Len(pushed) = 0 /\ writePos = 0
    BY DEF CollectInit
  <2>3. TraceTypeOK
    BY <2>2 DEF CollectInit, NoReport, TraceTypeOK
  <2> QED BY <2>1, <2>2, <2>3 DEF TraceInv, RingInv, QuiescentInv, TraceHonest
<1>2. TraceInv /\ [CollectNext]_collectVars => TraceInv'
  BY TraceInvStep
<1>3. TraceInv => TraceHonest
  BY DEF TraceInv
<1> QED BY <1>1, <1>2, <1>3, PTL DEF CollectSpec

-----------------------------------------------------------------------------
(* The histogram's min and max.                                            *)

Extreme == {"min", "max"}

(* A recorder moves on, and leaves a bound behind only where it must.      *)
LEMMA MovesOn ==
  ASSUME BoundInv, UNCHANGED <<bound, records>>, NEW r \in Recorder,
         \A q \in Recorder \ {r} : phase'[q] = phase[q] /\ value'[q] = value[q] /\ loaded'[q] = loaded[q],
         phase'[r] \in Before("max") => phase[r] \in Before("max") /\ value'[r] = value[r],
         \A b \in Extreme : phase[r] \in Before(b) =>
           (phase'[r] \in Before(b) /\ value'[r] = value[r]) \/ Beyond(b, bound[b], value[r]),
         \A b \in Extreme : phase'[r] = b /\ loaded'[r] # NotRead => Beyond(b, bound[b], loaded'[r])
  PROVE  BoundInv'
<1>1. WorksOn'
  BY DEF BoundInv, WorksOn, Before
<1>2. ASSUME NEW b \in Extreme PROVE Genuine(b)' /\ Covering(b)' /\ Monotone(b)'
  <2>0. Genuine(b) /\ Covering(b) /\ Monotone(b)
    BY DEF BoundInv, Extreme
  <2>1. Genuine(b)'
    BY <2>0 DEF Genuine
  <2>2. Covering(b)'
    <3> SUFFICES ASSUME NEW i \in DOMAIN records
                 PROVE  \/ Beyond(b, bound[b], records[i])
                        \/ \E q \in Recorder : phase'[q] \in Before(b) /\ value'[q] = records[i]
      BY DEF Covering, Beyond, Before
    <3>1. CASE \E q \in Recorder \ {r} : phase[q] \in Before(b) /\ value[q] = records[i]
      BY <3>1
    <3>2. CASE phase[r] \in Before(b) /\ value[r] = records[i]
      BY <3>2
    <3> QED BY <2>0, <3>1, <3>2 DEF Covering
  <2>3. Monotone(b)'
    <3> SUFFICES ASSUME NEW q \in Recorder, phase'[q] = b, loaded'[q] # NotRead
                 PROVE  Beyond(b, bound[b], loaded'[q])
      BY DEF Monotone, Beyond, NotRead
    <3> QED BY <2>0 DEF Monotone
  <2> QED BY <2>1, <2>2, <2>3
<1> QED BY <1>1, <1>2 DEF BoundInv, Extreme

(* A new recording is behind both bounds until it has passed them.         *)
LEMMA BeginsRecording ==
  ASSUME RecorderTypeOK, BoundInv, NEW r \in Recorder, NEW d \in Duration, phase[r] = "idle",
         phase' = [phase EXCEPT ![r] = "bucket"], value' = [value EXCEPT ![r] = d],
         records' = Append(records, d), UNCHANGED <<bound, loaded>>
  PROVE  BoundInv'
<1>1. /\ phase'[r] = "bucket" /\ value'[r] = d
      /\ \A q \in Recorder \ {r} : phase'[q] = phase[q] /\ value'[q] = value[q]
  BY DEF RecorderTypeOK
<1>2. /\ \A i \in DOMAIN records : i \in DOMAIN records' /\ records'[i] = records[i]
      /\ \E i \in DOMAIN records' : records'[i] = d
      /\ \A i \in DOMAIN records' : i \in DOMAIN records \/ records'[i] = d
  <2>1. records \in Seq(Duration)
    BY DEF RecorderTypeOK
  <2>2. /\ Len(records) \in Nat /\ DOMAIN records = 1..Len(records)
        /\ DOMAIN records' = 1..(Len(records) + 1)
        /\ \A i \in 1..Len(records) : records'[i] = records[i]
        /\ records'[Len(records) + 1] = d
    BY <2>1
  <2> QED BY <2>2
<1>3. WorksOn'
  BY <1>1, <1>2 DEF BoundInv, WorksOn, Before
<1>4. ASSUME NEW b \in Extreme PROVE Genuine(b)' /\ Covering(b)' /\ Monotone(b)'
  <2>0. Genuine(b) /\ Covering(b) /\ Monotone(b) /\ phase[r] \notin Before(b) /\ phase'[r] \in Before(b)
    BY <1>1 DEF BoundInv, Extreme, Before
  <2>1. Genuine(b)'
    BY <1>2, <2>0 DEF Genuine
  <2>2. Covering(b)'
    <3> SUFFICES ASSUME NEW i \in DOMAIN records'
                 PROVE  \/ Beyond(b, bound[b], records'[i])
                        \/ \E q \in Recorder : phase'[q] \in Before(b) /\ value'[q] = records'[i]
      BY DEF Covering, Beyond, Before
    <3>1. CASE i \in DOMAIN records
      <4>1. CASE \E q \in Recorder : phase[q] \in Before(b) /\ value[q] = records[i]
        BY <1>1, <1>2, <2>0, <3>1, <4>1
      <4>2. CASE Beyond(b, bound[b], records[i])
        BY <1>2, <3>1, <4>2
      <4> QED BY <2>0, <3>1, <4>1, <4>2 DEF Covering
    <3>2. CASE records'[i] = d
      BY <1>1, <2>0, <3>2
    <3> QED BY <1>2, <3>1, <3>2
  <2>3. Monotone(b)'
    <3> SUFFICES ASSUME NEW q \in Recorder, phase'[q] = b, loaded[q] # NotRead
                 PROVE  Beyond(b, bound[b], loaded[q])
      BY DEF Monotone, Beyond, NotRead
    <3>1. q # r
      BY <1>1 DEF Extreme
    <3> QED BY <1>1, <2>0, <3>1 DEF Monotone
  <2> QED BY <2>1, <2>2, <2>3
<1> QED BY <1>3, <1>4 DEF BoundInv, Extreme

(* A swap that succeeds moves the bound to a value further out.            *)
LEMMA Improved ==
  ASSUME RecorderTypeOK, BoundInv, NEW r \in Recorder, NEW c \in Extreme, phase[r] = c,
         bound' = [bound EXCEPT ![c] = value[r]], Beyond(c, value[r], bound[c]),
         phase' = [phase EXCEPT ![r] = IF c = "min" THEN "max" ELSE "end"],
         loaded' = [loaded EXCEPT ![r] = NotRead], UNCHANGED <<value, records>>
  PROVE  BoundInv'
<1>1. /\ phase'[r] = (IF c = "min" THEN "max" ELSE "end") /\ loaded'[r] = NotRead
      /\ \A q \in Recorder \ {r} : phase'[q] = phase[q] /\ loaded'[q] = loaded[q]
  BY DEF RecorderTypeOK
<1>2. bound'[c] = value[r] /\ \A b \in Extreme \ {c} : bound'[b] = bound[b]
  BY DEF RecorderTypeOK, Extreme
<1>3. WorksOn'
  BY <1>1 DEF BoundInv, WorksOn, Before, Extreme
<1>t. /\ \A b \in Extreme : bound[b] \in Nat
      /\ \A q \in Recorder : value[q] \in Nat /\ (loaded[q] # NotRead => loaded[q] \in Nat)
      /\ \A i \in DOMAIN records : records[i] \in Nat
  <2>1. \A d \in Duration : d \in Nat
    BY CollectorAssumption
  <2>2. \A i \in DOMAIN records : records[i] \in Duration
    BY DEF RecorderTypeOK
  <2> QED BY <2>1, <2>2 DEF RecorderTypeOK, Extreme
<1>4. ASSUME NEW b \in Extreme PROVE Genuine(b)' /\ Covering(b)' /\ Monotone(b)'
  <2>0. Genuine(b) /\ Covering(b) /\ Monotone(b)
    BY DEF BoundInv, Extreme
  <2>1. CASE b # c
    <3>1. bound'[b] = bound[b] /\ (phase[r] \in Before(b) => phase'[r] \in Before(b))
      BY <1>1, <1>2, <2>1 DEF Before, Extreme
    <3>2. Genuine(b)'
      BY <2>0, <3>1 DEF Genuine
    <3>3. Covering(b)'
      <4> SUFFICES ASSUME NEW i \in DOMAIN records
                   PROVE  \/ Beyond(b, bound'[b], records[i])
                          \/ \E q \in Recorder : phase'[q] \in Before(b) /\ value[q] = records[i]
        BY DEF Covering, Beyond, Before
      <4> QED BY <1>1, <2>0, <3>1 DEF Covering
    <3>4. Monotone(b)'
      <4> SUFFICES ASSUME NEW q \in Recorder, phase'[q] = b, loaded'[q] # NotRead
                   PROVE  Beyond(b, bound'[b], loaded'[q])
        BY DEF Monotone, Beyond, NotRead
      <4> QED BY <1>1, <2>0, <3>1 DEF Monotone
    <3> QED BY <3>2, <3>3, <3>4
  <2>2. CASE b = c
    <3>1. bound'[b] = value[r] /\ Beyond(b, value[r], bound[b])
      BY <1>2, <2>2
    <3>2. ASSUME NEW x \in Nat, Beyond(b, bound[b], x) PROVE Beyond(b, value[r], x)
      BY <1>t, <3>1, <3>2 DEF Beyond
    <3>3. Genuine(b)'
      <4>1. \E i \in DOMAIN records : value[r] = records[i]
        BY DEF BoundInv, WorksOn, Before, Extreme
      <4> QED BY <3>1, <4>1 DEF Genuine
    <3>4. Covering(b)'
      <4> SUFFICES ASSUME NEW i \in DOMAIN records
                   PROVE  \/ Beyond(b, bound'[b], records[i])
                          \/ \E q \in Recorder : phase'[q] \in Before(b) /\ value[q] = records[i]
        BY DEF Covering, Beyond, Before
      <4>1. CASE Beyond(b, bound[b], records[i])
        BY <1>t, <3>1, <3>2, <4>1
      <4>2. CASE value[r] = records[i]
        BY <1>t, <3>1, <4>2 DEF Beyond
      <4>3. CASE \E q \in Recorder \ {r} : phase[q] \in Before(b) /\ value[q] = records[i]
        BY <1>1, <4>3
      <4> QED BY <2>0, <4>1, <4>2, <4>3 DEF Covering
    <3>5. Monotone(b)'
      <4> SUFFICES ASSUME NEW q \in Recorder, phase'[q] = b, loaded'[q] # NotRead
                   PROVE  Beyond(b, bound'[b], loaded'[q])
        BY DEF Monotone, Beyond, NotRead
      <4>1. q # r /\ phase[q] = b /\ loaded'[q] = loaded[q] /\ loaded[q] # NotRead
        BY <1>1
      <4> QED BY <1>t, <2>0, <3>1, <3>2, <4>1 DEF Monotone
    <3> QED BY <3>3, <3>4, <3>5
  <2> QED BY <2>1, <2>2
<1> QED BY <1>3, <1>4 DEF BoundInv, Extreme

(* Every step keeps the recorders and bounds well typed.                   *)
LEMMA RecorderTypeStep ==
  ASSUME RecorderTypeOK, [CollectNext]_collectVars
  PROVE  RecorderTypeOK'
<1> USE DEF RecorderTypeOK, Goto
<1>a. \A d \in Duration : d \in Nat
  BY CollectorAssumption
<1>1. ASSUME NEW r \in Recorder, NEW d \in Duration, RecordInvocation(r, d) PROVE RecorderTypeOK'
  <2>1. UNCHANGED <<bound, loaded>> /\ phase[r] = "idle"
    BY <1>1 DEF RecordInvocation
  <2>2. CASE Goto(r, "span") /\ UNCHANGED <<value, records>>
    BY <2>1, <2>2
  <2>3. CASE Goto(r, "bucket") /\ value' = [value EXCEPT ![r] = d] /\ records' = Append(records, d)
    <3>1. records' \in Seq(Duration)
      BY <2>3
    <3> QED BY <1>a, <2>1, <2>3, <3>1
  <2> QED BY <1>1, <2>2, <2>3 DEF RecordInvocation
<1>2. ASSUME NEW r \in Recorder, CountBucket(r) \/ IncrementCount(r) PROVE RecorderTypeOK'
  BY <1>2 DEF CountBucket, IncrementCount, history
<1>3. ASSUME NEW r \in Recorder, LoadBound(r) PROVE RecorderTypeOK'
  BY <1>3 DEF LoadBound, metrics, history
<1>4. ASSUME NEW r \in Recorder, SwapBound(r) PROVE RecorderTypeOK'
  <2>1. phase[r] \in {"min", "max"} /\ UNCHANGED <<value, records>>
    BY <1>4 DEF SwapBound, history
  <2>2. CASE loaded' = [loaded EXCEPT ![r] = bound[phase[r]]] /\ UNCHANGED <<bound, phase>>
    BY <2>1, <2>2
  <2>3. CASE /\ bound' = IF Improves(r) THEN [bound EXCEPT ![phase[r]] = value[r]] ELSE bound
             /\ loaded' = [loaded EXCEPT ![r] = NotRead]
             /\ AfterBound(r)
    <3>1. bound' \in [{"min", "max"} -> Nat]
      BY <2>1, <2>3
    <3> QED BY <2>1, <2>3, <3>1 DEF AfterBound
  <2> QED BY <1>4, <2>2, <2>3 DEF SwapBound
<1>5. ASSUME NEW r \in Recorder, NEW failure \in BOOLEAN, EndRecord(r, failure) PROVE RecorderTypeOK'
  BY <1>5 DEF EndRecord
<1>6. ASSUME NEW r \in Recorder, NEW element \in BOOLEAN, RecordElementSpan(r, element)
      PROVE  RecorderTypeOK'
  BY <1>6 DEF RecordElementSpan, metrics, history
<1>7. CASE UNCHANGED collectVars \/ BeginSnapshot \/ ReadField \/ Trace \/ \E l \in Level : SetLevel(l)
  BY <1>7 DEF collectVars, BeginSnapshot, ReadField, Trace, SetLevel, recorder, metrics, history
<1> QED BY <1>1, <1>2, <1>3, <1>4, <1>5, <1>6, <1>7 DEF CollectNext

(* Every step keeps what is known of the bounds.                           *)
LEMMA BoundInvStep ==
  ASSUME RecorderTypeOK, BoundInv, [CollectNext]_collectVars
  PROVE  BoundInv'
<1>b. /\ \A b \in Extreme : bound[b] \in Nat
      /\ \A q \in Recorder : /\ value[q] \in Nat
                             /\ loaded[q] \in Nat \cup {NotRead}
                             /\ phase[q] \notin Extreme => loaded[q] = NotRead
  BY DEF RecorderTypeOK, Extreme
<1>c. \A b \in Extreme : Monotone(b)
  BY DEF BoundInv, Extreme
<1>1. ASSUME NEW r \in Recorder, NEW d \in Duration, RecordInvocation(r, d) PROVE BoundInv'
  <2>1. UNCHANGED <<bound, loaded>> /\ phase[r] = "idle"
    BY <1>1 DEF RecordInvocation
  <2>2. CASE Goto(r, "span") /\ UNCHANGED <<value, records>>
    <3>1. phase'[r] = "span" /\ \A q \in Recorder \ {r} : phase'[q] = phase[q]
      BY <2>2 DEF Goto, RecorderTypeOK
    <3> QED BY <2>1, <2>2, <3>1, MovesOn DEF Before, Extreme
  <2>3. CASE Goto(r, "bucket") /\ value' = [value EXCEPT ![r] = d] /\ records' = Append(records, d)
    BY <2>1, <2>3, BeginsRecording DEF Goto
  <2> QED BY <1>1, <2>2, <2>3 DEF RecordInvocation
<1>2. ASSUME NEW r \in Recorder, CountBucket(r) \/ IncrementCount(r) PROVE BoundInv'
  <2>1. /\ UNCHANGED <<bound, loaded, value, records>> /\ phase[r] \in {"bucket", "count"}
        /\ phase'[r] \in {"count", "min"} /\ \A q \in Recorder \ {r} : phase'[q] = phase[q]
    BY <1>2 DEF CountBucket, IncrementCount, Goto, RecorderTypeOK, history
  <2>2. loaded'[r] = NotRead
    BY <1>b, <2>1 DEF Extreme
  <2> QED BY <2>1, <2>2, MovesOn DEF Before, Extreme
<1>3. ASSUME NEW r \in Recorder, phase[r] \in Extreme, loaded' = [loaded EXCEPT ![r] = bound[phase[r]]],
             UNCHANGED <<bound, phase, value, records>>
      PROVE  BoundInv'
  <2>1. loaded'[r] = bound[phase[r]] /\ \A q \in Recorder \ {r} : loaded'[q] = loaded[q]
    BY <1>3 DEF RecorderTypeOK
  <2>2. \A b \in Extreme : phase'[r] = b => Beyond(b, bound[b], loaded'[r])
    BY <1>3, <1>b, <2>1 DEF Beyond
  <2> QED BY <1>3, <2>1, <2>2, MovesOn
<1>4. ASSUME NEW r \in Recorder, LoadBound(r) PROVE BoundInv'
  BY <1>3, <1>4 DEF LoadBound, Extreme, metrics, history
<1>5. ASSUME NEW r \in Recorder, SwapBound(r) PROVE BoundInv'
  <2> DEFINE c == phase[r]
  <2>1. c \in Extreme /\ loaded[r] # NotRead /\ UNCHANGED <<value, records>>
    BY <1>5 DEF SwapBound, Extreme, history
  <2>2. CASE loaded' = [loaded EXCEPT ![r] = bound[phase[r]]] /\ UNCHANGED <<bound, phase>>
    BY <1>3, <2>1, <2>2
  <2>3. ASSUME bound' = IF Improves(r) THEN [bound EXCEPT ![phase[r]] = value[r]] ELSE bound,
               loaded' = [loaded EXCEPT ![r] = NotRead],
               AfterBound(r), ~(Improves(r) /\ bound[phase[r]] # loaded[r])
        PROVE  BoundInv'
    <3>1. phase' = [phase EXCEPT ![r] = IF c = "min" THEN "max" ELSE "end"]
      BY <2>3 DEF AfterBound, Goto
    <3>2. CASE Improves(r)
      <4>1. Beyond(c, value[r], bound[c])
        BY <1>b, <2>1, <2>3, <3>2 DEF Improves, Beyond
      <4> QED BY <2>1, <2>3, <3>1, <3>2, <4>1, Improved
    <3>3. CASE ~Improves(r)
      <4>1. /\ UNCHANGED bound /\ phase'[r] = (IF c = "min" THEN "max" ELSE "end")
            /\ loaded'[r] = NotRead
            /\ \A q \in Recorder \ {r} : phase'[q] = phase[q] /\ loaded'[q] = loaded[q]
        BY <2>3, <3>1, <3>3 DEF RecorderTypeOK
      <4>2. Beyond(c, bound[c], loaded[r])
        BY <1>c, <2>1 DEF Monotone
      <4>3. Beyond(c, bound[c], value[r])
        BY <1>b, <2>1, <3>3, <4>2 DEF Improves, Beyond
      <4>4. \A b \in Extreme : phase[r] \in Before(b) => phase'[r] \in Before(b) \/ b = c
        BY <2>1, <4>1 DEF Before, Extreme
      <4>5. phase'[r] \in Before("max") => phase[r] \in Before("max")
        BY <2>1, <4>1 DEF Before, Extreme
      <4> QED BY <2>1, <4>1, <4>3, <4>4, <4>5, MovesOn
    <3> QED BY <3>2, <3>3
  <2> QED BY <1>5, <2>2, <2>3 DEF SwapBound
<1>6. ASSUME NEW r \in Recorder, NEW failure \in BOOLEAN, EndRecord(r, failure) PROVE BoundInv'
  <2>1. /\ UNCHANGED <<bound, loaded, records>> /\ phase[r] = "end" /\ phase'[r] = "span"
        /\ \A q \in Recorder \ {r} : phase'[q] = phase[q] /\ value'[q] = value[q]
    BY <1>6 DEF EndRecord, Goto, RecorderTypeOK
  <2> QED BY <2>1, MovesOn DEF Before, Extreme
<1>7. ASSUME NEW r \in Recorder, NEW element \in BOOLEAN, RecordElementSpan(r, element)
      PROVE  BoundInv'
  <2>1. /\ UNCHANGED <<bound, loaded, value, records>> /\ phase[r] = "span" /\ phase'[r] = "idle"
        /\ \A q \in Recorder \ {r} : phase'[q] = phase[q]
    BY <1>7 DEF RecordElementSpan, Goto, RecorderTypeOK, metrics, history
  <2> QED BY <2>1, MovesOn DEF Before, Extreme
<1>8. CASE UNCHANGED collectVars \/ BeginSnapshot \/ ReadField \/ Trace \/ \E l \in Level : SetLevel(l)
  <2>1. UNCHANGED <<bound, phase, value, loaded, records>>
    BY <1>8 DEF collectVars, BeginSnapshot, ReadField, Trace, SetLevel, recorder, metrics, history
  <2> QED BY <2>1 DEF BoundInv, WorksOn, Genuine, Covering, Monotone, Beyond, Before, NotRead
<1> QED BY <1>1, <1>2, <1>4, <1>5, <1>6, <1>7, <1>8 DEF CollectNext

(* At the start there is no duration and no bound.                         *)
LEMMA BoundInit ==
  ASSUME CollectInit
  PROVE  RecorderTypeOK /\ BoundInv
<1>1. /\ phase = [r \in Recorder |-> "idle"] /\ value = [r \in Recorder |-> 0]
      /\ loaded = [r \in Recorder |-> NotRead] /\ records = <<>>
      /\ bound = [min |-> Infinity, max |-> 0] /\ Infinity \in Nat
  BY CollectorAssumption DEF CollectInit
<1>2. bound \in [{"min", "max"} -> Nat]
  BY <1>1
<1>3. bound["min"] = Infinity /\ bound["max"] = 0
  BY <1>1
<1>4. DOMAIN records = {} /\ records \in Seq(Duration)
  BY <1>1
<1>5. RecorderTypeOK
  BY <1>1, <1>2, <1>4 DEF RecorderTypeOK
<1>6. BoundInv
  BY <1>1, <1>3, <1>4 DEF BoundInv, WorksOn, Genuine, Covering, Monotone, Before
<1> QED BY <1>5, <1>6

(* What is known of the bounds makes them exact when no recorder works.    *)
LEMMA BoundExact ==
  ASSUME RecorderTypeOK, BoundInv
  PROVE  ExtremesExact
<1> SUFFICES ASSUME records # <<>>,
                    \A r \in Recorder : phase[r] \in {"idle", "span"}
             PROVE  \E i, j \in DOMAIN records :
                      /\ bound["min"] = records[i] /\ bound["max"] = records[j]
                      /\ \A k \in DOMAIN records :
                           records[i] <= records[k] /\ records[k] <= records[j]
  BY DEF ExtremesExact
<1>1. 1 \in DOMAIN records /\ \A k \in DOMAIN records : records[k] \in Duration
  BY DEF RecorderTypeOK
<1>2. \A k \in DOMAIN records : records[k] \in Nat /\ records[k] < Infinity
  BY <1>1, CollectorAssumption
<1>3. \A b \in Extreme : Genuine(b) /\ Covering(b) /\ bound[b] \in Nat
  BY DEF BoundInv, RecorderTypeOK, Extreme
<1>4. \A b \in Extreme : \A k \in DOMAIN records : Beyond(b, bound[b], records[k])
  BY <1>3 DEF Covering, Before, Extreme
<1>5. \A k \in DOMAIN records : bound["min"] <= records[k] /\ bound["max"] >= records[k]
  BY <1>4 DEF Beyond, Extreme
<1>6. bound["min"] \in Nat /\ bound["max"] \in Nat /\ Genuine("min") /\ Genuine("max")
  BY <1>3 DEF Extreme
<1>7. PICK i \in DOMAIN records : bound["min"] = records[i]
  <2>1. bound["min"] # Infinity
    BY <1>1, <1>2, <1>5, <1>6, CollectorAssumption
  <2> QED BY <1>6, <2>1 DEF Genuine
<1>8. PICK j \in DOMAIN records : bound["max"] = records[j]
  <2>1. CASE bound["max"] = 0
    <3>1. records[1] = 0
      BY <1>1, <1>2, <1>5, <2>1
    <3> QED BY <1>1, <2>1, <3>1
  <2>2. CASE bound["max"] # 0
    BY <1>6, <2>2 DEF Genuine
  <2> QED BY <2>1, <2>2
<1>9. \A k \in DOMAIN records : records[i] <= records[k] /\ records[k] <= records[j]
  BY <1>2, <1>5, <1>6, <1>7, <1>8
<1> QED BY <1>7, <1>8, <1>9

(* The compare-and-swap loops of Histogram::record lose no minimum and no  *)
(* maximum, for any number of recorders and however they race: whenever    *)
(* none is at work, min and max are the least and the greatest duration    *)
(* recorded.                                                               *)
THEOREM HistogramExtremes == CollectSpec => []ExtremesExact
<1>1. RecorderTypeOK /\ BoundInv /\ [CollectNext]_collectVars => RecorderTypeOK' /\ BoundInv'
  BY RecorderTypeStep, BoundInvStep
<1> QED BY <1>1, BoundInit, BoundExact, PTL DEF CollectSpec

-----------------------------------------------------------------------------
(* The counters and the buckets.                                           *)

(* The sums of a sequence of numbers go up by one number after the other.  *)
LEMMA SumsFacts ==
  ASSUME NEW s \in Seq(Nat)
  PROVE  /\ Sums(s) \in [0..Len(s) -> Nat] /\ Sums(s)[0] = 0
         /\ \A n \in 1..Len(s) : Sums(s)[n] = Sums(s)[n - 1] + s[n]
<1> DEFINE N == Len(s)
           d == [n \in 1..N |-> [v \in Nat |-> v + s[n]]]
           Def(f) == f = [n \in 0..N |-> IF n = 0 THEN 0 ELSE f[n - 1] + s[n]]
<1>1. N \in Nat /\ \A n \in 1..N : s[n] \in Nat
  OBVIOUS
<1> HIDE DEF N
<1>2. d \in [1..N -> [Nat -> Nat]]
  BY <1>1
<1>3. PICK f : Computes(f, N, Nat, 0, d)
  <2> HIDE DEF d
  <2> QED BY <1>1, <1>2, Recursion
<1>4. f \in [0..N -> Nat] /\ f[0] = 0 /\ \A n \in 1..N : f[n] = d[n][f[n - 1]]
  <2> HIDE DEF d
  <2> QED BY <1>3 DEF Computes
<1>5. ASSUME NEW n \in 1..N PROVE f[n] = f[n - 1] + s[n]
  <2>1. n - 1 \in 0..N
    BY <1>1
  <2>2. f[n - 1] \in Nat
    BY <1>4, <2>1
  <2> QED BY <1>4, <2>2
<1> HIDE DEF d
<1>6. Def(f)
  <2>1. \A n \in 0..N : n # 0 => n \in 1..N
    BY <1>1
  <2>2. f = [n \in 0..N |-> f[n]]
    BY <1>4
  <2> QED BY <1>4, <1>5, <2>1, <2>2
<1>7. Def(Sums(s))
  <2>1. Sums(s) = CHOOSE g : Def(g)
    BY DEF Sums, N
  <2> HIDE DEF Def
  <2> QED BY <1>6, <2>1
<1> DEFINE g == Sums(s)
<1>8. g[0] = 0 /\ \A n \in 1..N : g[n] = g[n - 1] + s[n]
  <2>1. 0 \in 0..N /\ \A n \in 1..N : n \in 0..N /\ n # 0
    BY <1>1
  <2> HIDE DEF g
  <2>2. Def(g)
    BY <1>7 DEF g
  <2> QED BY <2>1, <2>2
<1>9. g = [n \in 0..N |-> g[n]]
  <2> HIDE DEF g
  <2>1. Def(g)
    BY <1>7 DEF g
  <2> QED BY <2>1
<1> HIDE DEF g, Def
<1> DEFINE T == {n \in 0..N : g[n] \in Nat}
<1>10. 0 \in T
  BY <1>1, <1>8
<1>11. ASSUME NEW n \in 0..(N - 1), n \in T PROVE n + 1 \in T
  <2>1. n + 1 \in 1..N /\ (n + 1) - 1 = n /\ n + 1 \in 0..N
    BY <1>1
  <2>2. g[n + 1] = g[n] + s[n + 1]
    BY <1>8, <2>1
  <2> QED BY <1>1, <1>11, <2>1, <2>2
<1>12. \A n \in 0..N : n \in T
  <2> HIDE DEF T
  <2> QED BY <1>1, <1>10, <1>11, Induction
<1>13. g \in [0..N -> Nat]
  BY <1>9, <1>12
<1> QED BY <1>8, <1>13 DEF g, N

(* Sequences that begin alike have the same first sums.                    *)
LEMMA SumsAgree ==
  ASSUME NEW s \in Seq(Nat), NEW t \in Seq(Nat), NEW n \in 0..Len(s), n <= Len(t),
         \A i \in 1..n : s[i] = t[i]
  PROVE  Sums(s)[n] = Sums(t)[n]
<1> DEFINE T == {m \in 0..n : Sums(s)[m] = Sums(t)[m]}
<1>0. n \in Nat /\ Len(s) \in Nat /\ Len(t) \in Nat
  OBVIOUS
<1>1. 0 \in T
  BY <1>0, SumsFacts
<1>2. ASSUME NEW m \in 0..(n - 1), m \in T PROVE m + 1 \in T
  <2>1. m + 1 \in 1..n /\ (m + 1) - 1 = m /\ m + 1 \in 1..Len(s) /\ m + 1 \in 1..Len(t)
        /\ m + 1 \in 0..n
    BY <1>0
  <2>2. Sums(s)[m + 1] = Sums(s)[m] + s[m + 1] /\ Sums(t)[m + 1] = Sums(t)[m] + t[m + 1]
    BY <2>1, SumsFacts
  <2> QED BY <1>2, <2>1, <2>2
<1>3. \A m \in 0..n : m \in T
  <2> HIDE DEF T
  <2> QED BY <1>0, <1>1, <1>2, Induction
<1> QED BY <1>0, <1>3

(* One number that is larger by v makes the sum larger by v.               *)
LEMMA SumsAdd ==
  ASSUME NEW s \in Seq(Nat), NEW t \in Seq(Nat), Len(s) = Len(t), NEW k \in 1..Len(s),
         NEW v \in Nat, t[k] = s[k] + v, \A i \in (1..Len(s)) \ {k} : s[i] = t[i]
  PROVE  Sums(t)[Len(s)] = Sums(s)[Len(s)] + v
<1> DEFINE N == Len(s)
           a == Sums(s)
           b == Sums(t)
           T == {m \in 0..N : k <= m => b[m] = a[m] + v}
<1>0. N \in Nat /\ k \in Nat /\ 1 <= k /\ k <= N
  OBVIOUS
<1>a. /\ a \in [0..N -> Nat] /\ \A m \in 1..N : a[m] = a[m - 1] + s[m]
      /\ \A m \in 1..N : s[m] \in Nat
  <2>1. \A m \in 1..N : s[m] \in Nat
    BY SMTT(30)
  <2> QED BY <2>1, SumsFacts
<1>b. \A m \in 1..N : b[m] = b[m - 1] + t[m]
  BY SumsFacts
<1>c. \A m \in 0..(k - 1) : a[m] = b[m]
  <2> TAKE m \in 0..(k - 1)
  <2>1. m \in 0..Len(s) /\ m <= Len(t) /\ \A i \in 1..m : i \in (1..Len(s)) \ {k}
    BY <1>0
  <2>2. \A i \in 1..m : s[i] = t[i]
    BY <2>1
  <2> QED BY <2>1, <2>2, SumsAgree
<1> HIDE DEF a, b
<1>1. 0 \in T
  BY <1>0
<1>2. ASSUME NEW m \in 0..(N - 1), m \in T PROVE m + 1 \in T
  <2>1. m + 1 \in 1..N /\ (m + 1) - 1 = m /\ m + 1 \in 0..N /\ m \in 0..N
    BY <1>0
  <2>2. a[m + 1] = a[m] + s[m + 1] /\ b[m + 1] = b[m] + t[m + 1]
    BY <1>a, <1>b, <2>1
  <2>3. s[m + 1] \in Nat /\ a[m] \in Nat
    BY <1>a, <2>1
  <2>4. CASE k = m + 1
    <3>1. a[m] = b[m]
      BY <1>0, <1>c, <2>1, <2>4
    <3>2. b[m + 1] = a[m + 1] + v
      BY SMTT(30), <2>2, <2>3, <2>4, <3>1
    <3> QED BY <2>1, <3>2
  <2>5. CASE k <= m
    <3>1. b[m] = a[m] + v /\ t[m + 1] = s[m + 1]
      BY <1>0, <1>2, <2>1, <2>5
    <3>2. b[m + 1] = a[m + 1] + v
      BY SMTT(30), <2>2, <2>3, <3>1
    <3> QED BY <2>1, <3>2
  <2>6. CASE m + 1 < k
    BY <1>0, <2>1, <2>6
  <2> QED BY <1>0, <2>4, <2>5, <2>6
<1>3. \A m \in 0..N : m \in T
  <2> HIDE DEF T, N
  <2> QED BY <1>0, <1>1, <1>2, Induction
<1>4. b[N] = a[N] + v
  BY <1>0, <1>3
<1> QED BY <1>4 DEF a, b

(* A masked sequence of numbers is one.                                    *)
LEMMA MaskedFacts ==
  ASSUME NEW s \in Seq(Nat), NEW D
  PROVE  /\ Masked(s, D) \in Seq(Nat) /\ Len(Masked(s, D)) = Len(s)
         /\ \A i \in 1..Len(s) : Masked(s, D)[i] = IF i \in D THEN s[i] ELSE 0
  BY DEF Masked

(* Every duration falls into a bucket.                                     *)
LEMMA BucketOfFacts ==
  ASSUME NEW d \in Nat
  PROVE  /\ BucketOf(d) \in Bucket
         /\ BucketOf(d) = NumBuckets \/ d <= Boundary[BucketOf(d)]
         /\ BucketOf(d) = 1 \/ d > Boundary[BucketOf(d) - 1]
<1> DEFINE S == {b \in Bucket : b = NumBuckets \/ d <= Boundary[b]}
<1>1. /\ Boundary \in Seq(Nat) /\ Len(Boundary) \in Nat /\ NumBuckets = Len(Boundary) + 1
      /\ Bucket = 1..NumBuckets /\ NumBuckets \in Nat /\ 1 <= NumBuckets
  BY CollectorAssumption DEF NumBuckets, Bucket
<1>2. S \in SUBSET Nat /\ S # {}
  <2>1. NumBuckets \in S
    BY <1>1
  <2> QED BY <1>1, <2>1
<1>3. PICK m \in S : \A n \in S : m <= n
  <2> HIDE DEF S
  <2> QED BY <1>2, LeastNatural
<1>4. m = 1 \/ d > Boundary[m - 1]
  <2> SUFFICES ASSUME m # 1 PROVE d > Boundary[m - 1]
    OBVIOUS
  <2>1. m - 1 \in Bucket /\ m - 1 # NumBuckets /\ m \in Nat /\ m - 1 < m
    BY <1>1
  <2>2. m - 1 \notin S
    BY <1>3, <2>1
  <2>3. Boundary[m - 1] \in Nat
    BY <1>1, <2>1
  <2> QED BY <2>1, <2>2, <2>3
<1> QED BY <1>3, <1>4 DEF BucketOf

Step == {"idle", "bucket", "count", "min", "max", "end", "span"}

(* The places that recorders are assigned are places of records.           *)
LEMMA PlacesFinite ==
  ASSUME NEW n \in Nat, NEW D
  PROVE  IsFiniteSet((1..n) \ D) /\ Cardinality((1..n) \ D) \in Nat
<1>1. IsFiniteSet(1..n)
  BY FS_Interval
<1>2. IsFiniteSet((1..n) \ D)
  BY <1>1, FS_Difference
<1> QED BY <1>2, FS_CardinalityType

(* The buckets hold the places of the durations.                           *)
LEMMA InRangeFinite ==
  ASSUME NEW s \in Seq(Nat), NEW b, NEW D
  PROVE  IsFiniteSet(InRange(s, b) \ D) /\ Cardinality(InRange(s, b) \ D) \in Nat
<1>1. IsFiniteSet(1..Len(s)) /\ InRange(s, b) \in SUBSET (1..Len(s))
  BY FS_Interval DEF InRange
<1>2. IsFiniteSet(InRange(s, b))
  BY <1>1, FS_Subset
<1>3. IsFiniteSet(InRange(s, b) \ D)
  BY <1>2, FS_Difference
<1> QED BY <1>3, FS_CardinalityType

(* What a step does not touch stays accounted for.                         *)
LEMMA AccountedFrame ==
  ASSUME NEW f, NEW p, NEW v, NEW s, NEW c, NEW h, NEW q, NEW w, NEW e,
         Accounted(f, p, v, s, c, h),
         \A r \in Recorder : /\ p[r] \in Pending <=> q[r] \in Pending
                             /\ p[r] = "bucket" <=> q[r] = "bucket"
                             /\ p[r] \in Pending => w[r] = v[r],
         e["count"] = c["count"], e["sum"] = c["sum"]
  PROVE  Accounted(f, q, w, s, e, h)
<1>1. Places(p, f, Pending) = Places(q, f, Pending)
  BY DEF Places
<1>2. Places(p, f, {"bucket"}) = Places(q, f, {"bucket"})
  BY DEF Places
<1> QED BY <1>1, <1>2 DEF Accounted

(* The recorder r begins with a duration: it is assigned the last place.   *)
LEMMA AccountedBegin ==
  ASSUME NEW s \in Seq(Nat), NEW d \in Nat, NEW f \in [Recorder -> 0..Len(s)],
         NEW p \in [Recorder -> Step], NEW v \in [Recorder -> Nat], NEW c, NEW h, NEW e,
         NEW r \in Recorder, p[r] \notin Pending,
         Accounted(f, p, v, s, c, h), e["count"] = c["count"], e["sum"] = c["sum"]
  PROVE  Accounted([f EXCEPT ![r] = Len(s) + 1], [p EXCEPT ![r] = "bucket"],
                   [v EXCEPT ![r] = d], Append(s, d), e, h)
<1> DEFINE n == Len(s)
           t == Append(s, d)
           g == [f EXCEPT ![r] = n + 1]
           q == [p EXCEPT ![r] = "bucket"]
           w == [v EXCEPT ![r] = d]
<1>1. /\ n \in Nat /\ t \in Seq(Nat) /\ Len(t) = n + 1 /\ t[n + 1] = d
      /\ \A i \in 1..n : t[i] = s[i] /\ i \in 1..(n + 1) /\ i # n + 1
      /\ n + 1 \in 1..(n + 1) /\ \A i \in 1..(n + 1) : i # n + 1 => i \in 1..n
  <2>1. n \in Nat /\ t \in Seq(Nat) /\ Len(t) = n + 1 /\ t[n + 1] = d
    OBVIOUS
  <2>2. \A i \in 1..n : t[i] = s[i]
    OBVIOUS
  <2> HIDE DEF n, t
  <2> QED BY <2>1, <2>2
<1>2. /\ g[r] = n + 1 /\ q[r] = "bucket" /\ w[r] = d
      /\ \A x \in Recorder : x # r => g[x] = f[x] /\ q[x] = p[x] /\ w[x] = v[x]
  OBVIOUS
<1> HIDE DEF n, t, g, q, w
<1>3. ASSUME NEW x \in Recorder, p[x] \in Pending PROVE f[x] \in 1..n /\ v[x] = s[f[x]]
  BY <1>3 DEF Accounted, n
<1>4. \A P \in SUBSET Pending : "bucket" \in P =>
        Places(q, g, P) = Places(p, f, P) \cup {n + 1}
  BY ZenonT(40), <1>2 DEF Places
<1>5. \A P \in SUBSET Pending : Places(p, f, P) \subseteq 1..n
  BY <1>3 DEF Places
<1>6. /\ Places(q, g, Pending) = Places(p, f, Pending) \cup {n + 1}
      /\ Places(q, g, {"bucket"}) = Places(p, f, {"bucket"}) \cup {n + 1}
      /\ Places(p, f, {"bucket"}) \subseteq 1..n
  BY <1>4, <1>5 DEF Pending
<1> DEFINE A == Places(p, f, Pending)
           B == Places(p, f, {"bucket"})
<1> HIDE DEF A, B
<1>7. /\ (1..(n + 1)) \ (A \cup {n + 1}) = (1..n) \ A
      /\ (1..(n + 1)) \ (B \cup {n + 1}) = (1..n) \ B
  BY <1>1
<1>8. ASSUME NEW b \in Bucket
      PROVE  InRange(t, b) \ (B \cup {n + 1}) = InRange(s, b) \ B
  BY <1>1 DEF InRange, n
<1>9. Sums(Masked(t, (1..n) \ B))[n + 1] = Sums(Masked(s, (1..n) \ B))[n]
  <2> DEFINE D == (1..n) \ B
             a == Masked(s, D)
             k == Masked(t, D)
  <2>0. n + 1 \notin D
    BY <1>1
  <2> HIDE DEF D
  <2>1. /\ a \in Seq(Nat) /\ Len(a) = n
        /\ \A i \in 1..n : a[i] = IF i \in D THEN s[i] ELSE 0
    BY MaskedFacts DEF n
  <2>2. /\ k \in Seq(Nat) /\ Len(k) = Len(t)
        /\ \A i \in 1..Len(t) : k[i] = IF i \in D THEN t[i] ELSE 0
    <3>1. t \in Seq(Nat)
      BY <1>1
    <3> QED BY <3>1, MaskedFacts
  <2> HIDE DEF a, k
  <2>3. k[n + 1] = 0 /\ Len(k) = n + 1 /\ \A i \in 1..n : a[i] = k[i]
    BY <1>1, <2>0, <2>1, <2>2
  <2>4. n \in 0..Len(a) /\ n <= Len(k) /\ n + 1 \in 1..Len(k) /\ (n + 1) - 1 = n
        /\ n \in 0..Len(k)
    BY <1>1, <2>1, <2>3
  <2>5. Sums(a)[n] = Sums(k)[n]
    BY ZenonT(40), <2>1, <2>2, <2>3, <2>4, SumsAgree
  <2>6. /\ Sums(k) \in [0..Len(k) -> Nat]
        /\ \A i \in 1..Len(k) : Sums(k)[i] = Sums(k)[i - 1] + k[i]
    BY <2>2, SumsFacts
  <2>7. Sums(k)[n + 1] = Sums(k)[n] + 0 /\ Sums(k)[n] \in Nat
    BY <2>3, <2>4, <2>6
  <2> QED BY <2>5, <2>7 DEF a, k, D
<1>10. ASSUME NEW x \in Recorder, q[x] \in Pending PROVE g[x] \in 1..Len(t) /\ w[x] = t[g[x]]
  <2>1. CASE x = r
    BY <1>1, <1>2, <2>1
  <2>2. CASE x # r
    <3>1. g[x] = f[x] /\ w[x] = v[x] /\ p[x] \in Pending
      BY <1>2, <1>10, <2>2
    <3>2. f[x] \in 1..n /\ v[x] = s[f[x]]
      BY <1>3, <3>1
    <3> QED BY <1>1, <3>1, <3>2
  <2> QED BY <2>1, <2>2
<1>11. ASSUME NEW x \in Recorder, NEW y \in Recorder, q[x] \in Pending, q[y] \in Pending,
              g[x] = g[y]
       PROVE  x = y
  <2>1. ASSUME NEW z \in Recorder, z # r, q[z] \in Pending
        PROVE  g[z] = f[z] /\ g[z] # g[r] /\ p[z] \in Pending
    <3>1. g[z] = f[z] /\ p[z] \in Pending
      BY <1>2, <2>1
    <3> QED BY <1>1, <1>2, <1>3, <3>1
  <2>2. \A a, b \in Recorder : p[a] \in Pending /\ p[b] \in Pending /\ f[a] = f[b] => a = b
    BY DEF Accounted
  <2> QED BY <1>11, <2>1, <2>2
<1>12. e["count"] = Cardinality((1..Len(t)) \ Places(q, g, Pending))
  BY <1>1, <1>6, <1>7 DEF Accounted, A, n
<1>13. e["sum"] = Sums(Masked(t, (1..Len(t)) \ Places(q, g, {"bucket"})))[Len(t)]
  BY <1>1, <1>6, <1>7, <1>9 DEF Accounted, B, n
<1>14. \A b \in Bucket : h[b] = Cardinality(InRange(t, b) \ Places(q, g, {"bucket"}))
  BY <1>6, <1>8 DEF Accounted, B
<1>15. Accounted(g, q, w, t, e, h)
  BY <1>10, <1>11, <1>12, <1>13, <1>14 DEF Accounted
<1> QED BY <1>15 DEF g, q, w, t, n

(* A place that is no longer left out counts.                              *)
LEMMA OneMore ==
  ASSUME NEW S, NEW D, NEW k \in S, k \in D, IsFiniteSet(S \ D)
  PROVE  Cardinality(S \ (D \ {k})) = Cardinality(S \ D) + 1
<1>1. S \ (D \ {k}) = (S \ D) \cup {k} /\ k \notin S \ D
  OBVIOUS
<1> QED BY <1>1, FS_AddElement

(* The recorder r counts its duration in a bucket and in the sum.          *)
LEMMA AccountedBucket ==
  ASSUME NEW s \in Seq(Nat), NEW f \in [Recorder -> 0..Len(s)],
         NEW p \in [Recorder -> Step], NEW v \in [Recorder -> Nat],
         NEW c \in [Counter -> Nat], NEW h \in [Bucket -> Nat],
         NEW r \in Recorder, p[r] = "bucket", Accounted(f, p, v, s, c, h)
  PROVE  Accounted(f, [p EXCEPT ![r] = "count"], v, s, [c EXCEPT !["sum"] = @ + v[r]],
                   [h EXCEPT ![BucketOf(v[r])] = @ + 1])
<1> DEFINE n == Len(s)
           q == [p EXCEPT ![r] = "count"]
           k == f[r]
           b == BucketOf(v[r])
           e == [c EXCEPT !["sum"] = @ + v[r]]
           g == [h EXCEPT ![b] = @ + 1]
           B == Places(p, f, {"bucket"})
<1>1. /\ q[r] = "count" /\ \A x \in Recorder : x # r => q[x] = p[x]
      /\ \A x \in Recorder : q[x] \in Pending <=> p[x] \in Pending
  BY DEF Pending
<1>2. /\ \A x \in Recorder : p[x] \in Pending => f[x] \in 1..Len(s) /\ v[x] = s[f[x]]
      /\ \A x, y \in Recorder : p[x] \in Pending /\ p[y] \in Pending /\ f[x] = f[y] => x = y
  BY DEF Accounted
<1>3. k \in 1..n /\ v[r] = s[k] /\ v[r] \in Nat /\ n \in Nat
  BY <1>2 DEF Pending
<1>4. k \in B /\ Places(q, f, {"bucket"}) = B \ {k}
  <2>1. {"bucket"} \in SUBSET Pending /\ p[r] \in {"bucket"} /\ q[r] \notin {"bucket"}
    BY <1>1 DEF Pending
  <2>2. \A x \in Recorder : x # r => q[x] = p[x]
    BY <1>1
  <2>3. \A x, y \in Recorder : p[x] \in Pending /\ p[y] \in Pending /\ f[x] = f[y] => x = y
    BY <1>2
  <2> HIDE DEF q
  <2> QED BY <2>1, <2>2, <2>3 DEF Places
<1>5. Places(q, f, Pending) = Places(p, f, Pending)
  BY <1>1 DEF Places
<1>6. b \in Bucket
  BY <1>3, BucketOfFacts
<1>7. e["sum"] = c["sum"] + v[r] /\ e["count"] = c["count"]
  BY DEF Counter
<1>8. g[b] = h[b] + 1 /\ \A x \in Bucket : x # b => g[x] = h[x]
  BY <1>6
<1>a. /\ c["count"] = Cardinality((1..n) \ Places(p, f, Pending))
      /\ c["sum"] = Sums(Masked(s, (1..n) \ B))[n]
      /\ \A x \in Bucket : h[x] = Cardinality(InRange(s, x) \ B)
  BY DEF Accounted
<1> HIDE DEF n, q, k, b, e, g, B
<1>9. e["sum"] = Sums(Masked(s, (1..n) \ (B \ {k})))[n]
  <2> DEFINE D == (1..n) \ B
             E == (1..n) \ (B \ {k})
             a == Masked(s, D)
             j == Masked(s, E)
  <2>1. k \notin D /\ k \in E /\ \A i \in (1..n) \ {k} : i \in D <=> i \in E
    BY <1>3, <1>4
  <2> HIDE DEF D, E
  <2>2. /\ a \in Seq(Nat) /\ Len(a) = n
        /\ \A i \in 1..n : a[i] = IF i \in D THEN s[i] ELSE 0
    BY MaskedFacts DEF n
  <2>3. /\ j \in Seq(Nat) /\ Len(j) = n
        /\ \A i \in 1..n : j[i] = IF i \in E THEN s[i] ELSE 0
    BY MaskedFacts DEF n
  <2>4. j[k] = s[k] /\ a[k] = 0 /\ s[k] \in Nat /\ \A i \in (1..n) \ {k} : a[i] = j[i]
    BY <1>3, <2>1, <2>2, <2>3
  <2>5. j[k] = a[k] + s[k]
    BY <2>4
  <2> HIDE DEF a, j
  <2>6. /\ Len(a) = Len(j) /\ k \in 1..Len(a) /\ s[k] \in Nat
        /\ \A i \in (1..Len(a)) \ {k} : a[i] = j[i]
    BY <1>3, <2>2, <2>3, <2>4
  <2>7. Sums(j)[Len(a)] = Sums(a)[Len(a)] + s[k]
    BY ZenonT(40), <2>2, <2>3, <2>5, <2>6, SumsAdd
  <2>8. Sums(j)[n] = Sums(a)[n] + s[k]
    BY <2>2, <2>7
  <2> QED BY <1>3, <1>7, <1>a, <2>8 DEF a, j, D, E
<1>10. ASSUME NEW x \in Bucket PROVE g[x] = Cardinality(InRange(s, x) \ (B \ {k}))
  <2>1. CASE x = b
    <3>1. k \in InRange(s, b)
      BY <1>3 DEF InRange, b, n
    <3>2. IsFiniteSet(InRange(s, b) \ B)
      BY InRangeFinite
    <3>3. Cardinality(InRange(s, b) \ (B \ {k})) = Cardinality(InRange(s, b) \ B) + 1
      BY <1>4, <3>1, <3>2, OneMore
    <3> QED BY <1>6, <1>8, <1>a, <2>1, <3>3
  <2>2. CASE x # b
    <3>1. k \notin InRange(s, x)
      BY <1>3, <2>2 DEF InRange, b, n
    <3>2. InRange(s, x) \ (B \ {k}) = InRange(s, x) \ B
      BY <3>1
    <3> QED BY <1>8, <1>a, <2>2, <3>2
  <2> QED BY <2>1, <2>2
<1>11. Accounted(f, q, v, s, e, g)
  BY <1>1, <1>2, <1>4, <1>5, <1>7, <1>a, <1>9, <1>10 DEF Accounted, n
<1> QED BY <1>11 DEF q, e, g, b

(* The recorder r counts it in the count.                                  *)
LEMMA AccountedCount ==
  ASSUME NEW s \in Seq(Nat), NEW f \in [Recorder -> 0..Len(s)],
         NEW p \in [Recorder -> Step], NEW v, NEW c, NEW h, NEW e,
         NEW r \in Recorder, p[r] = "count", Accounted(f, p, v, s, c, h),
         e["count"] = c["count"] + 1, e["sum"] = c["sum"]
  PROVE  Accounted(f, [p EXCEPT ![r] = "min"], v, s, e, h)
<1> DEFINE n == Len(s)
           q == [p EXCEPT ![r] = "min"]
           k == f[r]
           A == Places(p, f, Pending)
<1>1. /\ q[r] = "min" /\ \A x \in Recorder : x # r => q[x] = p[x]
      /\ \A x \in Recorder : q[x] = "bucket" <=> p[x] = "bucket"
      /\ \A x \in Recorder : q[x] \in Pending => p[x] \in Pending
  BY DEF Pending
<1>2. /\ \A x \in Recorder : p[x] \in Pending => f[x] \in 1..Len(s) /\ v[x] = s[f[x]]
      /\ \A x, y \in Recorder : p[x] \in Pending /\ p[y] \in Pending /\ f[x] = f[y] => x = y
  BY DEF Accounted
<1>3. k \in 1..n /\ n \in Nat
  BY <1>2 DEF Pending
<1>4. k \in A /\ Places(q, f, Pending) = A \ {k}
  <2>1. Pending \in SUBSET Pending /\ p[r] \in Pending /\ q[r] \notin Pending
    BY <1>1 DEF Pending
  <2>2. \A x \in Recorder : x # r => q[x] = p[x]
    BY <1>1
  <2>3. \A x, y \in Recorder : p[x] \in Pending /\ p[y] \in Pending /\ f[x] = f[y] => x = y
    BY <1>2
  <2> HIDE DEF q
  <2> QED BY <2>1, <2>2, <2>3 DEF Places
<1>5. Places(q, f, {"bucket"}) = Places(p, f, {"bucket"})
  BY <1>1 DEF Places
<1>6. /\ c["count"] = Cardinality((1..n) \ A)
      /\ c["sum"] = Sums(Masked(s, (1..n) \ Places(p, f, {"bucket"})))[n]
      /\ \A x \in Bucket : h[x] = Cardinality(InRange(s, x) \ Places(p, f, {"bucket"}))
  BY DEF Accounted
<1> HIDE DEF n, q, k, A
<1>7. e["count"] = Cardinality((1..n) \ (A \ {k}))
  <2>1. IsFiniteSet((1..n) \ A)
    BY <1>3, PlacesFinite
  <2>2. Cardinality((1..n) \ (A \ {k})) = Cardinality((1..n) \ A) + 1
    BY <1>3, <1>4, <2>1, OneMore
  <2> QED BY <1>6, <2>2
<1>8. Accounted(f, q, v, s, e, h)
  BY <1>1, <1>2, <1>4, <1>5, <1>6, <1>7 DEF Accounted, n
<1> QED BY <1>8 DEF q

(* Every step keeps the metrics those of the durations that are counted.   *)
LEMMA MetricsInvStep ==
  ASSUME RecorderTypeOK, MetricsInv, [CollectNext]_collectVars
  PROVE  MetricsInv'
<1>t. /\ records \in Seq(Nat) /\ Len(records) \in Nat
      /\ phase \in [Recorder -> Step] /\ value \in [Recorder -> Nat]
      /\ counter \in [Counter -> Nat] /\ bucket \in [Bucket -> Nat] /\ errors \in Nat
  <2>1. \A d \in Duration : d \in Nat
    BY CollectorAssumption
  <2>2. records \in Seq(Nat)
    BY <2>1 DEF RecorderTypeOK
  <2>3. phase \in [Recorder -> Step] /\ value \in [Recorder -> Nat]
    BY DEF RecorderTypeOK, Step
  <2> QED BY <2>2, <2>3 DEF MetricsInv, CounterTypeOK
<1>f. PICK f \in [Recorder -> 0..Len(records)] :
        Accounted(f, phase, value, records, counter, bucket)
  BY DEF MetricsInv
<1>c. /\ counter["elements_total"] = Len(records) /\ counter["invocations"] = Len(records)
      /\ counter["errors"] = errors /\ counter["errors_total"] = errors
  BY DEF MetricsInv, CounterTypeOK
<1>d. \A C \in SUBSET Counter : /\ Counted(C) \in [Counter -> Nat]
                                /\ \A c \in C : Counted(C)[c] = counter[c] + 1
                                /\ \A c \in Counter \ C : Counted(C)[c] = counter[c]
  BY <1>t DEF Counted
<1>1. ASSUME UNCHANGED <<bucket, records>>, counter' \in [Counter -> Nat], errors' \in Nat,
             \A c \in Counter \ {"errors", "errors_total"} : counter'[c] = counter[c],
             counter'["errors"] = errors', counter'["errors_total"] = errors',
             \A q \in Recorder : /\ phase[q] \in Pending <=> phase'[q] \in Pending
                                 /\ phase[q] = "bucket" <=> phase'[q] = "bucket"
                                 /\ phase[q] \in Pending => value'[q] = value[q]
      PROVE  MetricsInv'
  <2>1. /\ counter'["count"] = counter["count"] /\ counter'["sum"] = counter["sum"]
        /\ counter'["elements_total"] = counter["elements_total"]
        /\ counter'["invocations"] = counter["invocations"]
    BY <1>1 DEF Counter
  <2>2. Accounted(f, phase', value', records, counter', bucket)
    BY <1>1, <1>f, <2>1, AccountedFrame
  <2>3. CounterTypeOK'
    BY <1>1, <1>t, <1>c, <2>1 DEF CounterTypeOK
  <2>4. \E g \in [Recorder -> 0..Len(records')] :
          Accounted(g, phase', value', records', counter', bucket')
    BY <1>1, <1>f, <2>2
  <2> QED BY <2>3, <2>4 DEF MetricsInv
<1>2. ASSUME NEW r \in Recorder, NEW d \in Duration, RecordInvocation(r, d) PROVE MetricsInv'
  <2>1. phase[r] = "idle" /\ UNCHANGED <<bucket, errors>>
    BY <1>2 DEF RecordInvocation
  <2>2. CASE Goto(r, "span") /\ UNCHANGED <<value, counter, records>>
    <3>1. phase'[r] = "span" /\ \A q \in Recorder : q # r => phase'[q] = phase[q]
      BY <1>t, <2>2 DEF Goto
    <3> QED BY <1>1, <1>t, <1>c, <2>1, <2>2, <3>1 DEF Pending
  <2>3. CASE /\ Goto(r, "bucket") /\ value' = [value EXCEPT ![r] = d]
             /\ counter' = Counted({"elements_total", "invocations"})
             /\ records' = Append(records, d)
    <3>1. d \in Nat
      BY CollectorAssumption
    <3>2. {"elements_total", "invocations"} \in SUBSET Counter
      BY DEF Counter
    <3>3. /\ counter' \in [Counter -> Nat]
          /\ counter'["count"] = counter["count"] /\ counter'["sum"] = counter["sum"]
          /\ counter'["errors"] = counter["errors"]
          /\ counter'["errors_total"] = counter["errors_total"]
          /\ counter'["elements_total"] = counter["elements_total"] + 1
          /\ counter'["invocations"] = counter["invocations"] + 1
      BY <1>t, <2>3 DEF Counted, Counter
    <3>4. Accounted([f EXCEPT ![r] = Len(records) + 1], phase', value', records', counter', bucket)
      <4>1. phase[r] \notin Pending
        BY <2>1 DEF Pending
      <4> QED BY <1>t, <1>f, <2>3, <3>1, <3>3, <4>1, AccountedBegin DEF Goto
    <3>5. Len(records') = Len(records) + 1
      BY <1>t, <2>3
    <3>6. [f EXCEPT ![r] = Len(records) + 1] \in [Recorder -> 0..Len(records')]
      <4>1. 0..Len(records) \subseteq 0..Len(records') /\ Len(records) + 1 \in 0..Len(records')
        BY <1>t, <3>5
      <4> QED BY <1>f, <4>1
    <3>7. CounterTypeOK'
      BY <1>t, <1>c, <2>1, <3>3, <3>5 DEF CounterTypeOK
    <3>8. \E g \in [Recorder -> 0..Len(records')] :
            Accounted(g, phase', value', records', counter', bucket')
      BY <2>1, <3>4, <3>6
    <3> QED BY <3>7, <3>8 DEF MetricsInv
  <2> QED BY <1>2, <2>2, <2>3 DEF RecordInvocation
<1>3. ASSUME NEW r \in Recorder, CountBucket(r) PROVE MetricsInv'
  <2>1. /\ phase[r] = "bucket" /\ phase' = [phase EXCEPT ![r] = "count"]
        /\ bucket' = [bucket EXCEPT ![BucketOf(value[r])] = @ + 1]
        /\ counter' = [counter EXCEPT !["sum"] = @ + value[r]]
        /\ UNCHANGED <<value, records, errors>>
    BY <1>3 DEF CountBucket, Goto, history
  <2>2. Accounted(f, phase', value', records', counter', bucket')
    BY <1>t, <1>f, <2>1, AccountedBucket
  <2>3. value[r] \in Nat /\ BucketOf(value[r]) \in Bucket
    BY <1>t, BucketOfFacts
  <2>4. counter' \in [Counter -> Nat] /\ bucket' \in [Bucket -> Nat]
    <3>1. "sum" \in Counter
      BY DEF Counter
    <3>2. counter["sum"] + value[r] \in Nat
      BY <1>t, <2>3, <3>1
    <3>3. counter' \in [Counter -> Nat]
      BY <1>t, <2>1, <3>2
    <3>4. bucket[BucketOf(value[r])] + 1 \in Nat
      BY <1>t, <2>3
    <3>5. bucket' \in [Bucket -> Nat]
      BY <1>t, <2>1, <3>4
    <3> QED BY <3>3, <3>5
  <2>5. \A c \in Counter \ {"sum"} : counter'[c] = counter[c]
    BY <1>t, <2>1
  <2>6. CounterTypeOK'
    BY <1>t, <1>c, <2>1, <2>4, <2>5 DEF CounterTypeOK, Counter
  <2> QED BY <1>f, <2>1, <2>2, <2>6 DEF MetricsInv
<1>4. ASSUME NEW r \in Recorder, IncrementCount(r) PROVE MetricsInv'
  <2>1. /\ phase[r] = "count" /\ phase' = [phase EXCEPT ![r] = "min"]
        /\ counter' = Counted({"count"}) /\ UNCHANGED <<bucket, value, records, errors>>
    BY <1>4 DEF IncrementCount, Goto, history
  <2>2. /\ counter' \in [Counter -> Nat] /\ counter'["count"] = counter["count"] + 1
        /\ \A c \in Counter \ {"count"} : counter'[c] = counter[c]
    BY <1>t, <2>1 DEF Counted, Counter
  <2>3. counter'["sum"] = counter["sum"]
    BY <2>2 DEF Counter
  <2>4. Accounted(f, phase', value', records', counter', bucket')
    BY <1>t, <1>f, <2>1, <2>2, <2>3, AccountedCount
  <2>5. CounterTypeOK'
    BY <1>t, <1>c, <2>1, <2>2 DEF CounterTypeOK, Counter
  <2> QED BY <1>f, <2>1, <2>4, <2>5 DEF MetricsInv
<1>5. ASSUME NEW r \in Recorder, LoadBound(r) \/ SwapBound(r) PROVE MetricsInv'
  <2>1. /\ phase[r] \in {"min", "max"} /\ UNCHANGED <<counter, bucket, value, records, errors>>
        /\ phase' = phase \/ phase' = [phase EXCEPT ![r] = IF phase[r] = "min" THEN "max" ELSE "end"]
    BY <1>5 DEF LoadBound, SwapBound, AfterBound, Goto, metrics, history
  <2>2. phase'[r] \in {"min", "max", "end"} /\ \A q \in Recorder : q # r => phase'[q] = phase[q]
    BY <1>t, <2>1
  <2> QED BY <1>1, <1>t, <1>c, <2>1, <2>2 DEF Pending
<1>6. ASSUME NEW r \in Recorder, NEW failure \in BOOLEAN, EndRecord(r, failure)
      PROVE  MetricsInv'
  <2>1. /\ phase[r] = "end" /\ phase' = [phase EXCEPT ![r] = "span"]
        /\ value' = [value EXCEPT ![r] = 0] /\ UNCHANGED <<bucket, records>>
        /\ counter' = IF failure THEN Counted({"errors", "errors_total"}) ELSE counter
        /\ errors' = IF failure THEN errors + 1 ELSE errors
    BY <1>6 DEF EndRecord, Goto
  <2>2. /\ phase'[r] = "span"
        /\ \A q \in Recorder : q # r => phase'[q] = phase[q] /\ value'[q] = value[q]
    BY <1>t, <2>1
  <2>3. /\ counter' \in [Counter -> Nat] /\ errors' \in Nat
        /\ \A c \in Counter \ {"errors", "errors_total"} : counter'[c] = counter[c]
        /\ counter'["errors"] = errors' /\ counter'["errors_total"] = errors'
    <3>1. CASE failure
      BY <1>t, <1>c, <2>1, <3>1 DEF Counted, Counter
    <3>2. CASE ~failure
      BY <1>t, <1>c, <2>1, <3>2
    <3> QED BY <3>1, <3>2
  <2> QED BY <1>1, <2>1, <2>2, <2>3 DEF Pending
<1>7. ASSUME NEW r \in Recorder, NEW element \in BOOLEAN, RecordElementSpan(r, element)
      PROVE  MetricsInv'
  <2>1. /\ phase[r] = "span" /\ phase' = [phase EXCEPT ![r] = "idle"]
        /\ UNCHANGED <<counter, bucket, value, records, errors>>
    BY <1>7 DEF RecordElementSpan, Goto, metrics, history
  <2>2. phase'[r] = "idle" /\ \A q \in Recorder : q # r => phase'[q] = phase[q]
    BY <1>t, <2>1
  <2> QED BY <1>1, <1>t, <1>c, <2>1, <2>2 DEF Pending
<1>8. CASE UNCHANGED collectVars \/ BeginSnapshot \/ ReadField \/ Trace \/ \E l \in Level : SetLevel(l)
  <2>1. UNCHANGED <<counter, bucket, value, records, errors, phase>>
    BY <1>8 DEF collectVars, BeginSnapshot, ReadField, Trace, SetLevel, recorder, metrics, history
  <2> QED BY <1>1, <1>t, <1>c, <2>1
<1> QED BY <1>2, <1>3, <1>4, <1>5, <1>6, <1>7, <1>8 DEF CollectNext

(* At the start every metric is 0 and there is no duration.                *)
LEMMA MetricsInit ==
  ASSUME CollectInit
  PROVE  MetricsInv
<1>1. /\ counter = [c \in Counter |-> 0] /\ bucket = [b \in Bucket |-> 0]
      /\ phase = [r \in Recorder |-> "idle"] /\ records = <<>> /\ errors = 0
  BY DEF CollectInit
<1>2. Len(records) = 0 /\ records \in Seq(Nat)
  BY <1>1
<1>3. CounterTypeOK
  BY <1>1, <1>2 DEF CounterTypeOK, Counter
<1> DEFINE f == [r \in Recorder |-> 0]
<1>4. \A r \in Recorder : phase[r] \notin Pending
  BY <1>1 DEF Pending
<1>5. counter["count"] = 0 /\ counter["sum"] = 0 /\ \A b \in Bucket : bucket[b] = 0
  BY <1>1 DEF Counter
<1>6. 1..Len(records) = {}
  BY <1>2
<1>7. Cardinality((1..Len(records)) \ Places(phase, f, Pending)) = 0
  BY <1>6, FS_EmptySet
<1>8. ASSUME NEW b \in Bucket
      PROVE  Cardinality(InRange(records, b) \ Places(phase, f, {"bucket"})) = 0
  BY <1>6, FS_EmptySet DEF InRange
<1>9. \A D : Sums(Masked(records, D))[Len(records)] = 0
  <2> TAKE D
  <2>1. Masked(records, D) \in Seq(Nat)
    BY <1>2, MaskedFacts
  <2> QED BY <1>2, <2>1, SumsFacts
<1>10. Accounted(f, phase, value, records, counter, bucket)
  BY <1>4, <1>5, <1>7, <1>8, <1>9 DEF Accounted
<1>11. f \in [Recorder -> 0..Len(records)]
  BY <1>2
<1> QED BY <1>3, <1>10, <1>11 DEF MetricsInv

(* When every recorder has counted its duration the metrics are exact.     *)
LEMMA MetricsKnown ==
  ASSUME RecorderTypeOK, BoundInv, MetricsInv
  PROVE  MetricsExact
<1> SUFFICES ASSUME \A r \in Recorder : phase[r] \in {"idle", "span"}
             PROVE  /\ counter["count"] = Len(records)
                    /\ counter["sum"] = Sums(records)[Len(records)]
                    /\ \A b \in Bucket : bucket[b] = Cardinality(Recorded(b))
  BY BoundExact DEF MetricsExact, MetricsInv, CounterTypeOK
<1>1. records \in Seq(Nat) /\ Len(records) \in Nat
  <2>1. \A d \in Duration : d \in Nat
    BY CollectorAssumption
  <2> QED BY <2>1 DEF RecorderTypeOK
<1>2. PICK f \in [Recorder -> 0..Len(records)] :
        Accounted(f, phase, value, records, counter, bucket)
  BY DEF MetricsInv
<1>3. Places(phase, f, Pending) = {} /\ Places(phase, f, {"bucket"}) = {}
  BY DEF Places, Pending
<1>4. Cardinality(1..Len(records)) = Len(records)
  BY SMTT(30), <1>1, FS_Interval
<1>5. Masked(records, 1..Len(records)) = records
  BY <1>1 DEF Masked
<1>6. \A b \in Bucket : InRange(records, b) = Recorded(b)
  BY <1>1 DEF InRange, Recorded
<1>7. \A S : S \ {} = S
  OBVIOUS
<1> QED BY ZenonT(40), <1>2, <1>3, <1>4, <1>5, <1>6, <1>7 DEF Accounted

(* The metrics lose nothing, for any number of recorders, any durations    *)
(* and any boundaries, however the recorders race and the level changes:   *)
(* whenever none is at work, every counter and every bucket is that of the *)
(* durations that were recorded.                                           *)
THEOREM MetricsAreExact == CollectSpec => []MetricsExact
<1> DEFINE I == RecorderTypeOK /\ BoundInv /\ MetricsInv
<1>1. CollectInit => I
  BY BoundInit, MetricsInit
<1>2. I /\ [CollectNext]_collectVars => I'
  BY RecorderTypeStep, BoundInvStep, MetricsInvStep
<1>3. I => MetricsExact
  BY MetricsKnown
<1> QED BY <1>1, <1>2, <1>3, PTL DEF CollectSpec

-----------------------------------------------------------------------------
(* The percentiles of a snapshot.                                          *)

(* What is known of the boundaries.                                        *)
LEMMA BoundaryFacts ==
  /\ Boundary \in Seq(Nat) /\ Len(Boundary) \in Nat \ {0} /\ NumBuckets = Len(Boundary) + 1
  /\ Bucket = 1..NumBuckets /\ NumBuckets \in Nat
  /\ \A i \in 1..Len(Boundary) : Boundary[i] \in Nat
  /\ \A i, j \in 1..Len(Boundary) : i < j => Boundary[i] < Boundary[j]
<1> DEFINE L == Len(Boundary)
<1>1. Boundary \in Seq(Nat) /\ L \in Nat \ {0} /\ NumBuckets = L + 1
  BY CollectorAssumption DEF NumBuckets
<1>2. \A i \in 1..L : Boundary[i] \in Nat
  BY <1>1
<1>3. \A i \in 2..L : Boundary[i - 1] < Boundary[i]
  BY CollectorAssumption
<1> HIDE DEF L
<1>4. ASSUME NEW i \in 1..L PROVE \A j \in 1..L : i < j => Boundary[i] < Boundary[j]
  <2> DEFINE T == {m \in 0..L : i < m => Boundary[i] < Boundary[m]}
  <2>1. 0 \in T
    BY <1>1
  <2>2. ASSUME NEW m \in 0..(L - 1), m \in T PROVE m + 1 \in T
    <3> SUFFICES ASSUME i < m + 1 PROVE Boundary[i] < Boundary[m + 1]
      BY <1>1
    <3>1. m \in 1..L /\ m + 1 \in 2..L /\ (m + 1) - 1 = m /\ m + 1 \in 1..L
      BY <1>1
    <3>2. Boundary[m] < Boundary[m + 1]
      BY <1>3, <3>1
    <3>3. i = m \/ Boundary[i] < Boundary[m]
      BY <1>1, <2>2, <3>1
    <3> QED BY <1>2, <3>1, <3>2, <3>3
  <2>3. \A m \in 0..L : m \in T
    <3> HIDE DEF T
    <3> QED BY <1>1, <2>1, <2>2, Induction
  <2> QED BY <1>1, <2>3
<1> QED BY <1>1, <1>2, <1>4 DEF L, Bucket

(* A longer duration is in no lower bucket.                                *)
LEMMA BucketMonotone ==
  ASSUME NEW d \in Nat, NEW e \in Nat, d <= e
  PROVE  BucketOf(d) <= BucketOf(e)
<1> DEFINE x == BucketOf(d)
           y == BucketOf(e)
<1>1. x \in Bucket /\ (x = 1 \/ d > Boundary[x - 1])
  BY BucketOfFacts
<1>2. y \in Bucket /\ (y = NumBuckets \/ e <= Boundary[y])
  BY BucketOfFacts
<1> HIDE DEF x, y
<1> SUFFICES ASSUME y < x PROVE FALSE
  BY <1>1, <1>2, BoundaryFacts DEF x, y
<1>3. y \in 1..Len(Boundary) /\ x - 1 \in 1..Len(Boundary) /\ y <= x - 1 /\ x # 1
      /\ y # NumBuckets
  BY <1>1, <1>2, BoundaryFacts
<1>4. Boundary[y] <= Boundary[x - 1] /\ Boundary[y] \in Nat /\ Boundary[x - 1] \in Nat
  <2>1. y = x - 1 \/ y < x - 1
    BY <1>3, BoundaryFacts
  <2> QED BY <1>3, <2>1, BoundaryFacts
<1> QED BY <1>1, <1>2, <1>3, <1>4

(* The sums of numbers never fall.                                         *)
LEMMA SumsGrow ==
  ASSUME NEW s \in Seq(Nat), NEW m \in 0..Len(s), NEW n \in 0..Len(s), m <= n
  PROVE  Sums(s)[m] <= Sums(s)[n]
<1> DEFINE N == Len(s)
           a == Sums(s)
           T == {i \in 0..N : m <= i => a[m] <= a[i]}
<1>0. N \in Nat
  OBVIOUS
<1>1. \A i \in 1..N : s[i] \in Nat
  OBVIOUS
<1>2. a \in [0..N -> Nat] /\ \A i \in 1..N : a[i] = a[i - 1] + s[i]
  BY SumsFacts
<1> HIDE DEF a, N
<1>m. m \in 0..N /\ n \in 0..N
  BY DEF N
<1>3. 0 \in T
  BY <1>0, <1>2, <1>m
<1>4. ASSUME NEW i \in 0..(N - 1), i \in T PROVE i + 1 \in T
  <2>1. i + 1 \in 1..N /\ (i + 1) - 1 = i /\ i + 1 \in 0..N /\ i \in 0..N
    BY <1>0
  <2>2. a[i + 1] = a[i] + s[i + 1] /\ s[i + 1] \in Nat /\ a[i] \in Nat /\ a[m] \in Nat
    BY <1>1, <1>2, <1>m, <2>1
  <2>3. m <= i + 1 => a[m] <= a[i + 1]
    <3>1. CASE m <= i
      BY <1>4, <2>2, <3>1
    <3>2. CASE m = i + 1
      BY <2>2, <3>2
    <3> QED BY <1>m, <2>1, <3>1, <3>2
  <2> QED BY <2>1, <2>3
<1>5. \A i \in 0..N : i \in T
  <2> HIDE DEF T
  <2> QED BY <1>0, <1>3, <1>4, Induction
<1> QED BY <1>5, <1>m DEF a

(* A product with a larger number is larger.                               *)
LEMMA ProductGrows ==
  ASSUME NEW a \in Nat, NEW b \in Nat, NEW d \in Nat, a <= b
  PROVE  a * d \in Nat /\ b * d \in Nat /\ a * d <= b * d
  BY SMT

(* A fraction a of c of a distance d, rounded down, is at most d ...       *)
LEMMA Fraction ==
  ASSUME NEW c \in Nat \ {0}, NEW a \in 0..c, NEW d \in Nat
  PROVE  (a * d) \div c \in 0..d
<1> DEFINE x == a * d
           y == c * d
           q == x \div c
           r == x % c
<1>1. x \in Nat /\ y \in Nat /\ x <= y
  BY ProductGrows
<1> HIDE DEF x
<1>2. q \in Int /\ r \in 0..(c - 1) /\ x = c * q + r
  BY <1>1, DivMod
<1> HIDE DEF q, r
<1>3. c * 0 = 0 /\ c * q \in Int /\ 0 \in Int /\ d \in Int
  BY <1>2, SMT
<1>4. ~(q < 0)
  <2> SUFFICES ASSUME q < 0 PROVE FALSE
    OBVIOUS
  <2>1. c * q + c <= c * 0
    BY <1>2, <1>3, MultiplesApart
  <2> QED BY <1>1, <1>2, <1>3, <2>1
<1>5. ~(d < q)
  <2> SUFFICES ASSUME d < q PROVE FALSE
    OBVIOUS
  <2>1. c * d + c <= c * q
    BY <1>2, <1>3, MultiplesApart
  <2> HIDE DEF y
  <2>2. y + c <= c * q
    BY <2>1 DEF y
  <2> QED BY <1>1, <1>2, <1>3, <2>2
<1>6. q \in 0..d
  BY <1>2, <1>4, <1>5
<1> QED BY <1>6 DEF q, x

(* ... and a larger fraction is not less.                                  *)
LEMMA FractionGrows ==
  ASSUME NEW c \in Nat \ {0}, NEW a \in Nat, NEW b \in Nat, a <= b, NEW d \in Nat
  PROVE  (a * d) \div c <= (b * d) \div c
<1> DEFINE x == a * d
           y == b * d
           q == x \div c
           p == y \div c
           r == x % c
           t == y % c
<1>1. x \in Nat /\ y \in Nat /\ x <= y
  BY ProductGrows
<1> HIDE DEF x, y
<1>2. q \in Int /\ r \in 0..(c - 1) /\ x = c * q + r
  BY <1>1, DivMod
<1>3. p \in Int /\ t \in 0..(c - 1) /\ y = c * p + t
  BY <1>1, DivMod
<1> HIDE DEF q, p, r, t
<1>4. ~(p < q)
  <2> SUFFICES ASSUME p < q PROVE FALSE
    OBVIOUS
  <2>1. c * p + c <= c * q /\ c * p \in Int /\ c * q \in Int
    BY <1>2, <1>3, MultiplesApart
  <2> QED BY <1>1, <1>2, <1>3, <2>1
<1>5. q <= p
  BY <1>2, <1>3, <1>4
<1> QED BY <1>5 DEF q, p, x, y

(* The rank is the place of the percentile.                                *)
LEMMA RankFacts ==
  ASSUME NEW s, Total(s) \in Nat \ {0}, NEW p \in 0..100
  PROVE  /\ Rank(s, p) \in 1..Total(s) /\ Place(p, Total(s)) = Rank(s, p)
         /\ 100 * Rank(s, p) >= p * Total(s)
         /\ Rank(s, p) = 1 \/ 100 * (Rank(s, p) - 1) < p * Total(s)
<1> DEFINE n == Total(s)
           x == p * n
           y == x + 100 - 1
           q == y \div 100
           r == y % 100
           k == Rank(s, p)
<1>1. x \in Nat /\ 100 * n \in Nat /\ x <= 100 * n /\ n \in Nat /\ 1 <= n
  BY ProductGrows
<1>2. k = IF q > 1 THEN q ELSE 1
  BY DEF Rank, Ceil
<1> HIDE DEF k, x, n
<1>3. y \in Nat /\ 100 \in Nat \ {0} /\ y = x + 99
  BY <1>1
<1> HIDE DEF y
<1>4. q \in Int /\ r \in 0..(100 - 1) /\ y = 100 * q + r
  BY ZenonT(40), <1>3, DivMod
<1> HIDE DEF q, r
<1>5. k \in 1..n /\ 100 * k >= x /\ (k = 1 \/ 100 * (k - 1) < x)
  BY <1>1, <1>2, <1>3, <1>4
<1>6. \A j \in 1..n : 100 * j >= x /\ (j = 1 \/ 100 * (j - 1) < x) => j = k
  BY <1>1, <1>5
<1>7. Place(p, n) = CHOOSE j \in 1..n : 100 * j >= x /\ (j = 1 \/ 100 * (j - 1) < x)
  BY DEF Place, x
<1>8. Place(p, n) = k
  BY <1>5, <1>6, <1>7
<1> QED BY <1>5, <1>8 DEF k, n, x

(* A higher percentile has no lower rank.                                  *)
LEMMA RankGrows ==
  ASSUME NEW s, Total(s) \in Nat \ {0}, NEW p \in 0..100, NEW q \in 0..100, q <= p
  PROVE  Rank(s, q) <= Rank(s, p)
<1> DEFINE n == Total(s)
           x == p * n
           y == q * n
           j == Rank(s, p)
           k == Rank(s, q)
<1>1. x \in Nat /\ y \in Nat /\ y <= x
  BY ProductGrows
<1>2. j \in 1..n /\ 100 * j >= x
  BY RankFacts
<1>3. k \in 1..n /\ (k = 1 \/ 100 * (k - 1) < y)
  BY RankFacts
<1> HIDE DEF j, k, x, y
<1>4. n \in Nat
  OBVIOUS
<1> HIDE DEF n
<1>5. k <= j
  BY <1>1, <1>2, <1>3, <1>4
<1> QED BY <1>5 DEF j, k

(* A snapshot has a number for every bucket, the count and the maximum.    *)
IsSnapshot(s) == s \in Seq(Nat) /\ Len(s) = NumBuckets + 2

(* What a snapshot consists of.                                            *)
LEMMA SnapshotFacts ==
  ASSUME NEW s, IsSnapshot(s)
  PROVE  /\ \A b \in Bucket : s[b] \in Nat /\ b \in 1..Len(s) /\ b \in 0..Len(s) /\ b - 1 \in 0..Len(s)
         /\ Total(s) \in Nat /\ SeenMax(s) \in Nat
         /\ Sums(s) \in [0..Len(s) -> Nat] /\ Sums(s)[0] = 0
         /\ \A b \in Bucket : Sums(s)[b] = Sums(s)[b - 1] + s[b]
<1>1. s \in Seq(Nat) /\ Len(s) = NumBuckets + 2
  BY DEF IsSnapshot
<1>2. \A i \in 1..Len(s) : s[i] \in Nat
  BY <1>1
<1>3. \A b \in Bucket : b \in 1..Len(s) /\ b \in 0..Len(s) /\ b - 1 \in 0..Len(s)
  BY <1>1, BoundaryFacts
<1>4. NumBuckets + 1 \in 1..Len(s) /\ NumBuckets + 2 \in 1..Len(s)
  BY <1>1, BoundaryFacts
<1>5. /\ Sums(s) \in [0..Len(s) -> Nat] /\ Sums(s)[0] = 0
      /\ \A i \in 1..Len(s) : Sums(s)[i] = Sums(s)[i - 1] + s[i]
  BY <1>1, SumsFacts
<1> QED BY <1>2, <1>3, <1>4, <1>5 DEF Total, SeenMax

(* The bucket of a percentile is the first in which the sum reaches the    *)
(* rank ...                                                                *)
LEMMA InBucketFacts ==
  ASSUME NEW s, IsSnapshot(s), NEW p, Rank(s, p) \in Nat \ {0}, InBucket(s, p) # 0
  PROVE  /\ InBucket(s, p) \in Bucket
         /\ Sums(s)[InBucket(s, p)] >= Rank(s, p)
         /\ Sums(s)[InBucket(s, p) - 1] < Rank(s, p)
<1> DEFINE k == Rank(s, p)
           S == {b \in Bucket : Sums(s)[b] >= k}
           b == InBucket(s, p)
<1>1. b = IF S # {} THEN CHOOSE x \in Bucket : /\ Sums(s)[x] >= k
                                              /\ \A c \in 1..(x - 1) : Sums(s)[c] < k
          ELSE 0
  BY DEF InBucket, Cumulative
<1>2. S # {} /\ S \in SUBSET Nat
  BY <1>1, BoundaryFacts
<1>3. PICK m \in S : \A n \in S : m <= n
  <2> HIDE DEF S
  <2> QED BY <1>2, LeastNatural
<1>k. k \in Nat \ {0}
  OBVIOUS
<1> HIDE DEF k
<1>4. ASSUME NEW c \in 1..(m - 1) PROVE Sums(s)[c] < k
  <2>1. c \in Bucket /\ c < m
    BY BoundaryFacts
  <2>2. c \notin S
    BY <1>3, <2>1, BoundaryFacts
  <2>3. Sums(s)[c] \in Nat
    BY <2>1, SnapshotFacts
  <2> QED BY <1>k, <2>1, <2>2, <2>3
<1>5. /\ b \in Bucket /\ Sums(s)[b] >= k /\ \A c \in 1..(b - 1) : Sums(s)[c] < k
  BY <1>1, <1>2, <1>3, <1>4
<1> HIDE DEF b
<1>6. Sums(s)[b - 1] < k
  <2>1. CASE b = 1
    <3>1. b - 1 = 0 /\ Sums(s)[0] = 0
      BY <2>1, SnapshotFacts
    <3> QED BY <1>k, <3>1
  <2>2. CASE b # 1
    <3>1. b - 1 \in 1..(b - 1)
      BY <1>5, <2>2, BoundaryFacts
    <3> QED BY <1>5, <3>1
  <2> QED BY <2>1, <2>2
<1> QED BY <1>5, <1>6 DEF b, k

(* ... and there is no other.                                              *)
LEMMA InBucketUnique ==
  ASSUME NEW s, IsSnapshot(s), NEW p, Rank(s, p) \in Nat \ {0}, NEW c \in Bucket,
         Sums(s)[c] >= Rank(s, p), Sums(s)[c - 1] < Rank(s, p)
  PROVE  InBucket(s, p) = c
<1> DEFINE k == Rank(s, p)
           b == InBucket(s, p)
<1>1. b # 0
  <2>1. \A x : x \in Bucket => x # 0
    BY BoundaryFacts
  <2>2. \E x \in Bucket : Sums(s)[x] >= k
    OBVIOUS
  <2>3. b = CHOOSE x \in Bucket : /\ Sums(s)[x] >= k
                                  /\ \A y \in 1..(x - 1) : Sums(s)[y] < k
    BY <2>2 DEF InBucket, Cumulative
  <2>4. ASSUME NEW y \in 1..(c - 1) PROVE Sums(s)[y] < k
    <3>1. y \in 0..Len(s) /\ c - 1 \in 0..Len(s) /\ y <= c - 1 /\ s \in Seq(Nat)
      BY SMTT(30), BoundaryFacts DEF IsSnapshot
    <3>2. Sums(s)[y] <= Sums(s)[c - 1]
      BY <3>1, SumsGrow
    <3>3. Sums(s)[y] \in Nat /\ Sums(s)[c - 1] \in Nat
      BY <3>1, SumsFacts
    <3> QED BY <3>2, <3>3
  <2>5. b \in Bucket
    BY <2>3, <2>4
  <2> QED BY <2>1, <2>5
<1>2. b \in Bucket /\ Sums(s)[b] >= k /\ Sums(s)[b - 1] < k
  BY <1>1, InBucketFacts
<1> HIDE DEF b, k
<1>3. ASSUME NEW x \in Bucket, NEW y \in Bucket, x < y, Sums(s)[x] >= k, Sums(s)[y - 1] < k,
             k \in Nat
      PROVE  FALSE
  <2>1. x \in 0..Len(s) /\ y - 1 \in 0..Len(s) /\ x <= y - 1 /\ s \in Seq(Nat)
    <3>1. x \in 0..Len(s) /\ y - 1 \in 0..Len(s)
      BY SnapshotFacts
    <3>2. x <= y - 1
      BY <1>3, BoundaryFacts
    <3> QED BY <3>1, <3>2 DEF IsSnapshot
  <2>2. Sums(s)[x] <= Sums(s)[y - 1]
    BY <2>1, SumsGrow
  <2>3. Sums(s)[x] \in Nat /\ Sums(s)[y - 1] \in Nat
    BY <2>1, SumsFacts
  <2> QED BY <1>3, <2>2, <2>3
<1>4. k \in Nat /\ Sums(s)[c] >= k /\ Sums(s)[c - 1] < k
  BY DEF k
<1>5. b = c
  BY <1>2, <1>3, <1>4, BoundaryFacts
<1> QED BY <1>5 DEF b

(* The boundaries of a bucket are numbers.                                 *)
LEMMA LimitFacts ==
  ASSUME NEW s, IsSnapshot(s), NEW b \in Bucket
  PROVE  Lower(b) \in Nat /\ Upper(s, b) \in Nat
<1>1. b # 1 => b - 1 \in 1..Len(Boundary)
  BY BoundaryFacts
<1>2. b < NumBuckets => b \in 1..Len(Boundary)
  BY BoundaryFacts
<1> QED BY <1>1, <1>2, BoundaryFacts, SnapshotFacts DEF Lower, Upper

(* A bucket but the last does not end below its beginning.                 *)
LEMMA LimitsOrdered ==
  ASSUME NEW s, NEW b \in Bucket, b # NumBuckets
  PROVE  Lower(b) <= Upper(s, b)
<1>1. b < NumBuckets /\ b \in 1..Len(Boundary) /\ (b # 1 => b - 1 \in 1..Len(Boundary) /\ b - 1 < b)
  BY BoundaryFacts
<1> QED BY <1>1, BoundaryFacts DEF Lower, Upper

(* How far into bucket b the rank k lies.                                  *)
Into(s, b, k) == s[b] - (Sums(s)[b] - k)

(* The interpolation is between the boundaries of its bucket.              *)
LEMMA PercentileInBucket ==
  ASSUME NEW s, IsSnapshot(s), Total(s) # 0, NEW p, Rank(s, p) \in Nat \ {0},
         InBucket(s, p) # 0, Lower(InBucket(s, p)) <= Upper(s, InBucket(s, p))
  PROVE  LET b == InBucket(s, p)
         IN /\ s[b] \in Nat \ {0} /\ Into(s, b, Rank(s, p)) \in 0..s[b]
            /\ Percentile(s, p) = Lower(b) + (Into(s, b, Rank(s, p)) * (Upper(s, b) - Lower(b))) \div s[b]
            /\ Lower(b) <= Percentile(s, p) /\ Percentile(s, p) <= Upper(s, b)
            /\ Percentile(s, p) \in Nat
<1> DEFINE b == InBucket(s, p)
           k == Rank(s, p)
           a == Into(s, b, k)
           d == Upper(s, b) - Lower(b)
           e == Percentile(s, p)
<1>1. b \in Bucket /\ Sums(s)[b] >= k /\ Sums(s)[b - 1] < k
  BY InBucketFacts
<1>2. e = Lower(b) + (a * d) \div s[b]
  BY DEF Percentile, Into, Cumulative
<1>3. k \in Nat \ {0} /\ Lower(b) <= Upper(s, b)
  OBVIOUS
<1> HIDE DEF e, k, b
<1>4. /\ Sums(s)[b] \in Nat /\ Sums(s)[b - 1] \in Nat /\ s[b] \in Nat
      /\ Sums(s)[b] = Sums(s)[b - 1] + s[b]
  BY <1>1, SnapshotFacts
<1>5. s[b] \in Nat \ {0} /\ a \in 0..s[b]
  BY <1>1, <1>3, <1>4 DEF Into
<1>6. Lower(b) \in Nat /\ Upper(s, b) \in Nat /\ d \in Nat
  <2>1. Lower(b) \in Nat /\ Upper(s, b) \in Nat
    BY <1>1, LimitFacts
  <2> QED BY <1>3, <2>1
<1> HIDE DEF a
<1>7. (a * d) \div s[b] \in 0..d
  <2> HIDE DEF d
  <2> QED BY <1>5, <1>6, Fraction
<1> DEFINE f == (a * d) \div s[b]
<1> HIDE DEF f
<1>8. e = Lower(b) + f /\ f \in 0..d
  BY <1>2, <1>7 DEF f
<1>9. Lower(b) <= e /\ e <= Upper(s, b) /\ e \in Nat
  BY <1>6, <1>8
<1> QED BY <1>2, <1>5, <1>9 DEF e, k, b, a

(* A higher percentile is not less.                                        *)
LEMMA PercentileGrows ==
  ASSUME NEW s, IsSnapshot(s), Total(s) # 0, NEW p \in 0..100, NEW q \in 0..100, q <= p,
         InBucket(s, p) # 0, Lower(InBucket(s, p)) <= Upper(s, InBucket(s, p)),
         InBucket(s, q) # 0, Lower(InBucket(s, q)) <= Upper(s, InBucket(s, q))
  PROVE  Percentile(s, q) <= Percentile(s, p)
<1> DEFINE b == InBucket(s, p)
           c == InBucket(s, q)
           j == Rank(s, p)
           k == Rank(s, q)
           e == Percentile(s, p)
           f == Percentile(s, q)
<1>1. Total(s) \in Nat \ {0}
  BY SnapshotFacts
<1>2. j \in Nat \ {0} /\ k \in Nat \ {0} /\ k <= j
  <2>1. j \in 1..Total(s) /\ k \in 1..Total(s)
    BY <1>1, RankFacts
  <2>2. k <= j
    BY <1>1, RankGrows
  <2> HIDE DEF j, k
  <2> QED BY <1>1, <2>1, <2>2
<1>3. b \in Bucket /\ Sums(s)[b] >= j /\ Sums(s)[b - 1] < j
  BY <1>2, InBucketFacts
<1>4. c \in Bucket /\ Sums(s)[c] >= k /\ Sums(s)[c - 1] < k
  BY <1>2, InBucketFacts
<1>5. /\ s[b] \in Nat \ {0} /\ Into(s, b, j) \in 0..s[b]
      /\ e = Lower(b) + (Into(s, b, j) * (Upper(s, b) - Lower(b))) \div s[b]
      /\ Lower(b) <= e /\ e \in Nat
  BY <1>2, PercentileInBucket
<1>6. /\ Into(s, c, k) \in 0..s[c]
      /\ f = Lower(c) + (Into(s, c, k) * (Upper(s, c) - Lower(c))) \div s[c]
      /\ f <= Upper(s, c) /\ f \in Nat
  BY <1>2, PercentileInBucket
<1>7. Lower(b) <= Upper(s, b)
  OBVIOUS
<1> HIDE DEF b, c, j, k, e, f
<1>8. /\ \A x \in Bucket : Sums(s)[x] \in Nat /\ Sums(s)[x - 1] \in Nat
      /\ s \in Seq(Nat) /\ \A x \in Bucket : x \in 0..Len(s) /\ x - 1 \in 0..Len(s)
  BY SnapshotFacts DEF IsSnapshot
<1>9. c <= b
  <2> SUFFICES ASSUME b < c PROVE FALSE
    BY <1>3, <1>4, BoundaryFacts
  <2>1. b <= c - 1
    BY <1>3, <1>4, BoundaryFacts
  <2>2. Sums(s)[b] <= Sums(s)[c - 1]
    BY <1>3, <1>4, <1>8, <2>1, SumsGrow
  <2>3. Sums(s)[b] \in Nat /\ Sums(s)[c - 1] \in Nat
    BY <1>3, <1>4, <1>8
  <2> QED BY <1>2, <1>3, <1>4, <2>2, <2>3
<1>10. CASE c = b
  <2> DEFINE d == Upper(s, b) - Lower(b)
             x == Into(s, b, k)
             y == Into(s, b, j)
  <2>1. Lower(b) \in Nat /\ Upper(s, b) \in Nat
    BY <1>3, LimitFacts
  <2>2. d \in Nat
    BY <1>7, <2>1
  <2>3. Sums(s)[b] \in Nat
    BY <1>3, <1>8
  <2>4. x \in Nat /\ y \in Nat /\ x <= y
    <3>1. x \in 0..s[b] /\ y \in 0..s[b]
      BY <1>5, <1>6, <1>10
    <3>2. x <= y
      BY <1>2, <1>5, <2>3 DEF Into
    <3> QED BY <1>5, <3>1, <3>2
  <2> HIDE DEF d, x, y
  <2>5. (x * d) \div s[b] <= (y * d) \div s[b]
    BY <1>5, <2>2, <2>4, FractionGrows
  <2>6. e = Lower(b) + (y * d) \div s[b] /\ f = Lower(b) + (x * d) \div s[b]
    BY <1>5, <1>6, <1>10 DEF d, x, y
  <2> DEFINE g == (x * d) \div s[b]
             h == (y * d) \div s[b]
  <2>7. g \in Int /\ h \in Int
    <3>1. x * d \in Nat /\ y * d \in Nat
      BY <2>2, <2>4, ProductGrows
    <3> DEFINE u == x * d
               v == y * d
    <3> HIDE DEF u, v
    <3>2. u \div s[b] \in Int /\ v \div s[b] \in Int
      BY <1>5, <3>1, DivMod DEF u, v
    <3> QED BY <3>2 DEF u, v
  <2> HIDE DEF g, h
  <2>8. e = Lower(b) + h /\ f = Lower(b) + g /\ g <= h
    BY <2>5, <2>6 DEF g, h
  <2>9. f <= e
    BY <2>1, <2>7, <2>8
  <2> QED BY <2>9 DEF e, f
<1>11. CASE c < b
  <2>1. c \in 1..Len(Boundary) /\ b - 1 \in 1..Len(Boundary) /\ c <= b - 1 /\ b # 1
        /\ c < NumBuckets
    BY <1>3, <1>4, <1>11, BoundaryFacts
  <2>2. Boundary[c] <= Boundary[b - 1] /\ Boundary[c] \in Nat /\ Boundary[b - 1] \in Nat
    <3>1. c = b - 1 \/ c < b - 1
      BY <2>1, BoundaryFacts
    <3> QED BY <2>1, <3>1, BoundaryFacts
  <2>3. Upper(s, c) = Boundary[c] /\ Lower(b) = Boundary[b - 1]
    BY <2>1 DEF Upper, Lower
  <2>4. f <= e
    BY <1>5, <1>6, <2>2, <2>3
  <2> QED BY <2>4 DEF e, f
<1> QED BY <1>3, <1>4, <1>9, <1>10, <1>11, BoundaryFacts

(* The first n durations of t that fall below bucket c, or into it.        *)
UpTo(t, n, c) == {i \in 1..n : BucketOf(t[i]) <= c}

(* The sums of a snapshot count the durations bucket after bucket.         *)
LEMMA CumulativeCounts ==
  ASSUME NEW s, IsSnapshot(s), NEW t \in Seq(Nat), SnapshotOf(s, t), NEW c \in 0..NumBuckets
  PROVE  Sums(s)[c] = Cardinality(UpTo(t, Total(s), c))
<1> DEFINE n == Total(s)
           T == {m \in 0..NumBuckets : Sums(s)[m] = Cardinality(UpTo(t, n, m))}
<1>1. n \in 0..Len(t) /\ \A b \in Bucket : s[b] = Cardinality({i \in 1..n : BucketOf(t[i]) = b})
  BY DEF SnapshotOf
<1>2. ASSUME NEW i \in 1..n PROVE BucketOf(t[i]) \in Bucket
  <2>1. t[i] \in Nat
    BY <1>1
  <2> QED BY <2>1, BucketOfFacts
<1>n. n \in Nat /\ NumBuckets \in Nat
  BY <1>1, BoundaryFacts
<1> HIDE DEF n
<1>f. \A S : S \subseteq 1..n => IsFiniteSet(S) /\ Cardinality(S) \in Nat
  <2>1. IsFiniteSet(1..n)
    BY <1>n, FS_Interval
  <2> QED BY <2>1, FS_Subset, FS_CardinalityType
<1>3. 0 \in T
  <2>1. UpTo(t, n, 0) = {}
    BY <1>2, BoundaryFacts DEF UpTo
  <2>2. Sums(s)[0] = 0
    BY SnapshotFacts
  <2>3. Cardinality({}) = 0
    BY FS_EmptySet
  <2>4. 0 \in 0..NumBuckets
    BY <1>n
  <2> QED BY <2>1, <2>2, <2>3, <2>4
<1>4. ASSUME NEW m \in 0..(NumBuckets - 1), m \in T PROVE m + 1 \in T
  <2> DEFINE A == UpTo(t, n, m)
             B == {i \in 1..n : BucketOf(t[i]) = m + 1}
  <2>1. m + 1 \in Bucket /\ (m + 1) - 1 = m /\ m + 1 \in 0..NumBuckets
    BY <1>n, BoundaryFacts
  <2>2. UpTo(t, n, m + 1) = A \cup B /\ A \cap B = {}
    <3>1. \A i \in 1..n : BucketOf(t[i]) \in Nat
      BY <1>2, BoundaryFacts
    <3>2. \A i \in 1..n : /\ BucketOf(t[i]) <= m + 1 <=> BucketOf(t[i]) <= m \/ BucketOf(t[i]) = m + 1
                          /\ ~(BucketOf(t[i]) <= m /\ BucketOf(t[i]) = m + 1)
      BY <3>1
    <3> QED BY <3>2 DEF UpTo
  <2>3. IsFiniteSet(A) /\ IsFiniteSet(B) /\ Cardinality(A) \in Nat /\ Cardinality(B) \in Nat
    BY <1>f DEF UpTo
  <2> HIDE DEF A, B
  <2>4. Cardinality(A \cup B) = Cardinality(A) + Cardinality(B)
    <3>1. Cardinality(A \cup B) = Cardinality(A) + Cardinality(B) - Cardinality(A \cap B)
      BY <2>3, FS_Union
    <3>2. Cardinality(A \cap B) = 0
      BY <2>2, FS_EmptySet
    <3> QED BY <2>3, <3>1, <3>2
  <2>5. Sums(s)[m + 1] = Sums(s)[m] + s[m + 1]
    BY <2>1, SnapshotFacts
  <2>6. Sums(s)[m] = Cardinality(A) /\ s[m + 1] = Cardinality(B)
    BY <1>1, <1>4, <2>1 DEF A, B
  <2>7. Sums(s)[m + 1] = Cardinality(UpTo(t, n, m + 1))
    BY <2>2, <2>4, <2>5, <2>6
  <2> QED BY <2>1, <2>7
<1>5. \A m \in 0..NumBuckets : m \in T
  <2> HIDE DEF T
  <2> QED BY <1>n, <1>3, <1>4, Induction
<1> QED BY <1>5 DEF n

(* Among n durations there is a k-th smallest.                             *)
LEMMA PlaceTaken ==
  ASSUME records \in Seq(Nat), NEW n \in 1..Len(records), NEW k \in 1..n
  PROVE  \E j \in 1..n : HasPlace(j, k, n)
<1> DEFINE W(v) == {i \in 1..n : records[i] <= v}
           S == {v \in Nat : Cardinality(W(v)) >= k}
<1>1. n \in Nat /\ k \in Nat /\ 1 <= k /\ k <= n /\ \A i \in 1..n : records[i] \in Nat
  OBVIOUS
<1>f. \A X : X \subseteq 1..n => IsFiniteSet(X) /\ Cardinality(X) \in Nat
  <2>1. IsFiniteSet(1..n)
    BY <1>1, FS_Interval
  <2> QED BY <2>1, FS_Subset, FS_CardinalityType
<1>2. S # {}
  <2> DEFINE T == {m \in 0..n : \E v \in Nat : \A i \in 1..m : records[i] <= v}
  <2>1. 0 \in T
    BY <1>1
  <2>2. ASSUME NEW m \in 0..(n - 1), m \in T PROVE m + 1 \in T
    <3>1. PICK v \in Nat : \A i \in 1..m : records[i] <= v
      BY <2>2
    <3> DEFINE w == IF records[m + 1] <= v THEN v ELSE records[m + 1]
    <3>2. m + 1 \in 1..n /\ m + 1 \in 0..n /\ records[m + 1] \in Nat
      BY <1>1
    <3>3. w \in Nat /\ v <= w /\ records[m + 1] <= w
      BY <3>2
    <3> HIDE DEF w
    <3>4. ASSUME NEW i \in 1..(m + 1) PROVE records[i] <= w
      <4>1. CASE i = m + 1
        BY <3>3, <4>1
      <4>2. CASE i \in 1..m
        <5>1. i \in 1..n
          BY <1>1
        <5>2. records[i] <= v /\ records[i] \in Nat
          BY <1>1, <3>1, <4>2, <5>1
        <5> QED BY <3>3, <5>2
      <4> QED BY <4>1, <4>2
    <3> QED BY <3>2, <3>3, <3>4
  <2>3. \A m \in 0..n : m \in T
    <3> HIDE DEF T
    <3> QED BY <1>1, <2>1, <2>2, Induction
  <2>4. n \in T
    <3>1. n \in 0..n
      BY <1>1
    <3> HIDE DEF T
    <3> QED BY <2>3, <3>1
  <2>5. PICK v \in Nat : \A i \in 1..n : records[i] <= v
    BY <2>4
  <2>6. W(v) = 1..n
    BY <2>5
  <2>7. Cardinality(1..n) = n
    BY <1>1, FS_Interval
  <2>8. v \in S
    BY <1>1, <2>6, <2>7
  <2> QED BY <2>8
<1>3. PICK v \in S : \A w \in S : v <= w
  <2>1. S \in SUBSET Nat
    OBVIOUS
  <2> HIDE DEF S
  <2> QED BY <1>2, <2>1, LeastNatural
<1>4. v \in Nat /\ Cardinality(W(v)) >= k
  BY <1>3
<1>5. ASSUME NEW w \in Nat, w < v PROVE Cardinality(W(w)) < k
  <2>1. w \notin S
    BY <1>3, <1>4, <1>5
  <2>2. Cardinality(W(w)) \in Nat
    BY <1>f
  <2> HIDE DEF W
  <2> QED BY <1>1, <2>1, <2>2
<1> DEFINE A == {i \in 1..n : records[i] < v}
<1>6. Cardinality(A) < k
  <2>1. CASE v = 0
    <3>1. A = {}
      BY <1>1, <2>1
    <3>2. Cardinality(A) = 0
      BY <3>1, FS_EmptySet
    <3> HIDE DEF A
    <3> QED BY <1>1, <3>2
  <2>2. CASE v # 0
    <3>1. v - 1 \in Nat /\ v - 1 < v
      BY <1>4, <2>2
    <3>2. A = W(v - 1)
      BY <1>1, <1>4, <2>2
    <3> HIDE DEF A, W
    <3> QED BY <1>5, <3>1, <3>2
  <2> QED BY <2>1, <2>2
<1>7. PICK j \in 1..n : records[j] = v
  <2> SUFFICES ASSUME \A j \in 1..n : records[j] # v PROVE FALSE
    OBVIOUS
  <2>1. A = W(v)
    BY <1>1, <1>4
  <2>2. Cardinality(A) \in Nat
    BY <1>f
  <2> HIDE DEF A, W
  <2> QED BY <1>1, <1>4, <1>6, <2>1, <2>2
<1>8. HasPlace(j, k, n)
  BY <1>4, <1>6, <1>7 DEF HasPlace
<1> QED BY <1>8

(* The bucket of a percentile is the one of the duration that has its      *)
(* place.                                                                  *)
LEMMA RankedBucket ==
  ASSUME NEW s, IsSnapshot(s), records \in Seq(Nat), SnapshotOf(s, records), Total(s) # 0,
         NEW p \in 0..100
  PROVE  /\ InBucket(s, p) \in Bucket
         /\ \E j \in 1..Total(s) : /\ HasPlace(j, Place(p, Total(s)), Total(s))
                                    /\ InBucket(s, p) = BucketOf(records[j])
<1> DEFINE n == Total(s)
           k == Rank(s, p)
<1>1. n \in Nat \ {0} /\ n \in 1..Len(records) /\ n \in Nat
  <2>1. n \in Nat
    BY SnapshotFacts
  <2>2. n \in 0..Len(records)
    BY DEF SnapshotOf
  <2> HIDE DEF n
  <2>3. n # 0
    BY DEF n
  <2> QED BY <2>1, <2>2, <2>3
<1>2. k \in 1..n /\ Place(p, n) = k
  BY <1>1, RankFacts
<1>3. \A i \in 1..n : records[i] \in Nat
  BY <1>1
<1> HIDE DEF n, k
<1>k. k \in Nat \ {0}
  BY <1>1, <1>2
<1>4. PICK j \in 1..n : HasPlace(j, k, n)
  BY <1>1, <1>2, PlaceTaken
<1> DEFINE v == records[j]
           c == BucketOf(v)
           A == {i \in 1..n : records[i] < v}
           B == {i \in 1..n : records[i] <= v}
<1>5. v \in Nat /\ Cardinality(A) < k /\ Cardinality(B) >= k
  BY <1>3, <1>4 DEF HasPlace
<1>6. c \in Bucket /\ c \in 0..NumBuckets /\ c - 1 \in 0..NumBuckets /\ c \in Nat
  <2>1. c \in Bucket
    BY <1>5, BucketOfFacts
  <2> HIDE DEF c
  <2> QED BY <2>1, BoundaryFacts
<1>7. ASSUME NEW i \in 1..n
      PROVE  /\ BucketOf(records[i]) \in Nat
             /\ records[i] <= v => BucketOf(records[i]) <= c
             /\ v <= records[i] => c <= BucketOf(records[i])
  <2>1. records[i] \in Nat
    BY <1>3
  <2>2. BucketOf(records[i]) \in Nat
    <3>1. BucketOf(records[i]) \in Bucket
      BY <2>1, BucketOfFacts
    <3> QED BY <3>1, BoundaryFacts
  <2> QED BY <1>5, <2>1, <2>2, BucketMonotone
<1>8. B \subseteq UpTo(records, n, c)
  BY <1>7 DEF UpTo
<1>9. UpTo(records, n, c - 1) \subseteq A
  <2> SUFFICES ASSUME NEW i \in 1..n, BucketOf(records[i]) <= c - 1 PROVE records[i] < v
    BY DEF UpTo
  <2>1. ~(v <= records[i])
    <3> HIDE DEF v, c
    <3> QED BY <1>6, <1>7
  <2>2. records[i] \in Nat
    BY <1>3
  <2> HIDE DEF v
  <2> QED BY <1>5, <2>1, <2>2
<1> HIDE DEF c, v, A, B
<1>f. \A X : X \subseteq 1..n => IsFiniteSet(X) /\ Cardinality(X) \in Nat
  <2>1. IsFiniteSet(1..n)
    BY <1>1, FS_Interval
  <2> QED BY <2>1, FS_Subset, FS_CardinalityType
<1>10. /\ IsFiniteSet(A) /\ Cardinality(A) \in Nat /\ Cardinality(B) \in Nat
       /\ IsFiniteSet(UpTo(records, n, c)) /\ Cardinality(UpTo(records, n, c)) \in Nat
       /\ Cardinality(UpTo(records, n, c - 1)) \in Nat
  BY <1>f DEF A, B, UpTo
<1>11. Cardinality(B) <= Cardinality(UpTo(records, n, c))
  BY <1>8, <1>10, FS_Subset
<1>12. Cardinality(UpTo(records, n, c - 1)) <= Cardinality(A)
  BY <1>9, <1>10, FS_Subset
<1>13. Sums(s)[c] = Cardinality(UpTo(records, n, c)) /\ Sums(s)[c - 1] = Cardinality(UpTo(records, n, c - 1))
  BY <1>6, CumulativeCounts DEF n
<1>14. Sums(s)[c] >= k /\ Sums(s)[c - 1] < k
  BY <1>5, <1>10, <1>11, <1>12, <1>13, <1>k
<1>15. InBucket(s, p) = c
  BY <1>6, <1>14, <1>k, InBucketUnique DEF k
<1> QED BY <1>2, <1>4, <1>6, <1>15 DEF n, c, v

(* The percentiles are sound for every snapshot the exporter can have.     *)
LEMMA PercentileKnown ==
  ASSUME RecorderTypeOK, SnapshotTypeOK, SnapshotInv
  PROVE  PercentileSound
<1> DEFINE s == snapshot
<1> SUFFICES ASSUME reading = 0, s # <<>>, Total(s) > 0, NEW p \in Percent
             PROVE  LET e == Percentile(s, p)
                        b == InBucket(s, p)
                    IN /\ undisturbed =>
                            LET n == Total(s)
                            IN /\ \E j \in 1..n : /\ HasPlace(j, Place(p, n), n)
                                                   /\ b = BucketOf(records[j])
                               /\ Lower(b) <= e /\ e <= Upper(s, b)
                               /\ \A q \in Percent : q <= p => Percentile(s, q) <= e
                       /\ ~undisturbed =>
                            \/ b = 0
                            \/ b = NumBuckets /\ SeenMax(s) < Lower(b)
                            \/ Lower(b) <= e /\ e <= Upper(s, b)
  BY DEF PercentileSound
<1>1. IsSnapshot(s)
  <2>1. s \in Seq(Nat) /\ Len(s) \in {0, NumBuckets + 2}
    BY DEF SnapshotTypeOK
  <2>2. Len(s) # 0
    BY <2>1
  <2> QED BY <2>1, <2>2 DEF IsSnapshot
<1>2. records \in Seq(Nat)
  <2>1. \A d \in Duration : d \in Nat
    BY CollectorAssumption
  <2> QED BY <2>1 DEF RecorderTypeOK
<1>3. Percent \subseteq 0..100
  BY CollectorAssumption
<1>4. Total(s) \in Nat \ {0} /\ Total(s) # 0 /\ SeenMax(s) \in Nat
  <2>1. Total(s) \in Nat /\ SeenMax(s) \in Nat
    BY <1>1, SnapshotFacts
  <2> QED BY <2>1
<1>5. ASSUME NEW q \in Percent PROVE Rank(s, q) \in Nat \ {0} /\ q \in 0..100
  <2>1. q \in 0..100
    BY <1>3
  <2>2. Rank(s, q) \in 1..Total(s)
    BY <1>4, <2>1, RankFacts
  <2> HIDE DEF s
  <2> QED BY <1>4, <2>1, <2>2
<1>6. CASE undisturbed
  <2>1. SnapshotOf(s, records)
    BY <1>6 DEF SnapshotInv
  <2>2. ASSUME NEW q \in Percent
        PROVE  LET b == InBucket(s, q)
               IN /\ b \in Bucket /\ b # 0 /\ Lower(b) <= Upper(s, b)
                  /\ \E j \in 1..Total(s) : /\ HasPlace(j, Place(q, Total(s)), Total(s))
                                             /\ b = BucketOf(records[j])
    <3> DEFINE b == InBucket(s, q)
    <3>1. /\ b \in Bucket
          /\ \E j \in 1..Total(s) : /\ HasPlace(j, Place(q, Total(s)), Total(s))
                                     /\ b = BucketOf(records[j])
      BY <1>1, <1>2, <1>4, <1>5, <2>1, RankedBucket
    <3>2. PICK j \in 1..Total(s) : b = BucketOf(records[j])
      BY <3>1
    <3> HIDE DEF b
    <3>3. Lower(b) <= Upper(s, b)
      <4>1. CASE b # NumBuckets
        BY <3>1, <4>1, LimitsOrdered
      <4>2. CASE b = NumBuckets
        <5>1. b # 1 /\ b - 1 \in 1..Len(Boundary)
          BY <4>2, BoundaryFacts
        <5>2. records[j] \in Nat /\ records[j] <= SeenMax(s)
          BY <1>2, <2>1 DEF SnapshotOf
        <5>3. records[j] > Boundary[b - 1]
          BY <3>2, <5>1, <5>2, BucketOfFacts
        <5>4. Boundary[b - 1] \in Nat
          BY <5>1, BoundaryFacts
        <5>5. Lower(b) = Boundary[b - 1] /\ Upper(s, b) = SeenMax(s)
          BY <4>2, <5>1, BoundaryFacts DEF Lower, Upper
        <5> QED BY <1>4, <5>2, <5>3, <5>4, <5>5
      <4> QED BY <4>1, <4>2
    <3>4. b # 0
      BY <3>1, BoundaryFacts
    <3> QED BY <3>1, <3>3, <3>4 DEF b
  <2>3. /\ Lower(InBucket(s, p)) <= Percentile(s, p)
        /\ Percentile(s, p) <= Upper(s, InBucket(s, p))
    BY SMTT(30), <1>1, <1>4, <1>5, <2>2, PercentileInBucket
  <2>4. ASSUME NEW q \in Percent, q <= p PROVE Percentile(s, q) <= Percentile(s, p)
    BY <1>1, <1>4, <1>5, <2>2, <2>4, PercentileGrows
  <2> QED BY <1>6, <2>2, <2>3, <2>4
<1>7. CASE ~undisturbed
  <2> DEFINE b == InBucket(s, p)
  <2> SUFFICES ASSUME b # 0, ~(b = NumBuckets /\ SeenMax(s) < Lower(b))
               PROVE  Lower(b) <= Percentile(s, p) /\ Percentile(s, p) <= Upper(s, b)
    BY <1>7
  <2>1. b \in Bucket
    BY <1>1, <1>5, InBucketFacts
  <2>2. Lower(b) <= Upper(s, b)
    <3> HIDE DEF b
    <3>1. CASE b # NumBuckets
      BY <2>1, <3>1, LimitsOrdered
    <3>2. CASE b = NumBuckets
      <4>1. Lower(b) \in Nat /\ Upper(s, b) = SeenMax(s)
        BY <1>1, <2>1, <3>2, LimitFacts, BoundaryFacts DEF Upper
      <4> QED BY <1>4, <3>2, <4>1
    <3> QED BY <3>1, <3>2
  <2> QED BY <1>1, <1>4, <1>5, <2>2, PercentileInBucket
<1> QED BY <1>6, <1>7

(* A further duration does not change what a snapshot is of.               *)
LEMMA SnapshotStays ==
  ASSUME NEW s, NEW t \in Seq(Nat), SnapshotOf(s, t), NEW d \in Nat
  PROVE  SnapshotOf(s, Append(t, d))
<1> DEFINE u == Append(t, d)
           n == Total(s)
<1>1. n \in 0..Len(t) /\ Len(t) \in Nat
  BY DEF SnapshotOf
<1>2. Len(u) = Len(t) + 1 /\ \A i \in 1..Len(t) : u[i] = t[i]
  OBVIOUS
<1> HIDE DEF u, n
<1>3. n \in 0..Len(u) /\ \A i \in 1..n : u[i] = t[i]
  BY <1>1, <1>2
<1>4. \A b \in Bucket : {i \in 1..n : BucketOf(u[i]) = b} = {i \in 1..n : BucketOf(t[i]) = b}
  BY <1>3
<1>5. SnapshotOf(s, u)
  BY <1>3, <1>4 DEF SnapshotOf, n
<1> QED BY <1>5 DEF u

(* Every field is a number.                                                *)
LEMMA FieldFacts ==
  ASSUME RecorderTypeOK, MetricsInv
  PROVE  /\ \A i \in 1..(NumBuckets + 2) : Field(i) \in Nat
         /\ \A b \in Bucket : Field(b) = bucket[b]
         /\ Field(NumBuckets + 1) = counter["count"] /\ Field(NumBuckets + 2) = bound["max"]
<1>1. /\ counter["count"] \in Nat /\ bound["max"] \in Nat /\ \A b \in Bucket : bucket[b] \in Nat
  BY DEF RecorderTypeOK, MetricsInv, CounterTypeOK, Counter
<1>2. \A i \in 1..(NumBuckets + 2) : i <= NumBuckets => i \in Bucket
  BY BoundaryFacts
<1>3. \A b \in Bucket : b <= NumBuckets
  BY BoundaryFacts
<1>4. /\ ~(NumBuckets + 1 <= NumBuckets) /\ ~(NumBuckets + 2 <= NumBuckets)
      /\ NumBuckets + 2 # NumBuckets + 1
  BY BoundaryFacts
<1> QED BY <1>1, <1>2, <1>3, <1>4 DEF Field

(* A snapshot whose fields were all read while no recorder was at work is  *)
(* that of the durations recorded by then.                                 *)
LEMMA SnapshotTaken ==
  ASSUME RecorderTypeOK, BoundInv, MetricsInv, \A r \in Recorder : phase[r] \in {"idle", "span"},
         NEW s, \A i \in 1..(NumBuckets + 2) : s[i] = Field(i)
  PROVE  SnapshotOf(s, records)
<1>1. MetricsExact
  BY MetricsKnown
<1>2. /\ counter["count"] = Len(records) /\ ExtremesExact
      /\ \A b \in Bucket : bucket[b] = Cardinality(Recorded(b))
  BY <1>1 DEF MetricsExact
<1>3. records \in Seq(Nat) /\ Len(records) \in Nat /\ DOMAIN records = 1..Len(records)
  <2>1. \A d \in Duration : d \in Nat
    BY CollectorAssumption
  <2>2. records \in Seq(Nat)
    BY <2>1 DEF RecorderTypeOK
  <2> QED BY <2>2
<1>4. /\ \A b \in Bucket : s[b] = bucket[b]
      /\ s[NumBuckets + 1] = counter["count"] /\ s[NumBuckets + 2] = bound["max"]
  <2>1. /\ \A b \in Bucket : b \in 1..(NumBuckets + 2)
        /\ NumBuckets + 1 \in 1..(NumBuckets + 2) /\ NumBuckets + 2 \in 1..(NumBuckets + 2)
    BY BoundaryFacts
  <2> QED BY <2>1, FieldFacts
<1>5. Total(s) = Len(records) /\ SeenMax(s) = bound["max"]
  BY <1>2, <1>4 DEF Total, SeenMax
<1>6. \A b \in Bucket : {i \in 1..Len(records) : BucketOf(records[i]) = b} = Recorded(b)
  BY <1>3 DEF Recorded
<1>7. ASSUME NEW i \in 1..Len(records) PROVE records[i] <= bound["max"]
  <2>1. records # <<>>
    BY <1>3
  <2> QED BY <1>2, <1>3, <2>1 DEF ExtremesExact
<1>8. Total(s) \in 0..Len(records)
  BY <1>3, <1>5
<1> QED BY <1>2, <1>4, <1>5, <1>6, <1>7, <1>8 DEF SnapshotOf

(* Every step keeps what is known of the snapshot.                         *)
LEMMA SnapshotInvStep ==
  ASSUME RecorderTypeOK, BoundInv, MetricsInv, SnapshotTypeOK, SnapshotInv, [CollectNext]_collectVars
  PROVE  SnapshotTypeOK' /\ SnapshotInv'
<1>r. records \in Seq(Nat) /\ \A d \in Duration : d \in Nat
  <2>1. \A d \in Duration : d \in Nat
    BY CollectorAssumption
  <2> QED BY <2>1 DEF RecorderTypeOK
<1>p. phase \in [Recorder -> Step]
  BY DEF RecorderTypeOK, Step
<1>1. ASSUME UNCHANGED <<exporter, records>>,
             \/ \E r \in Recorder : phase[r] \notin {"idle", "span"}
             \/ /\ UNCHANGED <<counter, bucket, bound>>
                /\ \A r \in Recorder : phase[r] \in {"idle", "span"} => phase'[r] \in {"idle", "span"}
      PROVE  SnapshotTypeOK' /\ SnapshotInv'
  <2>1. UNCHANGED <<reading, snapshot, undisturbed, records>>
    BY <1>1 DEF exporter
  <2>2. SnapshotTypeOK'
    BY <2>1 DEF SnapshotTypeOK
  <2>3. ASSUME undisturbed, reading # 0
        PROVE  /\ \A r \in Recorder : phase'[r] \in {"idle", "span"}
               /\ \A i \in 1..Len(snapshot) : snapshot[i] = Field(i)'
    <3>1. /\ \A r \in Recorder : phase[r] \in {"idle", "span"}
          /\ \A i \in 1..Len(snapshot) : snapshot[i] = Field(i)
      BY <2>3 DEF SnapshotInv
    <3>2. \A i : Field(i)' = Field(i)
      BY <1>1, <3>1 DEF Field
    <3> QED BY <1>1, <3>1, <3>2
  <2>4. ASSUME undisturbed, reading = 0, snapshot # <<>> PROVE SnapshotOf(snapshot, records)
    BY <2>4 DEF SnapshotInv
  <2>5. SnapshotInv'
    BY <2>1, <2>3, <2>4 DEF SnapshotInv
  <2> QED BY <2>2, <2>5
<1>2. ASSUME NEW r \in Recorder, NEW d \in Duration, RecordInvocation(r, d)
      PROVE  SnapshotTypeOK' /\ SnapshotInv'
  <2>1. UNCHANGED <<bucket, bound, reading, snapshot>>
    BY <1>2 DEF RecordInvocation
  <2>2. CASE Goto(r, "span") /\ UNCHANGED <<value, counter, undisturbed, records>>
    <3>1. phase'[r] = "span" /\ \A q \in Recorder : q # r => phase'[q] = phase[q]
      BY <1>p, <2>2 DEF Goto
    <3> QED BY <1>1, <2>1, <2>2, <3>1 DEF exporter
  <2>3. CASE records' = Append(records, d) /\ undisturbed' = (undisturbed /\ reading = 0)
    <3>1. SnapshotTypeOK'
      BY <2>1, <2>3 DEF SnapshotTypeOK
    <3>2. ASSUME undisturbed', snapshot # <<>> PROVE SnapshotOf(snapshot, records')
      <4>1. SnapshotOf(snapshot, records)
        BY <2>3, <3>2 DEF SnapshotInv
      <4> QED BY <1>r, <2>3, <4>1, SnapshotStays
    <3>3. undisturbed' => reading = 0
      BY <2>3
    <3>4. SnapshotInv'
      BY <2>1, <3>2, <3>3 DEF SnapshotInv
    <3> QED BY <3>1, <3>4
  <2> QED BY <1>2, <2>2, <2>3 DEF RecordInvocation
<1>3. ASSUME NEW r \in Recorder,
             \/ CountBucket(r) \/ IncrementCount(r) \/ LoadBound(r) \/ SwapBound(r)
             \/ \E failure \in BOOLEAN : EndRecord(r, failure)
      PROVE  SnapshotTypeOK' /\ SnapshotInv'
  <2>1. UNCHANGED <<exporter, records>> /\ phase[r] \in {"bucket", "count", "min", "max", "end"}
    BY <1>3 DEF CountBucket, IncrementCount, LoadBound, SwapBound, EndRecord, history
  <2>2. phase[r] \notin {"idle", "span"}
    BY <2>1
  <2> QED BY <1>1, <2>1, <2>2
<1>4. ASSUME NEW r \in Recorder, NEW element \in BOOLEAN, RecordElementSpan(r, element)
      PROVE  SnapshotTypeOK' /\ SnapshotInv'
  <2>1. /\ UNCHANGED <<exporter, records, counter, bucket, bound>>
        /\ phase' = [phase EXCEPT ![r] = "idle"]
    BY <1>4 DEF RecordElementSpan, Goto, metrics, history
  <2>2. \A q \in Recorder : phase'[q] = "idle" \/ phase'[q] = phase[q]
    BY <1>p, <2>1
  <2> QED BY <1>1, <2>1, <2>2
<1>5. CASE UNCHANGED collectVars \/ Trace \/ \E l \in Level : SetLevel(l)
  <2>1. UNCHANGED <<exporter, records, counter, bucket, bound, phase>>
    BY <1>5 DEF collectVars, Trace, SetLevel, metrics, recorder, history
  <2> QED BY <1>1, <2>1
<1>6. CASE BeginSnapshot
  <2>1. /\ reading' = 1 /\ snapshot' = <<>> /\ UNCHANGED phase
        /\ undisturbed' = \A r \in Recorder : phase[r] \in {"idle", "span"}
    BY <1>6 DEF BeginSnapshot, recorder
  <2>2. Len(snapshot') = 0 /\ snapshot' \in Seq(Nat)
    BY <2>1
  <2>3. SnapshotTypeOK'
    <3>1. reading' \in 0..(NumBuckets + 2) /\ reading' - 1 = 0 /\ reading' # 0
      BY <2>1, BoundaryFacts
    <3>2. undisturbed' \in BOOLEAN
      BY <2>1
    <3> QED BY <2>2, <3>1, <3>2 DEF SnapshotTypeOK
  <2>4. SnapshotInv'
    <3>1. 1..Len(snapshot') = {} /\ reading' # 0
      BY <2>1, <2>2
    <3>2. undisturbed' => \A r \in Recorder : phase'[r] \in {"idle", "span"}
      BY <2>1
    <3> QED BY <3>1, <3>2 DEF SnapshotInv
  <2> QED BY <2>3, <2>4
<1>7. CASE ReadField
  <2> DEFINE N == NumBuckets + 2
             x == Field(reading)
  <2>1. /\ reading # 0 /\ snapshot' = Append(snapshot, x)
        /\ reading' = IF reading = N THEN 0 ELSE reading + 1
        /\ UNCHANGED <<undisturbed, phase, records, counter, bucket, bound>>
    BY <1>7 DEF ReadField, metrics, recorder, history
  <2>2. /\ reading \in 1..N /\ snapshot \in Seq(Nat) /\ Len(snapshot) = reading - 1
        /\ N \in Nat /\ undisturbed \in BOOLEAN
    BY <2>1, BoundaryFacts DEF SnapshotTypeOK
  <2>3. x \in Nat
    BY <2>2, FieldFacts
  <2>4. \A i : Field(i)' = Field(i)
    BY <2>1 DEF Field
  <2> HIDE DEF x, N
  <2>5. /\ snapshot' \in Seq(Nat) /\ Len(snapshot') = reading /\ snapshot'[reading] = x
        /\ \A i \in 1..(reading - 1) : snapshot'[i] = snapshot[i]
    BY <2>1, <2>2, <2>3
  <2>6. SnapshotTypeOK'
    <3>1. CASE reading = N
      BY <2>1, <2>2, <2>5, <3>1 DEF SnapshotTypeOK, N
    <3>2. CASE reading # N
      <4>1. reading' = reading + 1 /\ reading' \in 0..N /\ reading' # 0 /\ reading' - 1 = reading
        BY <2>1, <2>2, <3>2
      <4> QED BY <2>1, <2>2, <2>5, <4>1 DEF SnapshotTypeOK, N
    <3> QED BY <3>1, <3>2
  <2>7. ASSUME undisturbed
        PROVE  /\ \A r \in Recorder : phase[r] \in {"idle", "span"}
               /\ \A i \in 1..reading : snapshot'[i] = Field(i)
    <3>1. /\ \A r \in Recorder : phase[r] \in {"idle", "span"}
          /\ \A i \in 1..(reading - 1) : snapshot[i] = Field(i)
      BY <2>1, <2>2, <2>7 DEF SnapshotInv
    <3>2. \A i \in 1..reading : i = reading \/ i \in 1..(reading - 1)
      BY <2>2
    <3> QED BY <2>5, <3>1, <3>2 DEF x
  <2>8. ASSUME undisturbed, reading = N PROVE SnapshotOf(snapshot', records)
    BY <2>7, <2>8, SnapshotTaken DEF N
  <2>9. SnapshotInv'
    <3>1. reading' = 0 => reading = N
      BY <2>1, <2>2
    <3> QED BY <2>1, <2>4, <2>5, <2>7, <2>8, <3>1 DEF SnapshotInv
  <2> QED BY <2>6, <2>9
<1> QED BY <1>2, <1>3, <1>4, <1>5, <1>6, <1>7 DEF CollectNext

(* The percentiles that the exporter computes from a snapshot that met no  *)
(* recording lie in the bucket of the duration with that rank and rise     *)
(* with the percentage, for any durations, boundaries and percentages and  *)
(* any number of recorders; those from a snapshot that met one are between *)
(* the boundaries of their bucket, but for the last bucket when it counts  *)
(* a duration that max does not show yet.                                  *)
THEOREM PercentilesAreSound == CollectSpec => []PercentileSound
<1> DEFINE I == /\ RecorderTypeOK /\ BoundInv /\ MetricsInv
                /\ SnapshotTypeOK /\ SnapshotInv
<1>1. CollectInit => I
  <2> SUFFICES ASSUME CollectInit PROVE SnapshotTypeOK /\ SnapshotInv
    BY BoundInit, MetricsInit
  <2>1. reading = 0 /\ snapshot = <<>> /\ undisturbed = TRUE
    BY DEF CollectInit
  <2>2. 0 \in 0..(NumBuckets + 2) /\ snapshot \in Seq(Nat) /\ Len(snapshot) = 0
    BY <2>1, BoundaryFacts
  <2> QED BY <2>1, <2>2 DEF SnapshotTypeOK, SnapshotInv
<1>2. I /\ [CollectNext]_collectVars => I'
  BY RecorderTypeStep, BoundInvStep, MetricsInvStep, SnapshotInvStep
<1>3. I => PercentileSound
  BY PercentileKnown
<1> QED BY <1>1, <1>2, <1>3, PTL DEF CollectSpec
=============================================================================
