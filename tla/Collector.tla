------------------------------ MODULE Collector ------------------------------
(***************************************************************************)
(* ObservabilityCollector (torvyn-observability), for one component of one *)
(* registered flow: the counters and the lock-free histogram that are fed  *)
(* after each invocation, the snapshot that the exporter takes meanwhile   *)
(* and the percentiles computed from it, and the ring buffer of spans that *)
(* the trace command drains when the flow is over.                         *)
(*                                                                         *)
(* One action per atomic operation on the histogram; the span buffer is    *)
(* under a mutex.  The plain counters, and the histogram's sum, are only   *)
(* ever added to, and are updated together with a neighbouring operation.  *)
(* All metric operations are relaxed, but the fields are read in the order *)
(* in which they are written, so that a snapshot that meets a record in    *)
(* program order already sees every mixture of its old and new fields.     *)
(***************************************************************************)
EXTENDS Integers, Sequences, SequencesExt, FiniteSets

CONSTANTS
  Recorder,     \* tasks that record invocations
  Duration,     \* the durations that occur
  Boundary,     \* upper boundaries of the buckets but the last
  Infinity,     \* u64::MAX
  Percent,      \* percentiles that are asked for
  Capacity,     \* slots of the span buffer, a power of two
  MaxRecords,   \* bound: invocations recorded in all
  MaxSpans      \* bound: spans pushed in all

NumBuckets == Len(Boundary) + 1
Bucket     == 1..NumBuckets
Level      == {"Off", "Production", "Diagnostic"}

ASSUME CollectorAssumption ==
  /\ Boundary \in Seq(Nat \ {0}) /\ Boundary # <<>>
  /\ \A i \in 2..Len(Boundary) : Boundary[i - 1] < Boundary[i]
  /\ Infinity \in Nat /\ \A d \in Duration : d \in Nat /\ d < Infinity
  /\ Percent \subseteq 0..100
  /\ Capacity \in Nat \ {0} /\ MaxRecords \in Nat /\ MaxSpans \in Nat

VARIABLES
  level,        \* the collector's level
  sampled,      \* whether the flow was chosen for tracing when it started
  counter,      \* the plain counters
  bucket,       \* the histogram's buckets
  bound,        \* its min and max
  phase, value, loaded,        \* of each recorder
  reading,      \* how far the exporter is: the next field to read, or 0
  snapshot,     \* what it has read
  slots, writePos,             \* the span buffer
  report,       \* what the trace command has found: spans, truncated
  \* history
  records,      \* the durations whose recording has begun
  errors,       \* how many invocations have been found to have failed
  pushed,       \* the spans pushed, by number
  undisturbed   \* no recording was under way during the last snapshot

metrics == <<counter, bucket, bound>>
recorder == <<phase, value, loaded>>
spans == <<slots, writePos, pushed>>
history == <<records, errors>>
exporter == <<reading, snapshot, undisturbed>>
collectVars == <<level, sampled, metrics, recorder, exporter, spans, report, history>>

NotRead   == -1
NoReport  == [spans |-> <<>>, truncated |-> FALSE, made |-> FALSE]
Counter   == {"elements_total", "invocations", "sum", "count", "errors",
              "errors_total"}

CollectInit ==
  /\ level \in Level
  /\ sampled \in BOOLEAN
  /\ counter = [c \in Counter |-> 0]
  /\ bucket = [b \in Bucket |-> 0]
  /\ bound = [min |-> Infinity, max |-> 0]
  /\ phase = [r \in Recorder |-> "idle"]
  /\ value = [r \in Recorder |-> 0]
  /\ loaded = [r \in Recorder |-> NotRead]
  /\ reading = 0
  /\ snapshot = <<>>
  /\ slots = [i \in 0..(Capacity - 1) |-> 0]
  /\ writePos = 0
  /\ report = NoReport
  /\ records = <<>>
  /\ errors = 0
  /\ pushed = <<>>
  /\ undisturbed = TRUE

SetLevel(l) ==
  /\ level' = l
  /\ UNCHANGED <<sampled, metrics, recorder, exporter, spans, report, history>>

-----------------------------------------------------------------------------
(* The counters C go up by one.                                            *)
Counted(C) == [c \in Counter |-> IF c \in C THEN counter[c] + 1 ELSE counter[c]]

Goto(r, step) == phase' = [phase EXCEPT ![r] = step]

(* record_invocation: the driver reports an invocation.  The level is      *)
(* looked at once; at Off nothing is recorded.                             *)
RecordInvocation(r, d) ==
  /\ phase[r] = "idle" /\ ~report.made
  /\ Len(pushed) < MaxSpans
  /\ \/ /\ level = "Off"
        /\ Goto(r, "span")
        /\ UNCHANGED <<value, counter, undisturbed, records>>
     \/ /\ level # "Off" /\ Len(records) < MaxRecords
        /\ Goto(r, "bucket")
        /\ value' = [value EXCEPT ![r] = d]
        /\ counter' = Counted({"elements_total", "invocations"})
        /\ records' = Append(records, d)
        /\ undisturbed' = (undisturbed /\ reading = 0)
  /\ UNCHANGED <<level, sampled, bucket, bound, loaded, reading, snapshot, spans, report,
                 errors>>

(* binary_search: a value on a boundary belongs to the bucket below it.    *)
BucketOf(d) ==
  CHOOSE b \in Bucket : /\ b = NumBuckets \/ d <= Boundary[b]
                        /\ b = 1 \/ d > Boundary[b - 1]

(* Histogram::record: the bucket and the sum, then the count ...           *)
CountBucket(r) ==
  /\ phase[r] = "bucket"
  /\ bucket' = [bucket EXCEPT ![BucketOf(value[r])] = @ + 1]
  /\ counter' = [counter EXCEPT !["sum"] = @ + value[r]]
  /\ Goto(r, "count")
  /\ UNCHANGED <<level, sampled, bound, value, loaded, exporter, spans, report, history>>

IncrementCount(r) ==
  /\ phase[r] = "count"
  /\ counter' = Counted({"count"})
  /\ Goto(r, "min")
  /\ UNCHANGED <<level, sampled, bucket, bound, value, loaded, exporter, spans, report,
                 history>>

(* ... then min and max: load, then compare and swap until that succeeds   *)
(* or the value does not improve the bound.                                *)
LoadBound(r) ==
  /\ phase[r] \in {"min", "max"} /\ loaded[r] = NotRead
  /\ loaded' = [loaded EXCEPT ![r] = bound[phase[r]]]
  /\ UNCHANGED <<level, sampled, metrics, phase, value, exporter, spans, report, history>>

AfterBound(r) == Goto(r, IF phase[r] = "min" THEN "max" ELSE "end")

Improves(r) == IF phase[r] = "min" THEN value[r] < loaded[r] ELSE value[r] > loaded[r]

BlindStoreMutant(r) ==
  /\ phase[r] \in {"min", "max"} /\ loaded[r] # NotRead
  /\ bound' = IF Improves(r) THEN [bound EXCEPT ![phase[r]] = value[r]] ELSE bound
  /\ loaded' = [loaded EXCEPT ![r] = NotRead]
  /\ AfterBound(r)
  /\ UNCHANGED <<level, sampled, counter, bucket, value, exporter, spans, report,
                 history>>

SwapBound(r) ==
  /\ phase[r] \in {"min", "max"} /\ loaded[r] # NotRead
  /\ IF Improves(r) /\ bound[phase[r]] # loaded[r]
     THEN /\ loaded' = [loaded EXCEPT ![r] = bound[phase[r]]]
          /\ UNCHANGED <<bound, phase>>
     ELSE /\ bound' = IF Improves(r) THEN [bound EXCEPT ![phase[r]] = value[r]] ELSE bound
          /\ loaded' = [loaded EXCEPT ![r] = NotRead]
          /\ AfterBound(r)
  /\ UNCHANGED <<level, sampled, counter, bucket, value, exporter, spans, report,
                 history>>

(* A failed invocation is counted after that.                              *)
EndRecord(r, failure) ==
  /\ phase[r] = "end"
  /\ counter' = IF failure THEN Counted({"errors", "errors_total"}) ELSE counter
  /\ errors' = IF failure THEN errors + 1 ELSE errors
  /\ value' = [value EXCEPT ![r] = 0]
  /\ Goto(r, "span")
  /\ UNCHANGED <<level, sampled, bucket, bound, loaded, exporter, spans, report, records>>

-----------------------------------------------------------------------------
(* record_element_span, if the invocation was about an element: at level   *)
(* Diagnostic, of a flow that is sampled.                                  *)
RecordElementSpan(r, element) ==
  /\ phase[r] = "span"
  /\ IF element /\ level = "Diagnostic" /\ sampled
     THEN /\ slots' = [slots EXCEPT ![writePos % Capacity] = Len(pushed) + 1]
          /\ writePos' = writePos + 1
          /\ pushed' = Append(pushed, Len(pushed) + 1)
     ELSE UNCHANGED spans
  /\ Goto(r, "idle")
  /\ UNCHANGED <<level, sampled, metrics, value, loaded, exporter, report, history>>

SlotOrderMutant == IF writePos <= Capacity THEN [i \in 1..writePos |-> slots[i - 1]]
                   ELSE [i \in 1..Capacity |-> slots[i - 1]]

(* drain: oldest first.                                                    *)
Drained == IF writePos <= Capacity THEN [i \in 1..writePos |-> slots[i - 1]]
           ELSE [i \in 1..Capacity |-> slots[(writePos + i - 1) % Capacity]]

HasWrapped == writePos >= Capacity

(* The trace command, when the flow has ended: whether the buffer wrapped, *)
(* then its contents.                                                      *)
Trace ==
  /\ ~report.made
  /\ \A r \in Recorder : phase[r] = "idle"
  /\ report' = [spans |-> Drained, truncated |-> HasWrapped, made |-> TRUE]
  /\ writePos' = 0
  /\ UNCHANGED <<level, sampled, metrics, recorder, exporter, slots, pushed, history>>

-----------------------------------------------------------------------------
(* Histogram::snapshot, by the exporter at any time: the fields that       *)
(* percentile uses, in order.                                              *)
Field(i) == IF i <= NumBuckets THEN bucket[i]
            ELSE IF i = NumBuckets + 1 THEN counter["count"] ELSE bound["max"]

Total(s)   == s[NumBuckets + 1]
SeenMax(s) == s[NumBuckets + 2]

BeginSnapshot ==
  /\ reading = 0
  /\ reading' = 1
  /\ snapshot' = <<>>
  /\ undisturbed' = \A r \in Recorder : phase[r] \in {"idle", "span"}
  /\ UNCHANGED <<level, sampled, metrics, recorder, spans, report, history>>

ReadField ==
  /\ reading # 0
  /\ snapshot' = Append(snapshot, Field(reading))
  /\ reading' = IF reading = NumBuckets + 2 THEN 0 ELSE reading + 1
  /\ UNCHANGED <<level, sampled, metrics, recorder, undisturbed, spans, report, history>>

(* percentile: the bucket in which the rank lies, and an interpolation in  *)
(* it.  The last bucket ends at the greatest value seen.                   *)
Ceil(a, b) == (a + b - 1) \div b

RoundedDownMutant(s, p) == LET r == (p * Total(s)) \div 100 IN IF r > 1 THEN r ELSE 1

Rank(s, p) == LET r == Ceil(p * Total(s), 100) IN IF r > 1 THEN r ELSE 1

(* The sums of the first values of s.                                      *)
Sums(s) == LET sum[n \in 0..Len(s)] == IF n = 0 THEN 0 ELSE sum[n - 1] + s[n] IN sum

Cumulative(s, b) == Sums(s)[b]

InBucket(s, p) ==
  IF \E b \in Bucket : Cumulative(s, b) >= Rank(s, p)
  THEN CHOOSE b \in Bucket : /\ Cumulative(s, b) >= Rank(s, p)
                             /\ \A c \in 1..(b - 1) : Cumulative(s, c) < Rank(s, p)
  ELSE 0

Lower(b)    == IF b = 1 THEN 0 ELSE Boundary[b - 1]
Upper(s, b) == IF b < NumBuckets THEN Boundary[b] ELSE SeenMax(s)

(* With upper < lower the subtraction overflows; the result is then what   *)
(* it would be without the width of u64, a value below lower.              *)
Percentile(s, p) ==
  LET b      == InBucket(s, p)
      within == Cumulative(s, b) - Rank(s, p)
  IN IF Total(s) = 0 THEN 0
     ELSE IF b = 0 THEN SeenMax(s)
     ELSE Lower(b) + ((s[b] - within) * (Upper(s, b) - Lower(b))) \div s[b]

CollectNext ==
  \/ \E r \in Recorder :
       \/ \E d \in Duration : RecordInvocation(r, d)
       \/ CountBucket(r) \/ IncrementCount(r) \/ LoadBound(r) \/ SwapBound(r)
       \/ \E failure \in BOOLEAN : EndRecord(r, failure)
       \/ \E element \in BOOLEAN : RecordElementSpan(r, element)
  \/ BeginSnapshot \/ ReadField
  \/ Trace
  \/ \E l \in Level \ {level} : SetLevel(l)

CollectSpec == CollectInit /\ [][CollectNext]_collectVars
-----------------------------------------------------------------------------
(* Properties.                                                             *)

Recorded(b) == {i \in DOMAIN records : BucketOf(records[i]) = b}

(* When no recording is under way, min and max are the least and greatest  *)
(* of the durations recorded, whichever recorders raced each other.        *)
ExtremesExact ==
  (\A r \in Recorder : phase[r] \in {"idle", "span"}) /\ records # <<>> =>
    \E i, j \in DOMAIN records :
      /\ bound["min"] = records[i] /\ bound["max"] = records[j]
      /\ \A k \in DOMAIN records : records[i] <= records[k] /\ records[k] <= records[j]

(* When no recording is under way the metrics are those of the durations   *)
(* that were recorded: recorders that race each other lose no increment    *)
(* and no minimum or maximum, and the counters agree with the histogram    *)
(* although the level changes between invocations.                         *)
MetricsExact ==
  (\A r \in Recorder : phase[r] \in {"idle", "span"}) =>
    /\ \A c \in {"elements_total", "invocations", "count"} : counter[c] = Len(records)
    /\ counter["sum"] = Sums(records)[Len(records)]
    /\ counter["errors"] = errors /\ counter["errors_total"] = errors
    /\ \A b \in Bucket : bucket[b] = Cardinality(Recorded(b))
    /\ ExtremesExact

(* The k-th smallest of n values is their p-th percentile: p percent of    *)
(* them are not greater, and k is the least such.                          *)
Place(p, n) == CHOOSE k \in 1..n : /\ 100 * k >= p * n
                                   /\ k = 1 \/ 100 * (k - 1) < p * n

(* Sorted by size, the j-th of the first n durations can be the k-th.      *)
HasPlace(j, k, n) ==
  /\ Cardinality({i \in 1..n : records[i] < records[j]}) < k
  /\ Cardinality({i \in 1..n : records[i] <= records[j]}) >= k

(* The percentiles of a snapshot that met no recording are estimates: each *)
(* lies in the bucket of the value that has that rank among the durations, *)
(* and a higher percentile is not less.  With a recording under way there  *)
(* is one thing that can be worse than being one value behind: the last    *)
(* bucket counts a value that max does not show yet, and the estimate is   *)
(* computed with upper below lower.                                        *)
PercentileSound ==
  reading = 0 /\ snapshot # <<>> /\ Total(snapshot) > 0 =>
    \A p \in Percent :
      LET e == Percentile(snapshot, p)
          b == InBucket(snapshot, p)
      IN /\ undisturbed =>
              LET n == Total(snapshot)
              IN /\ \E j \in 1..n : HasPlace(j, Place(p, n), n) /\ b = BucketOf(records[j])
                 /\ Lower(b) <= e /\ e <= Upper(snapshot, b)
                 /\ \A q \in Percent : q <= p => Percentile(snapshot, q) <= e
         /\ ~undisturbed =>
              \/ b = 0
              \/ b = NumBuckets /\ SeenMax(snapshot) < Lower(b)
              \/ Lower(b) <= e /\ e <= Upper(snapshot, b)

(* The spans of a trace are the latest ones, oldest first, as many as the  *)
(* buffer has slots; one that is not marked as truncated is complete.      *)
(* Nothing is said here of a trace that is marked: the mark also comes     *)
(* when the buffer is exactly full and nothing has been evicted.           *)
TraceHonest ==
  report.made =>
    /\ IsSuffix(report.spans, pushed)
    /\ Len(report.spans) = Capacity \/ report.spans = pushed
    /\ ~report.truncated => report.spans = pushed
-----------------------------------------------------------------------------
(* What module CollectorProofs proves TraceHonest and ExtremesExact from.  *)

TraceTypeOK ==
  /\ slots \in [0..(Capacity - 1) -> Nat] /\ writePos \in Nat
  /\ pushed \in Seq(Nat)
  /\ report \in [spans : Seq(Nat), truncated : BOOLEAN, made : BOOLEAN]

(* The buffer holds the latest spans, each in the slot of its number.      *)
RingInv ==
  ~report.made =>
    /\ writePos = Len(pushed)
    /\ \A i \in 1..Len(pushed) :
         i + Capacity > Len(pushed) => slots[(i - 1) % Capacity] = pushed[i]

(* After the trace nothing is recorded any more.                           *)
QuiescentInv == report.made => \A r \in Recorder : phase[r] = "idle"

TraceInv == TraceTypeOK /\ RingInv /\ QuiescentInv /\ TraceHonest

(* The steps at which a recorder's value is still to reach a bound.        *)
Before(b) == IF b = "min" THEN {"bucket", "count", "min"}
                          ELSE {"bucket", "count", "min", "max"}

Beyond(b, x, y) == IF b = "min" THEN x <= y ELSE x >= y

RecorderTypeOK ==
  /\ phase \in [Recorder -> {"idle", "bucket", "count", "min", "max", "end", "span"}]
  /\ value \in [Recorder -> Nat]
  /\ loaded \in [Recorder -> Nat \cup {NotRead}]
  /\ bound \in [{"min", "max"} -> Nat]
  /\ records \in Seq(Duration)
  /\ \A r \in Recorder : phase[r] \notin {"min", "max"} => loaded[r] = NotRead

(* A recorder works on a duration that was recorded.                       *)
WorksOn ==
  \A r \in Recorder : phase[r] \in Before("max") =>
    \E i \in DOMAIN records : value[r] = records[i]

(* A bound is one of the durations, unless none has reached it yet.        *)
Genuine(b) ==
  \/ bound[b] = IF b = "min" THEN Infinity ELSE 0
  \/ \E i \in DOMAIN records : bound[b] = records[i]

(* It lies beyond every duration whose recorder has passed it ...          *)
Covering(b) ==
  \A i \in DOMAIN records :
    \/ Beyond(b, bound[b], records[i])
    \/ \E r \in Recorder : phase[r] \in Before(b) /\ value[r] = records[i]

(* ... and only ever moves away from what a recorder has read.             *)
Monotone(b) ==
  \A r \in Recorder : phase[r] = b /\ loaded[r] # NotRead => Beyond(b, bound[b], loaded[r])

BoundInv ==
  WorksOn /\ \A b \in {"min", "max"} : Genuine(b) /\ Covering(b) /\ Monotone(b)

(* What it proves MetricsExact from: every recorder that has yet to count  *)
(* its duration is assigned the place of that duration in records, and the *)
(* metrics are those of the other places.                                  *)
CounterTypeOK ==
  /\ counter \in [Counter -> Nat] /\ bucket \in [Bucket -> Nat] /\ errors \in Nat
  /\ counter["elements_total"] = Len(records) /\ counter["invocations"] = Len(records)
  /\ counter["errors"] = errors /\ counter["errors_total"] = errors

Pending == {"bucket", "count"}

Places(p, f, P) == {f[r] : r \in {q \in Recorder : p[q] \in P}}

(* The durations at the places D of s, and 0 at the others.                *)
Masked(s, D) == [i \in 1..Len(s) |-> IF i \in D THEN s[i] ELSE 0]

InRange(s, b) == {i \in 1..Len(s) : BucketOf(s[i]) = b}

Accounted(f, p, v, s, c, h) ==
  /\ \A r \in Recorder : p[r] \in Pending => f[r] \in 1..Len(s) /\ v[r] = s[f[r]]
  /\ \A r, q \in Recorder : p[r] \in Pending /\ p[q] \in Pending /\ f[r] = f[q] => r = q
  /\ c["count"] = Cardinality((1..Len(s)) \ Places(p, f, Pending))
  /\ c["sum"] = Sums(Masked(s, (1..Len(s)) \ Places(p, f, {"bucket"})))[Len(s)]
  /\ \A b \in Bucket : h[b] = Cardinality(InRange(s, b) \ Places(p, f, {"bucket"}))

MetricsInv ==
  /\ CounterTypeOK
  /\ \E f \in [Recorder -> 0..Len(records)] :
       Accounted(f, phase, value, records, counter, bucket)

(* What it proves PercentileSound from: the exporter is ahead of nothing   *)
(* as long as it meets no recording ...                                    *)
SnapshotTypeOK ==
  /\ reading \in 0..(NumBuckets + 2) /\ snapshot \in Seq(Nat) /\ undisturbed \in BOOLEAN
  /\ Len(snapshot) \in IF reading = 0 THEN {0, NumBuckets + 2} ELSE {reading - 1}

(* ... and a snapshot s that met none is that of the first durations of t. *)
SnapshotOf(s, t) ==
  /\ Total(s) \in 0..Len(t)
  /\ \A b \in Bucket : s[b] = Cardinality({i \in 1..Total(s) : BucketOf(t[i]) = b})
  /\ \A i \in 1..Total(s) : t[i] <= SeenMax(s)

SnapshotInv ==
  undisturbed =>
    /\ reading # 0 => /\ \A r \in Recorder : phase[r] \in {"idle", "span"}
                      /\ \A i \in 1..Len(snapshot) : snapshot[i] = Field(i)
    /\ reading = 0 /\ snapshot # <<>> => SnapshotOf(snapshot, records)
=============================================================================
