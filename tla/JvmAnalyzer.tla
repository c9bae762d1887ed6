----------------------------- MODULE JvmAnalyzer -----------------------------
(***************************************************************************)
(* JvmFeatureStore (app/engine/jvm_feature_store.py) and JvmAnalyzer       *)
(* (app/engine/jvm_analyzer.py): agents post snapshots of their JVM, late  *)
(* or twice; a cycle reads each service's window, computes three signals   *)
(* in the executor, and fires the alerts they give through the rate limit  *)
(* of WebhookAlerter.fire (app/alerter/webhook.py).                        *)
(*                                                                         *)
(* Ratios are compared by their cross products, so the arithmetic of the   *)
(* signals is exact.                                                       *)
(***************************************************************************)
EXTENDS Integers, Sequences, FiniteSets, Selection

CONSTANTS
    JvmService,      \* services with an agent
    Sample,          \* what a snapshot may hold: [heap, gc, threads, late]
    HeapMax,         \* heap size; nothing keeps a snapshot's heap below it
    NoMax,           \* the heap of a snapshot without a maximum
    MinSnapshots,    \* _MIN_SNAPSHOTS
    OomWarn,         \* JVM_OOM_WARN_MINUTES
    GcOverhead,      \* JVM_GC_OVERHEAD_WARN, in units of gc
    StormSquared,    \* _GC_STORM_Z squared
    MaxLen,          \* maxlen of the store's rings
    JvmWindow,       \* minutes of snapshots a cycle reads
    JvmMaxNow, JvmMaxPosts   \* bounds: the clock, snapshots posted

ASSUME JvmAssumption ==
    /\ {HeapMax, MinSnapshots, MaxLen} \subseteq Nat \ {0}
    /\ {OomWarn, GcOverhead, StormSquared, JvmWindow, JvmMaxNow, JvmMaxPosts}
           \subseteq Nat
    /\ \A s \in Sample : (s.heap = NoMax \/ s.heap \in Nat) /\ {s.gc, s.threads, s.late} \subseteq Nat

VARIABLES
    jvmNow,      \* the clock, in minutes
    series,      \* the ring of snapshots of each service seen, in order of arrival
    known,       \* the services seen, in the order of their first snapshot
    queue,       \* services the cycle has still to analyse; empty while it sleeps
    window,      \* the snapshots read of its first one; empty before
    alerts,      \* alerts computed from them that have still to be fired
    jvmPosts     \* bounded count of snapshots

jvmVars == <<jvmNow, series, known, queue, window, alerts, jvmPosts>>

Signal == {"jvm_heap_oom", "jvm_gc_storm", "jvm_thread_leak"}
Snapshot == [heap : Nat \cup {NoMax}, gc : Nat, threads : Nat, ts : Int]

-----------------------------------------------------------------------------
(* Sums, and the signals of a window.                                      *)

Total(values) == FoldLeft(LAMBDA sum, v : sum + v, 0, values)
Column(w, f(_)) == [i \in DOMAIN w |-> f(w[i])]

\* Mutant: the slope is fitted to the order of arrival.
FitArrival(w) ==
    LET xs == [i \in DOMAIN w |-> i]
        n == Len(w)
        sumX == Total(xs)
        sumY == Total(Column(w, LAMBDA s : s.heap))
    IN  [num |-> n * Total([i \in DOMAIN w |-> xs[i] * w[i].heap]) - sumX * sumY,
         den |-> n * Total([i \in DOMAIN w |-> xs[i] * xs[i]]) - sumX * sumX]

\* The slope of the regression line of heap over time, num / den; den is 0 when
\* all the snapshots bear one timestamp.
Fit(w) ==
    LET n == Len(w)
        sumX == Total(Column(w, LAMBDA s : s.ts))
        sumY == Total(Column(w, LAMBDA s : s.heap))
    IN  [num |-> n * Total(Column(w, LAMBDA s : s.ts * s.heap)) - sumX * sumY,
         den |-> n * Total(Column(w, LAMBDA s : s.ts * s.ts)) - sumX * sumX]

\* The snapshots _check_oom uses.
Measured(w) == Select(w, {s \in ToSet(w) : s.heap # NoMax})

\* np.polyfit raises when every time since the window's first snapshot is 0.
Raises(w) ==
    LET m == Measured(w)
    IN  Len(m) >= MinSnapshots /\ \A i \in DOMAIN m : m[i].ts = w[1].ts

\* _check_oom: the heap grows and is full within the warning time; one above its
\* maximum is no warning, as the time left is negative.  With one
\* timestamp other than the first snapshot's the slope is that of the least
\* coefficients, positive when the others are later.
OomPredicted(w) ==
    LET m == Measured(w)
        fit == Fit(m)
        left == HeapMax - Last(m).heap
        \* one timestamp: the line's slope is mean / (2 * (ts - first))
        num == IF fit.den = 0 THEN Total(Column(m, LAMBDA s : s.heap)) ELSE fit.num
        den == IF fit.den = 0 THEN 2 * Len(m) * (m[1].ts - w[1].ts) ELSE fit.den
    IN  /\ Len(m) >= MinSnapshots
        /\ num > 0 /\ den > 0
        /\ 0 <= left /\ left * den <= OomWarn * num

\* _check_gc_storm: the last snapshot's pause is StormSquared deviations from the
\* mean, above or below, or exceeds the overhead; equal pauses are no storm.
GcStorm(w) ==
    LET pauses == Column(w, LAMBDA s : s.gc)
        n == Len(w)
        spread == n * Total([i \in DOMAIN w |-> pauses[i] * pauses[i]]) - Total(pauses) * Total(pauses)
        off == n * Last(pauses) - Total(pauses)
    IN  /\ spread > 0
        /\ off * off >= StormSquared * spread \/ Last(pauses) > GcOverhead

\* Twice the median.
Median2(values) ==
    LET sorted == SortSeq(values, <)
        n == Len(values)
    IN  sorted[(n + 1) \div 2] + sorted[n \div 2 + 1]

\* _check_thread_leak: the second half's median is half as large again and seven
\* tenths of its steps go up.
ThreadLeak(w) ==
    LET counts == Column(w, LAMBDA s : s.threads)
        half == Len(w) \div 2
        old == SubSeq(counts, 1, half)
        recent == SubSeq(counts, half + 1, Len(w))
        ups == Cardinality({i \in 1 .. Len(recent) - 1 : recent[i] < recent[i + 1]})
    IN  /\ Len(w) >= 2 * MinSnapshots
        /\ Median2(old) >= 2
        /\ 2 * Median2(recent) >= 3 * Median2(old)
        /\ Len(recent) > 1 /\ 10 * ups >= 7 * (Len(recent) - 1)

\* _compute_signals, in the order of the checks.
ComputeSignals(w) ==
    (IF OomPredicted(w) THEN <<"jvm_heap_oom">> ELSE << >>)
    \o (IF GcStorm(w) THEN <<"jvm_gc_storm">> ELSE << >>)
    \o (IF ThreadLeak(w) THEN <<"jvm_thread_leak">> ELSE << >>)

-----------------------------------------------------------------------------

JvmInit ==
    /\ jvmNow = 0
    /\ series = [s \in JvmService |-> << >>]
    /\ known = << >>
    /\ queue = << >>
    /\ window = << >>
    /\ alerts = << >>
    /\ jvmPosts = 0

\* POST /v1/metrics/jvm: update appends the snapshot to the service's ring, which
\* drops its oldest when full; a snapshot may come late, or again.
Update_jvm ==
    /\ jvmPosts < JvmMaxPosts
    /\ jvmPosts' = jvmPosts + 1
    /\ \E s \in JvmService, sample \in Sample :
          LET snapshot == [heap |-> sample.heap, gc |-> sample.gc,
                           threads |-> sample.threads, ts |-> jvmNow - sample.late]
              longer == Append(series[s], snapshot)
          IN  /\ series' = [series EXCEPT ![s] =
                               IF Len(longer) > MaxLen THEN Tail(longer) ELSE longer]
              /\ known' = IF s \in ToSet(known) THEN known ELSE Append(known, s)
    /\ UNCHANGED <<jvmNow, queue, window, alerts>>

\* get_snapshots: those of the last minutes, in the order they arrived.
GetSnapshots(s) ==
    Select(series[s], {snap \in ToSet(series[s]) : snap.ts >= jvmNow - JvmWindow})

\* A cycle begins: the services are read once.
JvmCycle ==
    /\ queue = << >>
    /\ known # << >>
    /\ queue' = known
    /\ UNCHANGED <<jvmNow, series, known, window, alerts, jvmPosts>>

\* The next service's window is read; too short a one is skipped, and an
\* exception in the computation ends the cycle for the services after it too.
ReadWindow ==
    /\ queue # << >>
    /\ alerts = << >>
    /\ LET w == GetSnapshots(Head(queue))
           skipped == Len(w) < MinSnapshots
           raises == ~ skipped /\ Raises(w)
           found == IF skipped \/ raises THEN << >> ELSE ComputeSignals(w)
       IN  /\ alerts' = found
           /\ window' = IF found = << >> THEN << >> ELSE w
           /\ queue' = IF raises THEN << >> ELSE IF found = << >> THEN Tail(queue) ELSE queue
    /\ UNCHANGED <<jvmNow, series, known, jvmPosts>>

\* fire: the alerts are handed to the alerter one after the other, and its limit
\* may drop them; the next service follows.
FireJvm ==
    /\ alerts # << >>
    /\ alerts' = << >>
    /\ window' = << >>
    /\ queue' = Tail(queue)
    /\ UNCHANGED <<jvmNow, series, known, jvmPosts>>

JvmTick ==
    /\ jvmNow < JvmMaxNow
    /\ jvmNow' = jvmNow + 1
    /\ UNCHANGED <<series, known, queue, window, alerts, jvmPosts>>

JvmNext ==
    \/ Update_jvm
    \/ JvmCycle
    \/ ReadWindow
    \/ FireJvm
    \/ JvmTick

JvmSpec == JvmInit /\ [][JvmNext]_jvmVars

-----------------------------------------------------------------------------
(* Properties.                                                             *)

\* Every variable has the type of the state it models.
JvmTypeOK ==
    /\ jvmNow \in 0 .. JvmMaxNow
    /\ series \in [JvmService -> Seq(Snapshot)]
    /\ \A s \in JvmService : Len(series[s]) <= MaxLen
    /\ known \in Seq(JvmService)
    /\ \A s \in JvmService : s \in ToSet(known) <=> series[s] # << >>
    /\ queue \in Seq(ToSet(known))
    /\ window \in Seq(Snapshot)
    /\ alerts \in Seq(Signal)
    /\ (window = << >>) = (alerts = << >>)
    /\ jvmPosts \in 0 .. JvmMaxPosts

\* Whatever arrives late, twice or without a heap size, an alert about to be fired
\* is borne out by the snapshots it was computed from: for an out-of-memory, a
\* heap that was larger at a later time (unless all of them bear one timestamp);
\* for a garbage collection storm, an overhead above the limit or more snapshots
\* than the squared deviation (fewer cannot be that far from their mean); for a
\* thread leak, more threads in a snapshot than in an earlier one.  And the
\* window is never of fewer snapshots than the minimum.
SignalsJustified ==
    alerts # << >> =>
        /\ Len(window) >= MinSnapshots
        /\ "jvm_heap_oom" \in ToSet(alerts) =>
              LET m == Measured(window)
              IN  \/ \E i, j \in DOMAIN m : m[i].ts < m[j].ts /\ m[i].heap < m[j].heap
                  \/ \A i, j \in DOMAIN m : m[i].ts = m[j].ts
        /\ "jvm_gc_storm" \in ToSet(alerts) =>
              Last(window).gc > GcOverhead \/ Len(window) > StormSquared
        /\ "jvm_thread_leak" \in ToSet(alerts) =>
              \E i, j \in DOMAIN window : i < j /\ window[i].threads < window[j].threads
=============================================================================
