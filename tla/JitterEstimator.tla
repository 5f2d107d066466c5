--------------------------- MODULE JitterEstimator ---------------------------
(***************************************************************************)
(* The estimator that chooses the jitter buffer's mode and limits          *)
(* (sclient/src/modules/network/AdaptiveJitterBuffer.h) over a ring of     *)
(* samples with a cached summary (sclient/src/common/metrics/              *)
(* LatencyStats.h).                                                        *)
(*                                                                         *)
(* Jitter is in half milliseconds, percentages of loss in hundredths, the  *)
(* 95th percentile in hundredths of the unit of jitter.  A sample arrives  *)
(* every tick, so smooth_low_p95_since_ns_ is kept as the ticks since then.*)
(* ClientConnection composes these operations with the connection.         *)
(***************************************************************************)
EXTENDS Integers, Sequences, SequencesExt

CONSTANTS
    Window,       \* 100, max_samples_ of window_
    Refresh,      \* 4, snapshot_refresh_interval_
    MinSamples,   \* 10
    HighRun,      \* 10
    LowRun,       \* 20
    HoldTicks,    \* 3 seconds
    BaseWait,     \* base_max_wait_ms
    BaseFrames    \* base_max_frames

ASSUME WindowAssumption ==
    /\ {Window, Refresh, HoldTicks} \subseteq Nat \ {0}
    /\ {HighRun, LowRun} \subseteq 1..Window
    /\ {MinSamples, BaseWait, BaseFrames} \subseteq Nat

VARIABLE jitter   \* the fields of AdaptiveJitterBuffer, and of its window_
                  \* the samples in order, the cached p95 and the samples since

Modes     == {"bypass", "low", "smooth"}
Qualities == {"excellent", "good", "fair", "poor"}
NotCached == -1
NotSet    == -1

(* The constructor and Configure; Reset keeps auto_mode_ and the            *)
(* configuration.                                                           *)
NewEstimator ==
    [mode |-> "bypass", quality |-> "excellent", auto |-> TRUE, window |-> << >>,
     p95 |-> NotCached, pending |-> 0, high |-> 0, low |-> 0, exceeded |-> FALSE,
     since |-> NotSet, maxWait |-> BaseWait, maxFrames |-> BaseFrames]

Reset(e) == [NewEstimator EXCEPT !.auto = e.auto]
SetFixedMode(e, mode) == [e EXCEPT !.auto = FALSE, !.mode = mode]
EnableAutoMode(e) == [e EXCEPT !.auto = TRUE]

-----------------------------------------------------------------------------
(* LatencyStats: PercentileFromSorted interpolates between two ranks; the   *)
(* summary is built again only when Refresh samples have come since.        *)
P95(samples) ==
    LET sorted == SortSeq(samples, <)
        rank   == 95 * (Len(samples) - 1)
        lower  == rank \div 100 + 1
        upper  == IF lower < Len(samples) THEN lower + 1 ELSE lower
    IN  IF samples = << >> THEN 0
        ELSE 100 * sorted[lower] + (sorted[upper] - sorted[lower]) * (rank % 100)

Record(e, sample) ==
    [e EXCEPT !.window = IF Len(@) = Window THEN Append(Tail(@), sample) ELSE Append(@, sample),
              !.pending = @ + 1]

Snapshot(e) ==
    IF e.p95 = NotCached \/ e.pending >= Refresh
    THEN [e EXCEPT !.p95 = P95(e.window), !.pending = 0] ELSE e

(* TargetDelayNs reads the percentile, and so the summary, in the two modes *)
(* that wait.                                                               *)
TargetDelayNs(e) == IF e.mode = "bypass" THEN e ELSE Snapshot(e)

-----------------------------------------------------------------------------
AssessNetworkQuality(e, loss, skip) ==
    [e EXCEPT !.quality =
        CASE e.p95 > 10000 \/ loss > 100 \/ skip > 500 -> "poor"
          [] ~(e.p95 > 10000 \/ loss > 100 \/ skip > 500)
             /\ (e.p95 > 2000 \/ loss > 10 \/ skip > 100) -> "fair"
          [] ~(e.p95 > 2000 \/ loss > 10 \/ skip > 100) /\ (e.p95 > 200 \/ loss > 1) -> "good"
          [] OTHER -> "excellent"]

AtLeast(a, b) == IF a < b THEN b ELSE a
ApplyQualityParams(e) ==
    [e EXCEPT
        !.maxWait   = CASE e.quality = "excellent" -> AtLeast(20, BaseWait \div 4)
                        [] e.quality = "good"      -> BaseWait \div 2
                        [] e.quality = "fair"      -> BaseWait
                        [] e.quality = "poor"      -> BaseWait * 3,
        !.maxFrames = CASE e.quality = "excellent" -> AtLeast(2, BaseFrames \div 4)
                        [] e.quality = "good"      -> AtLeast(4, BaseFrames \div 2)
                        [] e.quality = "fair"      -> BaseFrames
                        [] e.quality = "poor"      -> BaseFrames * 4]

(* EvaluateStateTransition, one operator per mode. *)
FromBypass_NoReset(e, sample) ==
    LET high == IF sample > 2 THEN e.high + 1 ELSE e.high
    IN  IF high >= HighRun
        THEN [e EXCEPT !.mode = "low", !.high = 0, !.low = 0, !.exceeded = FALSE]
        ELSE [e EXCEPT !.high = high]
FromBypass(e, sample) ==
    LET high == IF sample > 2 THEN e.high + 1 ELSE 0
    IN  IF high >= HighRun
        THEN [e EXCEPT !.mode = "low", !.high = 0, !.low = 0, !.exceeded = FALSE]
        ELSE [e EXCEPT !.high = high]

FromLow(e, sample) ==
    LET low == IF sample < 1 THEN e.low + 1 ELSE 0
    IN  CASE low >= LowRun
                 -> [e EXCEPT !.mode = "bypass", !.low = 0, !.high = 0]
          [] low < LowRun /\ e.p95 > 2000 /\ e.exceeded
                 -> [e EXCEPT !.mode = "smooth", !.low = 0, !.high = 0, !.exceeded = FALSE,
                              !.since = NotSet]
          [] OTHER
                 -> [e EXCEPT !.low = low, !.exceeded = e.p95 > 2000]

Since_Restarted(e) == 0
Since(e) == IF e.since = NotSet THEN 0 ELSE e.since + 1
FromSmooth(e) ==
    CASE e.p95 >= 1000
             -> [e EXCEPT !.since = NotSet]
      [] e.p95 < 1000 /\ Since(e) >= HoldTicks
             -> [e EXCEPT !.mode = "low", !.low = 0, !.high = 0, !.exceeded = FALSE,
                          !.since = NotSet]
      [] OTHER
             -> [e EXCEPT !.since = Since(e)]

EvaluateStateTransition(e, sample) ==
    CASE e.mode = "bypass" -> FromBypass(e, sample)
      [] e.mode = "low"    -> FromLow(e, sample)
      [] e.mode = "smooth" -> FromSmooth(e)

RecordJitter(e, sample, loss, skip) ==
    LET assessed == AssessNetworkQuality(Snapshot(Record(e, sample)), loss, skip)
    IN  TargetDelayNs(
            IF assessed.auto /\ Len(assessed.window) >= MinSamples
            THEN ApplyQualityParams(EvaluateStateTransition(assessed, sample))
            ELSE assessed)

-----------------------------------------------------------------------------
EstimatorType ==
    [mode : Modes, quality : Qualities, auto : BOOLEAN, window : Seq(Nat),
     p95 : Nat \cup {NotCached}, pending : 0..Refresh, high : 0..HighRun, low : 0..LowRun,
     exceeded : BOOLEAN, since : 0..HoldTicks \cup {NotSet}, maxWait : Nat, maxFrames : Nat]

LastSamples(n) == {jitter.window[i] : i \in Len(jitter.window) - n + 1..Len(jitter.window)}
Settled(Test(_)) == jitter.window # << >> /\ Test(Last(jitter.window))
=============================================================================
