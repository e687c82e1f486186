------------------------------ MODULE SpcRules ------------------------------
(***************************************************************************)
(* The control chart of an agent: a baseline from the first scores of its  *)
(* series, the Western Electric rules over the whole series and the trend  *)
(* they give, as services/spc.py computes them, next to what the rules say.*)
(*                                                                         *)
(* Scores are integers and the statistics stay exact: with n values of sum *)
(* S and sum of squares Q, the mean is S / n and the variance is           *)
(* (n * Q - S * S) / (n * (n - 1)).  The code computes both as floats.     *)
(***************************************************************************)
EXTENDS Integers, Sequences, SequencesExt

CONSTANTS BaselineN   \* baseline_n, 20 in the code

ASSUME SpcAssumption == BaselineN \in Nat \ {0, 1}

TrendLen == 6
SameSideLen == 8

Total(values) == FoldLeft(LAMBDA sum, v : sum + v, 0, values)

\* compute_baseline, which needs two scores.
HasBaseline(values) == Len(values) >= 2
Baseline(values) ==
  LET n == IF Len(values) < BaselineN THEN Len(values) ELSE BaselineN
      sample == SubSeq(values, 1, n)
  IN  [n |-> n, sum |-> Total(sample),
       squares |-> Total([i \in 1 .. n |-> sample[i] * sample[i]])]

\* How far a value is from the mean, times n, and the variance times n * (n - 1).
Deviation(b, v) == b.n * v - b.sum
Spread(b) == b.n * b.squares - b.sum * b.sum

Side(b, v) == CASE Deviation(b, v) > 0 -> "alto"
                [] Deviation(b, v) < 0 -> "bajo"
                [] OTHER -> "media"

\* |v - mean| > 3 * std.
BeyondLimits(b, v) ==
  Deviation(b, v) * Deviation(b, v) * (b.n - 1) > 9 * b.n * Spread(b)

\* Bug: a point on the mean continues a run.
SameSideRun_Through(values, b) ==
  LET run[i \in 1 .. Len(values)] ==
        IF i > 1 /\ \/ Side(b, values[i]) = "media"
                    \/ Side(b, values[i - 1]) \in {"media", Side(b, values[i])}
        THEN run[i - 1] + 1 ELSE 1
  IN  run

\* run_side of rule 2 after each point.
SameSideRun(values, b) ==
  LET run[i \in 1 .. Len(values)] ==
        IF Side(b, values[i]) = "media" THEN 0
        ELSE IF i > 1 /\ Side(b, values[i]) = Side(b, values[i - 1])
             THEN run[i - 1] + 1 ELSE 1
  IN  run

\* up and down of rule 3 after each point, and the points that make them grow.
TrendRun(steps, n) ==
  LET run[i \in 1 .. n] == IF i \in steps THEN run[i - 1] + 1 ELSE 1
  IN  run

Ups(values) == {i \in 2 .. Len(values) : values[i - 1] < values[i]}
Downs(values) == {i \in 2 .. Len(values) : values[i - 1] > values[i]}

\* check_rules: the directions of the violations.
Directions(values, b) ==
  LET side == SameSideRun(values, b)
      up == TrendRun(Ups(values), Len(values))
      down == TrendRun(Downs(values), Len(values))
      points == 1 .. Len(values)
  IN  {Side(b, values[i]) : i \in {j \in points : \/ BeyondLimits(b, values[j])
                                                  \/ side[j] >= SameSideLen}}
        \cup {"alto" : i \in {j \in points : up[j] >= TrendLen}}
        \cup {"bajo" : i \in {j \in points : down[j] >= TrendLen}}

\* detect_drift.
Trend(values, b) ==
  LET directions == Directions(values, b)
  IN  CASE "bajo" \in directions -> "degradacion"
        [] "bajo" \notin directions /\ "alto" \in directions -> "mejora"
        [] OTHER -> "estable"

\* spc_summary of two scores or more, as the columns of agent_reputation: the mean
\* in hundredths, the deviation by its square, the limits by what they are made of.
SpcSummary(values) ==
  LET b == Baseline(values)
      mean == (100 * b.sum) \div b.n
      variance == (10000 * Spread(b)) \div (b.n * (b.n - 1))
  IN  [mean |-> mean, std |-> variance, limits |-> <<mean, variance>>,
       trend |-> Trend(values, b)]

-----------------------------------------------------------------------------
(* What the rules say, without counters: "1 punto fuera de 3 sigma",       *)
(* "8 puntos seguidos del mismo lado de la media", "tendencia de 6 puntos  *)
(* consecutivos subiendo o bajando", and that getting worse comes first.   *)

Window(values, n, Each(_)) ==
  \E last \in n .. Len(values) : \A i \in last - n + 1 .. last : Each(i)

Signals(values, b, direction) ==
  LET Steps(i) == IF direction = "alto" THEN values[i - 1] < values[i]
                                        ELSE values[i - 1] > values[i]
  IN  \/ \E i \in DOMAIN values : BeyondLimits(b, values[i]) /\ Side(b, values[i]) = direction
      \/ Window(values, SameSideLen, LAMBDA i : Side(b, values[i]) = direction)
      \/ \E last \in TrendLen .. Len(values) :
           \A i \in last - TrendLen + 2 .. last : Steps(i)

RightTrend(values, trend) ==
  LET b == Baseline(values)
      worse == Signals(values, b, "bajo")
      better == Signals(values, b, "alto")
  IN  /\ trend = "degradacion" <=> worse
      /\ trend = "mejora" <=> better /\ ~worse
      /\ trend \in {"degradacion", "mejora", "estable"}
=============================================================================
