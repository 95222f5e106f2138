---------------------------- MODULE AnomalyScoring ----------------------------
(***************************************************************************)
(* Baselines and anomaly scores (layer1/behavioral/baselines.py and        *)
(* scoring.py), for one metric: the code treats its four alike and         *)
(* independently, and the composite score is the root mean square of their *)
(* z-scores.                                                               *)
(*                                                                         *)
(* The numbers are exact.  With alpha = 2 / (Span + 1), the mean of a      *)
(* baseline over n sessions is a multiple of 1 / (Span + 1)^(n-1) and its  *)
(* variance one of the square of that; a baseline holds the two integers   *)
(* and the scale.                                                          *)
(***************************************************************************)
EXTENDS Integers, Sequences

CONSTANTS
    Span,       \* of the moving average (20)
    ColdStart,  \* sessions before a score means something (5)
    Clip        \* largest z-score (4)

ASSUME ScoringAssumption ==
    /\ Span \in Nat /\ Span > 1
    /\ ColdStart \in Nat /\ ColdStart > 1
    /\ Clip \in Nat

Weight == 2
Rest == Span - 1
Whole == Span + 1

\* total_sessions is the length of sessions, which also says which they were.
NoBaseline == [sessions |-> <<>>, scale |-> 1, mean |-> 0, variance |-> 0]

Deviation(b, x) == x * b.scale - b.mean

EwmaMean(b, x) == Weight * x * b.scale + Rest * b.mean

PlainEwmVariance(b, x) ==
    Rest * Whole * b.variance + Weight * Whole * Deviation(b, x) * Deviation(b, x)

AgainstNewMean(b, x) ==
    Rest * (Whole * b.variance
            + (Weight * Rest * Rest * Deviation(b, x) * Deviation(b, x)) \div (Whole * Whole))

EwmaVariance(b, x) ==
    Rest * (Whole * b.variance + Weight * Deviation(b, x) * Deviation(b, x))

UpdateBaseline(b, session, x) ==
    IF b.sessions = <<>>
    THEN [sessions |-> <<session>>, scale |-> 1, mean |-> x, variance |-> 0]
    ELSE [sessions |-> Append(b.sessions, session),
          scale |-> Whole * b.scale,
          mean |-> EwmaMean(b, x),
          variance |-> EwmaVariance(b, x)]

\* A score stands for the square of its z-score, num / den.
ColdScore == [cold |-> TRUE, num |-> 0, den |-> 1]

Clipped(num, den) ==
    IF num > Clip * Clip * den
    THEN [cold |-> FALSE, num |-> Clip * Clip, den |-> 1]
    ELSE [cold |-> FALSE, num |-> num, den |-> den]

AnomalyScore(b, x) ==
    IF Len(b.sessions) < ColdStart THEN ColdScore
    ELSE IF b.variance = 0 THEN Clipped(0, 1)
    ELSE Clipped(Deviation(b, x) * Deviation(b, x), b.variance)
=============================================================================
