------------------------------ MODULE TalkMetrics ------------------------------
(***************************************************************************)
(* calculate_metrics of backend/app/services/metrics.py: speech, silence   *)
(* and overlap of a call in one pass over its segments, which may overlap, *)
(* contain one another, have no times or end before they start.  Times are *)
(* in whole seconds.                                                       *)
(***************************************************************************)
EXTENDS Integers, Sequences, FiniteSets, SequencesExt

CONSTANTS
  MaxTurns,   \* how many segments a call has
  MaxSecond   \* the last second

ASSUME TurnsAssumption == MaxTurns \in Nat /\ MaxSecond \in Nat

Second == 0 .. MaxSecond
(* A segment without times ends before it starts.                          *)
Turn == [start : Second, end : Second]

VARIABLES
  turns,   \* the normalized segments, in order
  metrics  \* what was calculated of them

metricsVars == <<turns, metrics>>

NoMetrics == [span |-> 0, speech |-> 0, silence |-> 0, overlap |-> 0, previousEnd |-> 0]

MetricsTypeOK ==
  /\ turns \in Seq(Turn)
  /\ metrics \in [span : Nat, speech : Nat, silence : Nat, overlap : Nat, previousEnd : Nat]

MetricsInit ==
  /\ \E n \in 0 .. MaxTurns : turns \in [1 .. n -> Turn]
  /\ metrics = NoMetrics

Bigger(a, b) == IF a > b THEN a ELSE b
Smaller(a, b) == IF a < b THEN a ELSE b

(* The segments with times, sorted.                                        *)
Timed ==
  SortSeq(SelectSeq(turns, LAMBDA t : t.end >= t.start),
          LAMBDA t, u : t.start < u.start \/ (t.start = u.start /\ t.end < u.end))

(* Mutant: each segment is compared with the one before it.                *)
AddedToNeighbour(t, m) ==
  [m EXCEPT
     !.silence = @ + Bigger(0, t.start - m.previousEnd),
     !.overlap = @ + Bigger(0, Smaller(m.previousEnd, t.end) - t.start),
     !.previousEnd = t.end]

(* Mutant: the start is not compared with the latest end.                  *)
AddedSigned(t, m) ==
  [m EXCEPT
     !.silence = @ + (t.start - m.previousEnd),
     !.overlap = @ + Bigger(0, Smaller(m.previousEnd, t.end) - t.start),
     !.previousEnd = Bigger(@, t.end)]

(* One segment compared with the latest end before it.                     *)
Added(t, m) ==
  [m EXCEPT
     !.silence = @ + Bigger(0, t.start - m.previousEnd),
     !.overlap = @ + Bigger(0, Smaller(m.previousEnd, t.end) - t.start),
     !.previousEnd = Bigger(@, t.end)]

(* The sums of all segments; those of each speaker are left out.           *)
Counted(t, m) == [m EXCEPT !.speech = @ + (t.end - t.start), !.span = Bigger(@, t.end)]

Calculate ==
  /\ metrics = NoMetrics
  /\ metrics' =
       LET counted == FoldRight(Counted, Timed, NoMetrics) IN
       IF Timed = <<>> THEN counted
       ELSE FoldLeft(LAMBDA m, t : Added(t, m),
                     [counted EXCEPT !.previousEnd = Head(Timed).end], Tail(Timed))
  /\ UNCHANGED turns

MetricsSpec == MetricsInit /\ [][Calculate]_metricsVars

(***************************************************************************)
(* Properties                                                              *)
(***************************************************************************)

(* The seconds at which somebody speaks, second n lasting until n + 1.     *)
Voices(n) == {i \in DOMAIN turns : turns[i].start <= n /\ n < turns[i].end}

(* Silence and overlap from one pass are those of the seconds themselves,  *)
(* however the segments are nested: with the first start they add up to    *)
(* the span of the call (calculate_metrics).                               *)
MetricsAgree ==
  LET seconds == 0 .. MaxSecond - 1
      spoken == {n \in seconds : Voices(n) # {}}
      first == IF Timed = <<>> THEN 0 ELSE Head(Timed).start
  IN metrics # NoMetrics =>
       /\ metrics.silence = Cardinality({n \in seconds : n >= first /\ n < metrics.span} \ spoken)
       /\ metrics.overlap = metrics.speech - Cardinality(spoken)
=============================================================================
