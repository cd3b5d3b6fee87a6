------------------------------ MODULE MacroScore ------------------------------
(* The monthly macro score as a function of what is known at a cutoff: the    *)
(* series of each component (its current point and its monthly history), the  *)
(* ranking of the current point in the history, the six dimensions and the    *)
(* score.  Ranks and scores are rounded down to hundredths.                  *)
(*   component [key, dimension, kind, source, lower, daily, credit, freshness] *)
(*   point     [value, ref, inputs]                                          *)
(*   series    [current (a point or None), history, reason]                   *)
EXTENDS DerivedIndicators, SequencesExt

CONSTANTS Components, MinimumValid,  \* valid components a dimension needs
          MinimumDimensions, WindowMonths, CreditAge

\* The methodology's table has one row a component, these two among them.
ASSUME ComponentsAssumption ==
  /\ \A c, d \in Components : c.key = d.key => c = d
  /\ \E c \in Components : c.key = Account /\ c.kind = "level" /\ c.source = Account
  /\ \E c \in Components : c.key = Coverage /\ c.kind = "snapshot"

WindowOf(cutoff) ==
  LET month == MonthOf(cutoff.day) IN (month - WindowMonths + 1)..month

\* The monthly credit series age by months; another monthly one by days.
StillFresh(c, ref, cutoff) ==
  IF c.credit THEN MonthOf(cutoff.day) - MonthOf(ref) \in 0..CreditAge
  ELSE c.daily \/ cutoff.day =< MonthEnd(ref) + c.freshness

----------------------------------------------------------------------------
ScoreKey(v) == <<v.period>> \o RowKey(v)

LastOfMonth(K, month) == Top({v \in K : MonthOf(v.period) = month}, ScoreKey)

Months(K) == {MonthOf(v.period) : v \in K}

\* The last revision of each month in the window.
HistoryVintages(known, cutoff) ==
  {LastOfMonth(known, m) : m \in Months(known) \cap WindowOf(cutoff)}

\* The newest reference that is not in the future, unless it is stale.
NotFuture(known, c, cutoff) ==
  {v \in LastRevisions(known) :
     /\ MonthOf(v.period) =< MonthOf(cutoff.day)
     /\ c.daily => v.period =< cutoff.day}

CurrentVintage(known, c, cutoff) ==
  LET found == NotFuture(known, c, cutoff)
      latest == CHOOSE v \in found : \A u \in found : u.period =< v.period
  IN  IF found = {} THEN [vintage |-> None, reason |-> "required_input_missing"]
      ELSE IF ~StillFresh(c, latest.period, cutoff)
        THEN [vintage |-> None, reason |-> "stale_input"]
      ELSE [vintage |-> latest, reason |-> None]

Point(value, inputs, ref) == [value |-> value, ref |-> ref, inputs |-> inputs]

\* A series from the point each vintage makes (None: none, for a reason).
SeriesFrom(now, current, points, why) ==
  [current |-> IF now.vintage = None THEN None ELSE current,
   history |-> points \ {None},
   reason |-> IF now.vintage = None THEN now.reason
              ELSE IF current = None THEN why ELSE None]

SeriesOf(now, history, PointOf(_), Why(_)) ==
  SeriesFrom(now, PointOf(now.vintage), {PointOf(v) : v \in history}, Why(now.vintage))

LevelSeries(known, c, cutoff) ==
  LET point(v) == Point(SgsValue(v), {<<c.source, v>>}, v.period)
      why(v) == None
  IN  SeriesOf(CurrentVintage(known, c, cutoff), HistoryVintages(known, cutoff), point, why)

\* Against the last revision of the month a year before, inside the window or not.
ChangeSeries(known, c, cutoff) ==
  LET lag(v) == MonthOf(v.period) - YearMonths
      before(v) == LastOfMonth(known, lag(v))
      change(v) == IF c.kind = "difference" THEN SgsValue(v) - SgsValue(before(v))
                   ELSE (Scale * SgsValue(v)) \div SgsValue(before(v)) - Scale
      lagged(v) == lag(v) \in Months(known)
      divides(v) == c.kind = "difference" \/ SgsValue(before(v)) # 0
      point(v) == IF ~lagged(v) \/ ~divides(v) THEN None
                  ELSE Point(change(v), {<<"current_value", v>>, <<"previous_value", before(v)>>},
                             v.period)
      why(v) == IF lagged(v) THEN "invalid_denominator" ELSE "historical_lag_missing"
  IN  SeriesOf(CurrentVintage(known, c, cutoff), HistoryVintages(known, cutoff), point, why)

\* Against the rule in force in the code's table, once it was seen as it stands.
TargetSeries(known, targets, c, cutoff) ==
  LET seen(day) == {v \in targets : v.value \in CurrentRuleAt(day)}
      target(day) == CHOOSE v \in seen(day) : \A u \in seen(day) : u.seen =< v.seen
      point(v) == IF seen(v.period) = {} THEN None
                  ELSE Point(Abs(SgsValue(v) - RuleOf(target(v.period)).center),
                             {<<c.source, v>>, <<"inflation_target", target(v.period)>>}, v.period)
      why(v) == IF CurrentRuleAt(v.period) = {} THEN "inflation_target_missing"
                ELSE "inflation_target_not_observed"
  IN  SeriesOf(CurrentVintage(known, c, cutoff), HistoryVintages(known, cutoff), point, why)

----------------------------------------------------------------------------
(* A derived component reads snapshots: of the other cycles those stored by   *)
(* the cutoff, and of its own cycle those of this very cutoff.               *)
IsForward_StoredAnyTime(s, cutoff, cycle) ==
  /\ s.asOf.at =< s.created /\ s.asOf.at =< cutoff.at
  /\ \A i \in s.inputs : AvailableAt(i[2]) =< s.asOf.at

IsForward(s, cutoff, cycle) ==
  /\ s.asOf.at =< s.created /\ s.asOf.at =< cutoff.at
  /\ s.created =< cutoff.at \/ (s.cycle = cycle /\ s.asOf.at = cutoff.at)
  /\ \A i \in s.inputs : AvailableAt(i[2]) =< s.asOf.at

SnapshotKey(s) == <<s.asOf.at, s.created>>

SnapshotPoint(s) == Point(s.value, s.inputs, s.ref)

SnapshotHistory_ValuedFirst(found, c, cutoff) ==
  LET windowed == {s \in found : /\ s.ref # None /\ MonthOf(s.ref) \in WindowOf(cutoff)
                                 /\ s.value # None /\ StillFresh(c, s.ref, s.asOf)}
      last == {Top({t \in windowed : t.ref = s.ref}, SnapshotKey) : s \in windowed}
  IN  {SnapshotPoint(s) : s \in
         {t \in last : \A u \in last : MonthOf(u.ref) = MonthOf(t.ref) => u.ref =< t.ref}}

\* Of each reference the last revision, then of each month the last reference
\* that has a value and was fresh when it was computed.
SnapshotHistory(found, c, cutoff) ==
  LET windowed == {s \in found : s.ref # None /\ MonthOf(s.ref) \in WindowOf(cutoff)}
      last == {Top({t \in windowed : t.ref = s.ref}, SnapshotKey) : s \in windowed}
      valid == {s \in last : s.value # None /\ StillFresh(c, s.ref, s.asOf)}
  IN  {SnapshotPoint(s) : s \in
         {t \in valid : \A u \in valid : MonthOf(u.ref) = MonthOf(t.ref) => u.ref =< t.ref}}

SeriesOfSnapshots(found, c, cutoff) ==
  LET latest == Top(found, SnapshotKey)
      reason == IF found = {} THEN "derived_snapshot_missing"
                ELSE IF latest.value = None \/ latest.ref = None
                  THEN "derived_snapshot_unavailable"
                ELSE IF ~StillFresh(c, latest.ref, cutoff) THEN "stale_input" ELSE None
  IN  [current |-> IF reason = None THEN SnapshotPoint(latest) ELSE None,
       history |-> SnapshotHistory(found, c, cutoff), reason |-> reason]

SnapshotSeries(derived, c, cutoff, cycle) ==
  SeriesOfSnapshots({s \in derived : s.key = c.key /\ IsForward(s, cutoff, cycle)}, c, cutoff)

Series(V, derived, c, cutoff, cycle) ==
  CASE c.kind = "snapshot" -> SnapshotSeries(derived, c, cutoff, cycle)
    [] c.kind = "level" -> LevelSeries(Known(V, c.source, cutoff), c, cutoff)
    [] c.kind \in {"percent", "difference"} -> ChangeSeries(Known(V, c.source, cutoff), c, cutoff)
    [] c.kind = "target" -> TargetSeries(Known(V, c.source, cutoff), Known(V, Target, cutoff),
                                         c, cutoff)

----------------------------------------------------------------------------
(* Fiftieths of the linear quantile at p/50 of a sample, both sides cut at    *)
(* them, and the midrank of the current value among what remains.            *)
Quantile(history, p) ==
  LET sorted == SetToSortSeq(history, LAMBDA a, b : a.value < b.value)
      position == (Len(sorted) - 1) * p
      at == position \div 50 + 1
      next == AtMost(at + 1, Len(sorted))
  IN  50 * sorted[at].value + (position % 50) * (sorted[next].value - sorted[at].value)

Rank(value, history) ==
  LET low == Quantile(history, 1)
      high == Quantile(history, 49)
      cut(v) == AtMost(high, AtLeast(low, 50 * v))
      below == Cardinality({p \in history : cut(p.value) < cut(value)})
      equal == Cardinality({p \in history : cut(p.value) = cut(value)})
  IN  (5000 * (2 * below + equal)) \div Cardinality(history)

Normalized(c, series) ==
  LET enough == Cardinality(series.history) >= MinHistory
      rank(value) == IF c.lower THEN 10000 - Rank(value, series.history)
                     ELSE Rank(value, series.history)
  IN  [key |-> c.key, current |-> series.current, history |-> series.history,
       reason |-> IF series.current = None THEN series.reason
                  ELSE IF enough THEN None ELSE "insufficient_history",
       score |-> IF series.current = None \/ ~enough THEN None
                 ELSE rank(series.current.value)]

----------------------------------------------------------------------------
SumOf(f) == FoldSet(LAMBDA x, total : f[x] + total, 0, DOMAIN f)

\* The mean of a dimension's scored components, None when they are too few.
DimensionScores(normalized) ==
  [d \in DOMAIN MinimumValid |->
     LET valid == {c \in Components : c.dimension = d /\ normalized[c.key].score # None}
     IN  IF Cardinality(valid) < MinimumValid[d] THEN None
         ELSE SumOf([c \in valid |-> normalized[c.key].score]) \div Cardinality(valid)]

ScoreOf(dimensions) ==
  LET valid == {d \in DOMAIN dimensions : dimensions[d] # None}
  IN  IF Cardinality(valid) < MinimumDimensions THEN None
      ELSE SumOf([d \in valid |-> dimensions[d]]) \div Cardinality(valid)

Class(score) == IF score = None THEN None ELSE AtMost(4, score \div 2000)

Totals(normalized, dimensions, score) ==
  [score |-> score, class |-> Class(score), dimensions |-> dimensions,
   components |-> normalized]

TotalsOf(normalized, dimensions) == Totals(normalized, dimensions, ScoreOf(dimensions))

Scored(normalized) == TotalsOf(normalized, DimensionScores(normalized))

ComponentScore(c, series, overlay) ==
  Normalized(c, [series EXCEPT !.history = Overlaid(c.key, @, overlay)])

Overlay(V, ledger, known, register, cutoff) ==
  OverlayRows(ledger.values, EligibleDiRows(V, known, register, cutoff),
              ledger.instruments, cutoff)

ScoreOn(V, derived, overlay, cutoff, cycle) ==
  Scored([k \in {c.key : c \in Components} |->
            ComponentScore(CHOOSE c \in Components : c.key = k,
                           Series(V, derived, CHOOSE c \in Components : c.key = k,
                                  cutoff, cycle), overlay)])

\* What a refresh computes, from the sources it loads at its cutoff.
ScoreResult(V, derived, ledger, cutoff, cycle) ==
  ScoreOn(V, derived,
          Overlay(V, ledger, KnownPrices(ledger.prices, ledger.identities, cutoff),
                  KnownInstruments(ledger.instruments, cutoff), cutoff),
          cutoff, cycle)

ScoreIdentity(s) == <<MonthOf(s.asOf.day), s.asOf.at, s.components>>

WithScore(scores, s) ==
  IF \E t \in scores : ScoreIdentity(t) = ScoreIdentity(s) THEN scores
  ELSE scores \cup {s}

=============================================================================
