------------------------------ MODULE Vintages ------------------------------
(* The ledger of observation vintages and what a calculation may read of it. *)
(*                                                                          *)
(* A vintage is one revision of one observation: its series, the day it is   *)
(* about, a dimension (a DI contract's maturity, a target rule's name), the  *)
(* value (which stands for the payload's hash too), the instant the source   *)
(* says it was published (None when it says nothing), the instant it was     *)
(* first seen and its row's id, the order in which rows became visible.  A   *)
(* cutoff is an instant with the local day it falls on.  Days and instants   *)
(* are naturals; a month has MonthDays days, a year YearMonths months.       *)
EXTENDS Integers, Sequences, FiniteSets, FiniteSetsExt

CONSTANTS None, MonthDays, YearMonths,
          OneYear, FiveYears, Tolerance,  \* days to a contract's horizon
          Inverted                        \* series the catalogue inverts

ASSUME CalendarAssumption ==
  /\ {MonthDays, YearMonths, OneYear, FiveYears} \subseteq Nat \ {0}
  /\ Tolerance \in Nat

MonthOf(day) == day \div MonthDays
FirstDay(month) == month * MonthDays
MonthEnd(day) == FirstDay(MonthOf(day) + 1) - 1

(* Tuples of integers in the order of Python's tuples, and the members of a  *)
(* set with the greatest key.                                               *)
Before(a, b) == \E i \in DOMAIN a : a[i] < b[i] /\ \A j \in 1..(i - 1) : a[j] = b[j]
Top(S, Key(_)) == CHOOSE x \in S : \A y \in S : ~Before(Key(x), Key(y))
AtMost(a, b) == IF a < b THEN a ELSE b
AtLeast(a, b) == IF a < b THEN b ELSE a
Abs(n) == IF n < 0 THEN -n ELSE n

----------------------------------------------------------------------------
AvailableAt(v) == IF v.published = None THEN v.seen ELSE v.published
SameObservation(u, v) == u.series = v.series /\ u.period = v.period /\ u.dim = v.dim

\* The order of a loader's rows of one observation.
RowKey(v) == <<AvailableAt(v), v.seen, v.value>>

\* A row whose payload the ledger already holds for its observation is left out.
WithVintage(V, v) ==
  IF \E u \in V : SameObservation(u, v) /\ u.value = v.value THEN V ELSE V \cup {v}

Known_OfToday(V, series, cutoff) ==
  {v \in V : v.series = series}

Known(V, series, cutoff) ==
  {v \in V : v.series = series /\ AvailableAt(v) =< cutoff.at}

\* The last revision of every observation, as the Focus and DI loaders keep it.
LastRevisions(K) ==
  {v \in K : \A u \in K : SameObservation(u, v) => ~Before(RowKey(v), RowKey(u))}

SgsValue(v) == IF v.series \in Inverted THEN -v.value ELSE v.value

----------------------------------------------------------------------------
\* The contract nearest to a horizon, the shorter of two at one distance.
ContractFor(contracts, reference, horizon) ==
  LET target == reference + horizon
      candidates == {c \in contracts : Abs(c.maturity - target) =< Tolerance}
  IN  IF candidates = {} THEN None
      ELSE CHOOSE c \in candidates : \A d \in candidates :
             ~Before(<<Abs(d.maturity - target), d.maturity>>,
                     <<Abs(c.maturity - target), c.maturity>>)

\* Real rate after expected inflation, times Scale; None when it divides by zero.
Fisher(nominal, expected, scale) ==
  IF 100 + expected = 0 THEN None
  ELSE (scale * (100 + nominal)) \div (100 + expected) - scale

=============================================================================
