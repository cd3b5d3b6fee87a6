---------------------------- MODULE MCPointInTime ----------------------------
(* A calendar of two-day months and two-month years, eight components and     *)
(* four sets of events, each of which brings one family of cases about.       *)
EXTENDS PointInTimeProperties

Component(key, dimension, kind, source) ==
  [key |-> key, dimension |-> dimension, kind |-> kind, source |-> source,
   lower |-> dimension # "external", daily |-> kind = "snapshot" /\ source = None,
   credit |-> dimension = "credit", freshness |-> 4]

Ibc == "ibc_br_sa"

MCComponents ==
  {Component(Account, "external", "level", Account),
   Component(Coverage, "external", "snapshot", Idp),
   Component(RealRate, "monetary", "snapshot", None),
   Component(Slope, "monetary", "snapshot", None),
   Component(Spread, "credit", "snapshot", Credit),
   Component("ibc_br_sa_yoy", "activity", "percent", Ibc),
   Component("dbgg_yoy_pp", "fiscal", "difference", Balance),
   Component("abs_focus_12m_target", "inflation", "target", Focus)}

MCMinimumValid ==
  [d \in {c.dimension : c \in MCComponents} |-> IF d = "external" THEN 2 ELSE 1]

Obs(series, period, dim, value) ==
  [series |-> series, period |-> period, dim |-> dim, value |-> value]

\* A rebuilt month of the yearly change, imported before.
StoredRow(month, value, at) ==
  [component |-> "ibc_br_sa_yoy", month |-> month, value |-> value,
   formula |-> PlainFormula, fetched |-> at, inputs |-> <<>>]

NoEvents == [known |-> {}, observations |-> {}, prices |-> {}, identities |-> {},
             instruments |-> {}, values |-> {}, keys |-> {}, day |-> 0, lastDay |-> 0, lastInstant |-> 8]

\* Two revisions of the current account; after one of them it is not negative.
Revisions ==
  [NoEvents EXCEPT !.known = {Obs(Idp, 0, 0, 6), Obs(Account, 0, 0, -2)},
                   !.observations = {Obs(Account, 0, 0, 1), Obs(Account, 0, 0, -3)},
                   !.keys = {Coverage}]

\* Months pass: the credit rate of a month whose Selic comes later, a yearly
\* change, a target rule that is seen late, and stored months of the reference
\* history, of which one has two values.
MonthsPass ==
  [NoEvents EXCEPT !.known = {Obs(Credit, 0, 0, 30), Obs(Selic, 1, 0, 10), Obs(Ibc, 0, 0, 50),
                              Obs(Balance, 0, 0, 2), Obs(Balance, 4, 0, 3),
                              Obs(Focus, 4, 0, 5)},
                   !.observations = {Obs(Credit, 4, 0, 33), Obs(Target, 0, 1, 1)},
                   !.values = {StoredRow(0, 5, 1), StoredRow(0, 6, 1), StoredRow(1, 7, 1),
                               StoredRow(1, 8, 0)},
                   !.keys = {Spread, BalanceChange, TargetDistance},
                   !.day = 4, !.lastDay = 6, !.lastInstant = 6]

\* A priced day of the reference ledger with its instrument, a second price that
\* disagrees, an identity that the instrument has not, and today's curve, which
\* is revised, and expectation.
Price(day, symbol, maturity, rate, hash) ==
  [day |-> day, symbol |-> symbol, maturity |-> maturity, rate |-> rate, hash |-> hash,
   security |-> None]

Instrument(report, security, maturity, hash) ==
  [report |-> report, symbol |-> 1, security |-> security, fin |-> security,
   maturity |-> maturity, start |-> None, end |-> None, hash |-> hash]

IdentityOf(security) == [day |-> 0, symbol |-> 1, hash |-> 1, security |-> security]

Reconstruction ==
  [NoEvents EXCEPT !.known = {Obs(Focus, 0, 0, 3), Obs(Focus, 2, 0, 4), Obs(DI, 2, 6, 9)},
                   !.observations = {Obs(DI, 2, 6, 7)},
                   !.identities = {IdentityOf(2)},
                   !.prices = {Price(0, 1, 4, 8, 1), Price(0, 1, 4, 7, 2)},
                   !.instruments = {Instrument(0, 1, 4, 1)},
                   !.keys = {RealRate},
                   !.day = 2, !.lastDay = 2]

\* One price file, two instruments of its symbol and two identities for the file.
Identities ==
  [NoEvents EXCEPT !.known = {Obs(DI, 0, 4, 8), Obs(DI, 0, 8, 9)},
                   !.prices = {Price(0, 1, 4, 8, 1)},
                   !.identities = {IdentityOf(1), IdentityOf(2)},
                   !.instruments = {Instrument(0, 1, 4, 1), Instrument(0, 2, 5, 2)},
                   !.keys = {Slope}, !.lastInstant = 7]

MCFeeds == {Revisions, MonthsPass, Reconstruction, Identities}
MCRules == <<[rule |-> 1, from |-> 0, to |-> None, center |-> 3]>>
MCCurrentRules == {1}
MCSymmetry == Permutations(Cycles)
MCInverted == {}

=============================================================================
