-------------------------- MODULE DerivedIndicators --------------------------
(* The six derived indicators as functions of the vintages known at a cutoff. *)
(* A result carries the vintages it read, each under its role, the day it is  *)
(* about and, when it has no value, the reason; the real rate also carries    *)
(* the sample it is ranked in.  A builder that raises returns None.           *)
(*   result   [key, value, ref, reason, inputs, sample, basis, band]          *)
(*   snapshot [result, cycle, asOf (a cutoff), created]                       *)
EXTENDS RetrospectiveCurve

CONSTANTS TargetRules,    \* index -> [rule, from, to (None: open), center]
          CurrentRules    \* the indexes of the rules the code carries

Idp == "idp_12m_pib"
Account == "conta_corrente_12m_pib"
Balance == "saldo_primario_12m_pib"
Credit == "taxa_media_credito_pf"
Selic == "selic_meta"
Target == "inflation_target_rules"
Coverage == "cobertura_externa"
BalanceChange == "variacao_saldo_primario_12m"
Spread == "spread_credito_pf_selic"
TargetDistance == "distancia_focus_meta"

DerivedKeys == {RealRate, Coverage, BalanceChange, Spread, TargetDistance, Slope}

Result(key, value, ref, reason, inputs) ==
  [key |-> key, value |-> value, ref |-> ref, reason |-> reason, inputs |-> inputs,
   sample |-> {}, basis |-> None, band |-> None]

Unavailable(key, reason, ref, inputs) == Result(key, None, ref, reason, inputs)

----------------------------------------------------------------------------
Newest_FirstSeen(K) == LET key(v) == <<v.period, -AvailableAt(v), -v.seen, -v.value>>
                       IN  Top(K, key)

(* The newest observation, of two revisions of one stamp the one the loader   *)
(* gives first.                                                              *)
Newest(K) == LET key(v) == <<v.period, AvailableAt(v), v.seen, -v.value>>
             IN  Top(K, key)

CoverageOf(idps, accounts) ==
  LET inputs == (IF idps = {} THEN {} ELSE {<<Idp, Newest(idps)>>})
                \cup (IF accounts = {} THEN {} ELSE {<<Account, Newest(accounts)>>})
      idp == Newest(idps)
      account == Newest(accounts)
      ref == AtMost(idp.period, account.period)
  IN  IF idps = {} \/ accounts = {}
        THEN Unavailable(Coverage, "required_input_missing", None, inputs)
      ELSE IF MonthOf(idp.period) # MonthOf(account.period)
        THEN Unavailable(Coverage, "reference_month_mismatch", ref, inputs)
      ELSE IF SgsValue(account) >= 0
        THEN Unavailable(Coverage, "current_account_non_negative", ref, inputs)
      ELSE Result(Coverage, (Scale * SgsValue(idp)) \div Abs(SgsValue(account)), ref,
                  None, inputs)

CoverageResult(V, cutoff) ==
  CoverageOf(Known(V, Idp, cutoff), Known(V, Account, cutoff))

SpreadOf(credits, all) ==
  LET credit == Newest(credits)
      selics == {v \in all : MonthOf(v.period) = MonthOf(credit.period)}
      selic == Newest(selics)
  IN  IF credits = {} THEN Unavailable(Spread, "required_input_missing", None, {})
      ELSE IF selics = {}
        THEN Unavailable(Spread,
                         IF all = {} THEN "required_input_missing"
                         ELSE "reference_month_mismatch",
                         credit.period, {<<Credit, credit>>})
      ELSE Result(Spread, credit.value - selic.value, credit.period, None,
                  {<<Credit, credit>>, <<Selic, selic>>})

SpreadResult(V, cutoff) ==
  SpreadOf(Known(V, Credit, cutoff), Known(V, Selic, cutoff))

\* Of two revisions of a period published at one instant the first seen counts.
BalanceChangeOf(known) ==
  LET key(v) == <<AvailableAt(v), -v.seen, -v.value>>
      of(period) == Top({v \in known : v.period = period}, key)
      current == Max({v.period : v \in known})
      previous == current - YearMonths * MonthDays
  IN  IF known = {} THEN Unavailable(BalanceChange, "required_input_missing", None, {})
      ELSE IF previous \notin {v.period : v \in known}
        THEN Unavailable(BalanceChange, "primary_balance_previous_month_missing", current,
                         {<<"current_balance", of(current)>>})
      ELSE Result(BalanceChange, SgsValue(of(current)) - SgsValue(of(previous)), current, None,
                  {<<"current_balance", of(current)>>, <<"previous_balance", of(previous)>>})

BalanceChangeResult(V, cutoff) == BalanceChangeOf(Known(V, Balance, cutoff))

----------------------------------------------------------------------------
(* Target rules: of each rule the last revision first seen by the cutoff; two *)
(* revisions seen at once, or two rules in force on one day, raise.           *)
RuleOf(v) == TargetRules[v.value]

InForce(rule, day) == rule.from =< day /\ (rule.to = None \/ day < rule.to)

LatestRules(known) ==
  {v \in known : \A u \in known : RuleOf(u).rule = RuleOf(v).rule => u.seen =< v.seen}

Ambiguous(latest) ==
  \E u, v \in latest : u # v /\ RuleOf(u).rule = RuleOf(v).rule

CurrentRuleAt(day) == {r \in CurrentRules : InForce(TargetRules[r], day)}

TargetDistanceOf(focuses, targets) ==
  LET expected == CHOOSE v \in focuses : \A u \in focuses : u.period =< v.period
      latest == LatestRules(targets)
      applicable == {v \in latest : InForce(RuleOf(v), expected.period)}
      current == CurrentRuleAt(expected.period)
      observed == \E v \in targets, r \in current : RuleOf(v).rule = TargetRules[r].rule
      target == CHOOSE v \in applicable : TRUE
  IN  IF focuses = {} THEN Unavailable(TargetDistance, "focus_12m_missing", None, {})
      ELSE IF Ambiguous(latest) \/ Cardinality(applicable) > 1 THEN None
      ELSE IF applicable = {}
        THEN Unavailable(TargetDistance,
                         IF current = {} \/ observed THEN "inflation_target_missing"
                         ELSE "input_not_available",
                         expected.period, {<<"expected_inflation", expected>>})
      ELSE Result(TargetDistance, expected.value - RuleOf(target).center, expected.period, None,
                  {<<"expected_inflation", expected>>, <<"inflation_target", target>>})

TargetDistanceResult(V, cutoff) ==
  TargetDistanceOf(LastRevisions(Known(V, Focus, cutoff)), Known(V, Target, cutoff))

----------------------------------------------------------------------------
Contracts(K) ==
  {[day |-> v.period, maturity |-> v.dim, rate |-> v.value, vintage |-> v] : v \in K}

Curve(V, cutoff) == Contracts(LastRevisions(Known(V, DI, cutoff)))

SlopeOf(one, five, day) ==
  IF one = None \/ five = None
    THEN Unavailable(Slope, "di_contract_outside_tolerance", day, {})
  ELSE IF one = five THEN Unavailable(Slope, "di_contract_reused", day, {})
  ELSE Result(Slope, five.rate - one.rate, day, None,
              {<<"di_1y", one.vintage>>, <<"di_5y", five.vintage>>})

SlopeOn(curve, day) ==
  SlopeOf(ContractFor(curve, day, OneYear), ContractFor(curve, day, FiveYears), day)

SlopeOfCurve(contracts) ==
  LET day == Max({c.day : c \in contracts})
  IN  IF contracts = {} THEN Unavailable(Slope, "di_curve_missing", None, {})
      ELSE SlopeOn({c \in contracts : c.day = day}, day)

SlopeResult(V, cutoff) == SlopeOfCurve(Curve(V, cutoff))

\* The real rate before it is ranked.
RealRateOf(focuses, contracts) ==
  LET ref == AtMost(Max({c.day : c \in contracts}), Max({v.period : v \in focuses}))
      usable == {v \in focuses : v.period =< ref}
      expected == CHOOSE v \in usable : \A u \in usable : u.period =< v.period
      days == {d \in {c.day : c \in contracts} : d =< ref}
      di == ContractFor({c \in contracts : c.day = Max(days)}, ref, OneYear)
      focus == {<<"expected_inflation", expected>>}
      inputs == focus \cup {<<"nominal_rate", di.vintage>>}
      rate == Fisher(di.rate, expected.value, Scale)
  IN  IF focuses = {} THEN Unavailable(RealRate, "focus_12m_missing", None, {})
      ELSE IF contracts = {} THEN Unavailable(RealRate, "di_curve_missing", None, {})
      ELSE IF usable = {} THEN Unavailable(RealRate, "focus_12m_missing", ref, {})
      ELSE IF days = {} THEN Unavailable(RealRate, "di_curve_missing", ref, focus)
      ELSE IF di = None
        THEN Unavailable(RealRate, "di_contract_outside_tolerance", ref, focus)
      ELSE Result(RealRate, rate, ref, IF rate = None THEN "non_finite_result" ELSE None, inputs)

RealRateResult(V, cutoff) ==
  RealRateOf(LastRevisions(Known(V, Focus, cutoff)), Curve(V, cutoff))

----------------------------------------------------------------------------
(* The sample of the real rate: the last valued snapshot of each other        *)
(* reference, rebuilt months where no snapshot has the reference, and the     *)
(* result itself.                                                            *)
(* When a rebuilt reference survives as the last of its month the sample is   *)
(* monthly.                                                                  *)
Forward == "production_forward_captured"
Monthly == "retrospective_reference_monthly"

Usable(history, ref, cutoff) ==
  {s \in history : /\ s.key = RealRate /\ s.value # None
                   /\ s.ref \notin {None, ref} /\ s.asOf.at =< cutoff.at}

HistorySample(usable, current, rebuilt) ==
  LET key(s) == <<s.asOf.at, s.created>>
      last(ref) == Top({s \in usable : s.ref = ref}, key)
      forward == {[day |-> s.ref, value |-> last(s.ref).value, rebuilt |-> FALSE] : s \in usable}
      added == {[day |-> r.reference, value |-> r.value, rebuilt |-> TRUE] : r \in
                  {q \in rebuilt : q.reference \notin {s.ref : s \in usable}}}
      points == {p \in forward \cup added : p.day # current.ref}
                \cup {[day |-> current.ref, value |-> current.value, rebuilt |-> FALSE]}
      monthly == {p \in points : \A q \in points : MonthOf(q.day) = MonthOf(p.day)
                                                    => q.day =< p.day}
  IN  IF \E p \in monthly : p.rebuilt THEN <<Monthly, monthly>> ELSE <<Forward, points>>

InTenYears(day, cutoff) ==
  day =< cutoff.day /\ day >= cutoff.day - 10 * YearMonths * MonthDays

\* The fifth of the sample the value falls in, None below MinHistory values.
Band(sample, value) ==
  LET below == Cardinality({p \in sample : p.value < value})
      equal == Cardinality({p \in sample : p.value = value})
      size == Cardinality(sample)
  IN  IF size < MinHistory THEN None
      ELSE AtMost(4, (5 * (2 * below + equal)) \div (2 * size))

Ranked(result, chosen, cutoff) ==
  LET sample == {p \in chosen[2] : InTenYears(p.day, cutoff)}
  IN  [result EXCEPT !.sample = sample, !.basis = chosen[1],
                     !.band = Band(sample, result.value)]

Classified(result, history, cutoff, rebuilt) ==
  IF result.value = None THEN result
  ELSE Ranked(result, HistorySample(Usable(history, result.ref, cutoff), result, rebuilt), cutoff)

\* The rebuilt real rates whose every contract the register still proves.
RebuiltRates(V, known, register, cutoff) ==
  {r \in DiRows(V, known, register, cutoff) :
     r.component = RealRate /\ Verified(r, register) /\ r.fetched =< cutoff.at}

----------------------------------------------------------------------------
\* What a key's refresh computes of the vintages V, of the ledger and of the
\* snapshots already stored.
DerivedResult(key, V, ledger, history, cutoff) ==
  LET known == KnownPrices(ledger.prices, ledger.identities, cutoff)
      register == KnownInstruments(ledger.instruments, cutoff)
  IN  CASE key = RealRate -> Classified(RealRateResult(V, cutoff), history, cutoff,
                                        RebuiltRates(V, known, register, cutoff))
        [] key = Coverage -> CoverageResult(V, cutoff)
        [] key = BalanceChange -> BalanceChangeResult(V, cutoff)
        [] key = Spread -> SpreadResult(V, cutoff)
        [] key = TargetDistance -> TargetDistanceResult(V, cutoff)
        [] key = Slope -> SlopeResult(V, cutoff)

\* A snapshot's identity: its key, its cutoff and what it was computed from.
SnapshotIdentity(s) == <<s.key, s.asOf.at, s.inputs, s.basis, s.sample>>

WithSnapshot(snapshots, s) ==
  IF \E t \in snapshots : SnapshotIdentity(t) = SnapshotIdentity(s) THEN snapshots
  ELSE snapshots \cup {s}

=============================================================================
