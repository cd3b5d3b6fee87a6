-------------------------- MODULE RetrospectiveCurve --------------------------
(* The reference history rebuilt from the imported DI ledger: which contracts *)
(* a trade date offers once prices, price identities and the instrument       *)
(* register are put together, the two monthly values built from them and the  *)
(* Focus vintages, and how the rebuilt months replace a component's forward   *)
(* captured history.                                                         *)
(*   price       [day, symbol, maturity (as claimed), rate, hash, fetched,    *)
(*                security (None when the file names none)]                   *)
(*   identity    [day, symbol, hash, security, captured]                      *)
(*   instrument  [report, symbol, security, fin, maturity, start, end, hash,  *)
(*                at]                                                        *)
(*   row         [component, month, value, formula, fetched, inputs]          *)
EXTENDS Vintages

CONSTANTS Scale,        \* real rates are integers in units of 1/Scale
          MinHistory    \* months a sample needs (MINIMUM_COMPONENT_HISTORY)

RealRate == "juro_real_ex_ante_1y"
Slope == "inclinacao_di_5y_1y"
Focus == "focus"
DI == "di"
DiFormula == "macro-retrospective-di-2.0.0"
PlainFormula == "macro-retrospective-1.0.0"
Rebuilt == "retrospective_reference"

----------------------------------------------------------------------------
(* A price with what the identity table says of it: it takes the one security *)
(* every identity of its file names, and is in conflict when they disagree.   *)
SameFile(p, q) == p.day = q.day /\ p.symbol = q.symbol /\ p.hash = q.hash

WithIdentity(p, of) ==
  LET named == {i.security : i \in of}
      conflict == /\ of # {}
                  /\ \/ None \in named \/ Cardinality(named) # 1
                     \/ p.security # None /\ named # {p.security}
      security == IF of = {} THEN p.security
                  ELSE IF conflict THEN None ELSE CHOOSE s \in named : TRUE
  IN  [day |-> p.day, symbol |-> p.symbol, maturity |-> p.maturity, rate |-> p.rate,
       hash |-> p.hash, fetched |-> p.fetched, security |-> security,
       conflict |-> conflict]

\* When an identity was captured is not asked.
Identified(p, identities) == WithIdentity(p, {i \in identities : SameFile(i, p)})

KnownPrices(prices, identities, cutoff) ==
  {Identified(p, identities) :
     p \in {q \in prices : q.fetched =< cutoff.at /\ q.day =< cutoff.day}}

KnownInstruments(instruments, cutoff) == {i \in instruments : i.at =< cutoff.at}

----------------------------------------------------------------------------
Trades(i, day) ==
  /\ i.start = None \/ i.start =< day
  /\ i.end = None \/ day =< i.end

Identity(i) == <<i.security, i.fin, i.maturity, i.start, i.end>>

Candidates(symbol, security, register) ==
  {i \in register : /\ i.symbol = symbol
                    /\ security = None \/ security \in {i.fin, i.security}}

Eligible(symbol, security, day, register) ==
  {i \in Candidates(symbol, security, register) : i.maturity > day /\ Trades(i, day)}

SymbolConflict_NewestReport(revisions, symbol, day, register) ==
  \/ \E r \in revisions : r.conflict
  \/ Cardinality({<<r.security, r.rate>> : r \in revisions}) # 1

\* One symbol's revisions of a day disagree, or its instrument is not one.
SymbolConflict(revisions, symbol, day, register) ==
  LET quotes == {<<r.security, r.rate>> : r \in revisions}
      security == (CHOOSE r \in revisions : TRUE).security
  IN  \/ \E r \in revisions : r.conflict
      \/ Cardinality(quotes) # 1
      \/ /\ security # None
         /\ Cardinality({i.maturity : i \in Candidates(symbol, security, register)}) > 1
      \/ Cardinality({Identity(i) : i \in Eligible(symbol, security, day, register)}) > 1

ContractOf(revisions, symbol, day, register) ==
  LET quote == CHOOSE r \in revisions : TRUE
      eligible == Eligible(symbol, quote.security, day, register)
      instrument == CHOOSE i \in eligible : \A j \in eligible :
                      ~Before(<<-j.report, j.hash>>, <<-i.report, i.hash>>)
  IN  [day |-> day, symbol |-> symbol, maturity |-> instrument.maturity,
       rate |-> quote.rate, fetched |-> Max({r.fetched : r \in revisions}),
       security |-> IF quote.security = None THEN instrument.fin ELSE quote.security,
       instrument |-> instrument]

\* The contracts of a trade date, or None when any symbol's revisions conflict.
ContractsForDate(known, day, register) ==
  LET revisions(s) == {p \in known : p.day = day /\ p.symbol = s}
      symbols == {p.symbol : p \in {q \in known : q.day = day}}
      priced == {s \in symbols :
                   Eligible(s, (CHOOSE r \in revisions(s) : TRUE).security, day, register) # {}}
  IN  IF \E s \in symbols : SymbolConflict(revisions(s), s, day, register) THEN None
      ELSE {ContractOf(revisions(s), s, day, register) : s \in priced}

----------------------------------------------------------------------------
(* A month's two values: the reference is the earlier of its last curve and   *)
(* its last Focus observation; nothing is built when the curve of that date   *)
(* conflicts, or lacks the instrument of a contract that might be selected.   *)
FocusOf(V, month, cutoff) ==
  {v \in Known(V, Focus, cutoff) : MonthOf(v.period) = month}

Unresolved(known, day, reference, contracts) ==
  \E p \in known :
    /\ p.day = day
    /\ p.symbol \notin {c.symbol : c \in contracts}
    /\ \E horizon \in {OneYear, FiveYears} :
         Abs(p.maturity - (reference + horizon)) =< Tolerance

DiValues(month, reference, focus, one, five) ==
  LET stamp(cs) == Max({AvailableAt(focus)} \cup
                       UNION {{c.fetched, c.instrument.at} : c \in cs})
      row(component, value, cs, inputs) ==
        [component |-> component, month |-> month, reference |-> reference,
         value |-> value, formula |-> DiFormula, fetched |-> stamp(cs),
         inputs |-> inputs]
  IN  (IF one = None \/ 100 + focus.value = 0 THEN {}
       ELSE {row(RealRate, Fisher(one.rate, focus.value, Scale), {one}, <<{one}, focus>>)})
      \cup
      (IF one = None \/ five = None \/ one = five THEN {}
       ELSE {row(Slope, five.rate - one.rate, {one, five}, <<{one, five}>>)})

DiMonthValues(month, reference, focus, contracts) ==
  DiValues(month, reference, focus, ContractFor(contracts, reference, OneYear),
           ContractFor(contracts, reference, FiveYears))

DiMonthOn(month, day, usable, contracts, known) ==
  LET FocusKey(v) == <<v.period>> \o RowKey(v)
  IN  IF usable = {} \/ contracts = None \/ contracts = {} THEN {}
      ELSE IF Unresolved(known, day, day, contracts) THEN {}
      ELSE DiMonthValues(month, day, Top(usable, FocusKey), contracts)

DiMonthUpTo(month, aligned, days, focuses, known, register) ==
  LET day == Max({d \in days : d =< aligned})
  IN  IF \A d \in days : d > aligned THEN {}
      ELSE DiMonthOn(month, day, {v \in focuses : v.period =< AtMost(aligned, day)},
                     ContractsForDate(known, day, register), known)

DiMonthOf(month, days, focuses, known, register) ==
  IF days = {} \/ focuses = {} THEN {}
  ELSE DiMonthUpTo(month, AtMost(Max(days), Max({v.period : v \in focuses})),
                   days, focuses, known, register)

DiMonth(V, known, register, month, cutoff) ==
  DiMonthOf(month, {p.day : p \in {q \in known : MonthOf(q.day) = month}},
            FocusOf(V, month, cutoff), known, register)

DiRows(V, known, register, cutoff) ==
  UNION {DiMonth(V, known, register, m, cutoff) :
           m \in {MonthOf(p.day) : p \in known}}

----------------------------------------------------------------------------
(* A rebuilt row counts only while the register proves each contract in it.  *)
Proves(register, c) ==
  \E i \in register :
    /\ i.symbol = c.symbol /\ c.security \in {i.fin, i.security}
    /\ i.hash = c.instrument.hash /\ i.report = c.instrument.report
    /\ i.maturity = c.maturity /\ i.fin = c.instrument.fin
    /\ i.security = c.instrument.security /\ i.at = c.instrument.at
    /\ Trades(i, c.day)

Verified(row, register) ==
  LET contracts == row.inputs[1]
  IN  /\ \A c \in contracts : c.maturity > c.day /\ Proves(register, c)
      /\ Cardinality({c.day : c \in contracts}) = 1

\* A component's rows enter the overlay once enough of its months are verified.
EnoughMonths(rows, register) ==
  {r \in rows :
     Cardinality({q.month : q \in {p \in rows : /\ p.component = r.component
                                                /\ Verified(p, register)}}) >= MinHistory}

EligibleDiRows(V, known, register, cutoff) ==
  EnoughMonths(DiRows(V, known, register, cutoff), register)

----------------------------------------------------------------------------
(* The overlay's row of a month is its newest; two newest that differ leave   *)
(* the month out.  Stored rows come newest first, the rebuilt ones after.     *)
Chosen(rows) ==
  LET newest == {r \in rows : \A q \in rows : q.fetched =< r.fetched}
  IN  IF Cardinality(newest) = 1 THEN CHOOSE r \in newest : TRUE ELSE None

OverlayRow(stored, built) ==
  LET kept == Chosen(stored)
  IN  IF stored = {} THEN Chosen(built)
      ELSE IF kept = None THEN None
      ELSE Chosen({kept} \cup built)

OverlayRows(ledger, built, register, cutoff) ==
  LET stored == {r \in ledger : r.formula = PlainFormula /\ r.fetched =< cutoff.at}
      added == {r \in EnoughMonths(built, register) : r.fetched =< cutoff.at}
      of(rows, c, m) == {r \in rows : r.component = c /\ r.month = m}
  IN  {<<r.component, r.month,
         OverlayRow(of(stored, r.component, r.month), of(added, r.component, r.month))>> :
         r \in stored \cup added}

\* Where the overlay has any month of a component it is the whole history.
Overlaid(key, history, overlay) ==
  LET of == {o \in overlay : o[1] = key}
  IN  IF of = {} THEN history
      ELSE {[value |-> o[3].value, reference |-> FirstDay(o[2]),
             inputs |-> {<<Rebuilt, o[3]>>}] :
              o \in {p \in of : p[3] # None}}

=============================================================================
