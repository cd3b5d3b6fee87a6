----------------------------- MODULE PointInTime -----------------------------
(* Calculation cycles over a ledger that goes on being written. A source's   *)
(* write is stamped when its rows are made and visible when it commits, so a *)
(* vintage may become visible after a cutoff that its stamp precedes:        *)
(* nothing waits for the writes of the daily refresh, of an operator, of a   *)
(* canary or of a deferred source. A cycle takes its cutoff once and keeps   *)
(* it through retries and restarts; each indicator is computed and stored on *)
(* its own and may fail on its own; the score follows, whether or not they   *)
(* all succeeded. Cycles of the daily refresh may overlap those of a run.    *)
EXTENDS MacroScore

CONSTANTS Cycles,
          Feeds   \* what a behaviour may meet: a ledger to start from, source
                  \* events, indicators, a first and a last day and a last instant

ASSUME FeedsAssumption ==
  \A f \in Feeds :
    /\ f.keys \subseteq DerivedKeys /\ f.day \in Nat /\ f.lastDay \in Nat
    /\ IsFiniteSet(f.known)
    /\ \A e \in f.known \cup f.observations : {e.period, e.dim, e.value} \subseteq Int
    /\ \A e, g \in f.known \cup f.observations :   \* an SGS series has no dimension
         e.series = Account /\ g.series = Account => e.dim = g.dim
    /\ \A e \in f.known : e.period =< f.day
    /\ \A e, g \in f.known : SameObservation(e, g) => e.value = g.value
    /\ \A e \in f.prices : e.day \in Int
    /\ \A e \in f.instruments : {e.report, e.maturity, e.hash} \subseteq Int

VARIABLES now, today,  \* every event has an instant of its own
          feed,        \* the events of this behaviour
          pending,     \* vintages stamped and not committed
          vintages,
          ledger,      \* [prices, identities, instruments, values]
          cutoffs,     \* cycle -> its cutoff, None before it is taken
          derived, scores

cycleVars == <<now, today, feed, pending, vintages, ledger, cutoffs, derived, scores>>

Stamp == [at |-> now, day |-> today]

\* The row of an observation stamped and committed at two instants.
Row(e, seen, id) ==
  [series |-> e.series, period |-> e.period, dim |-> e.dim, value |-> e.value,
   published |-> None, seen |-> seen, id |-> id]

\* The ledger may hold observations from before.
CycleInit ==
  /\ now = 1
  /\ feed \in Feeds
  /\ today = feed.day
  /\ pending = {} /\ vintages = {Row(e, 0, 0) : e \in feed.known}
  /\ ledger = [prices |-> {}, identities |-> {}, instruments |-> {}, values |-> feed.values]
  /\ cutoffs = [c \in Cycles |-> None]
  /\ derived = {} /\ scores = {}

Tick == now < feed.lastInstant /\ now' = now + 1

NewDay ==
  /\ today < feed.lastDay /\ today' = today + 1
  /\ UNCHANGED <<now, feed, pending, vintages, ledger, cutoffs, derived, scores>>

\* A source answers: the rows get their stamp.  An answer with nothing new
\* would leave the ledger as it is.
Fetch(e) ==
  /\ Tick
  /\ e.period =< today
  /\ ~\E v \in pending \cup vintages : SameObservation(v, e) /\ v.value = e.value
  /\ pending' = pending \cup {Row(e, now, 0)}
  /\ UNCHANGED <<today, feed, vintages, ledger, cutoffs, derived, scores>>

CommitVintage(v) ==
  /\ Tick
  /\ pending' = pending \ {v}
  /\ vintages' = WithVintage(vintages, [v EXCEPT !.id = now])
  /\ UNCHANGED <<today, feed, ledger, cutoffs, derived, scores>>

\* The write failed, or its process died.
Lose(v) ==
  /\ pending' = pending \ {v}
  /\ UNCHANGED <<now, today, feed, vintages, ledger, cutoffs, derived, scores>>

----------------------------------------------------------------------------
(* An import puts rows into the reference ledger; what is there is kept.      *)
Add(field, row) ==
  /\ Tick
  /\ ledger' = [ledger EXCEPT ![field] = @ \cup {row}]
  /\ UNCHANGED <<today, feed, pending, vintages, cutoffs, derived, scores>>

ImportPrice(e) ==
  /\ ~\E p \in ledger.prices : SameFile(p, e)
  /\ Add("prices", [day |-> e.day, symbol |-> e.symbol, maturity |-> e.maturity,
                    rate |-> e.rate, hash |-> e.hash, fetched |-> now,
                    security |-> e.security])

ImportIdentity(e) ==
  /\ ~\E i \in ledger.identities : SameFile(i, e)
  /\ Add("identities", [day |-> e.day, symbol |-> e.symbol, hash |-> e.hash,
                        security |-> e.security, captured |-> now])

SameReport(i, j) ==
  /\ i.hash = j.hash /\ i.symbol = j.symbol
  /\ i.security = j.security /\ i.maturity = j.maturity

InstrumentRow(e) ==
  [report |-> e.report, symbol |-> e.symbol, security |-> e.security, fin |-> e.fin,
   maturity |-> e.maturity, start |-> e.start, end |-> e.end, hash |-> e.hash, at |-> now]

ImportInstrument(e) ==
  /\ ~\E i \in ledger.instruments : SameReport(i, e)
  /\ Add("instruments", InstrumentRow(e))

----------------------------------------------------------------------------
TakeCutoff(c) ==
  /\ cutoffs[c] = None
  /\ Tick
  /\ cutoffs' = [cutoffs EXCEPT ![c] = Stamp]
  /\ UNCHANGED <<today, feed, pending, vintages, ledger, derived, scores>>

Snapshot(c, result) ==
  [key |-> result.key, value |-> result.value, ref |-> result.ref, reason |-> result.reason,
   inputs |-> result.inputs, sample |-> result.sample, basis |-> result.basis,
   band |-> result.band, cycle |-> c, asOf |-> cutoffs[c], created |-> now]

\* One indicator of a cycle, at the cycle's cutoff, for the first time or again.
Derive(c, key) ==
  /\ cutoffs[c] # None
  /\ Tick
  /\ \E result \in {DerivedResult(key, vintages, ledger, derived, cutoffs[c])} \ {None} :
       derived' = WithSnapshot(derived, Snapshot(c, result))
  /\ derived' # derived
  /\ UNCHANGED <<today, feed, pending, vintages, ledger, cutoffs, scores>>

Score(c) ==
  /\ cutoffs[c] # None
  /\ Tick
  /\ \E result \in {ScoreResult(vintages, derived, ledger, cutoffs[c], c)} :
       scores' = WithScore(scores,
         [score |-> result.score, class |-> result.class, dimensions |-> result.dimensions,
          components |-> result.components, cycle |-> c, asOf |-> cutoffs[c],
          calculated |-> now])
  /\ scores' # scores
  /\ UNCHANGED <<today, feed, pending, vintages, ledger, cutoffs, derived>>

----------------------------------------------------------------------------
CycleNext ==
  \/ NewDay
  \/ \E e \in feed.observations : Fetch(e)
  \/ \E v \in pending : CommitVintage(v) \/ Lose(v)
  \/ \E e \in feed.prices : ImportPrice(e)
  \/ \E e \in feed.identities : ImportIdentity(e)
  \/ \E e \in feed.instruments : ImportInstrument(e)
  \/ \E c \in Cycles : TakeCutoff(c) \/ Score(c)
  \/ \E c \in Cycles, key \in feed.keys : Derive(c, key)

CycleSpec == CycleInit /\ [][CycleNext]_cycleVars

=============================================================================
