------------------------ MODULE PointInTimeProperties ------------------------
(* What the calculations promise of the past they were made of.              *)
EXTENDS PointInTime

\* A write stamped by the cutoff became visible between two instants.
LateWrite(cutoff, from, to) ==
  \E v \in vintages : v.seen =< cutoff.at /\ v.id > from /\ v.id =< to

\* A snapshot of an earlier or equal cutoff was stored between two instants.
LateSnapshot(keys, cutoff, from, to) ==
  \E s \in derived : /\ s.key \in keys /\ s.asOf.at =< cutoff.at
                     /\ s.created > from /\ s.created =< to

\* Between two instants a price that was known at a cutoff was given an identity.
LateIdentity(cutoff, from, to) ==
  \E i \in ledger.identities, p \in ledger.prices :
    /\ SameFile(i, p) /\ p.fetched =< cutoff.at
    /\ i.captured > from /\ i.captured =< to

(* A cycle that computes an indicator again at its cutoff, after a failure or *)
(* a restart, finds what it found: two snapshots of one cutoff come only of a *)
(* write that was stamped before the cutoff and committed between them or,    *)
(* for the real rate, of another snapshot stored or of an identity captured   *)
(* between them.                                                             *)
RetryRepeats ==
  \A s, t \in derived :
    s.key = t.key /\ s.asOf = t.asOf /\ s.created < t.created =>
      \/ LateWrite(s.asOf, s.created, t.created)
      \/ /\ s.key = RealRate
         /\ \/ LateSnapshot({RealRate}, s.asOf, s.created, t.created - 1)
            \/ LateIdentity(s.asOf, s.created, t.created)

(* A score computed again at its cycle's cutoff is the same score unless such *)
(* a write or identity came between or the cycle itself stored an indicator   *)
(* meanwhile: what other cycles compute after the cutoff never enters.       *)
ScoreRepeats ==
  \A p, q \in scores :
    p.asOf = q.asOf /\ p.calculated < q.calculated =>
      \/ LateWrite(p.asOf, p.calculated, q.calculated)
      \/ LateIdentity(p.asOf, p.calculated, q.calculated)
      \/ \E s \in derived : /\ s.cycle = p.cycle
                            /\ s.created > p.calculated /\ s.created < q.calculated

(* Once a reference was computed and found to have no value, a score made     *)
(* after it does not use an earlier value of the same reference.             *)
NoResurrection ==
  \A p \in scores, c \in Components : c.kind = "snapshot" =>
    \A point \in p.components[c.key].history : \A s \in derived :
      (/\ \A i \in point.inputs : i[1] # Rebuilt
       /\ s.key = c.key /\ s.ref = point.ref /\ s.value = None
       /\ s.created =< p.asOf.at)
      => \E t \in derived : /\ t.key = c.key /\ t.ref = point.ref /\ t.value = point.value
                            /\ SnapshotKey(t) # SnapshotKey(s)
                            /\ ~Before(SnapshotKey(t), SnapshotKey(s))
                            /\ t.created =< p.calculated

\* The score's own revision of a shared observation, and the one its derived
\* component read.
ReadBy(p, key, series) ==
  LET point == p.components[key].current
  IN  IF point = None THEN {} ELSE {i[2] : i \in {j \in point.inputs : j[2].series = series}}

OwnSnapshot(p, key) ==
  \E s \in derived : s.key = key /\ s.cycle = p.cycle /\ s.created < p.calculated

(* The current account enters a score twice, as a level and inside the        *)
(* external coverage: both are the same revision, unless a late write came or *)
(* the cycle failed to compute the coverage and the score took an older one.  *)
SameRevision ==
  \A p \in scores :
    \A v \in ReadBy(p, Account, Account), w \in ReadBy(p, Coverage, Account) :
      \/ v = w
      \/ LateWrite(p.asOf, p.asOf.at, p.calculated)
      \/ ~OwnSnapshot(p, Coverage)

----------------------------------------------------------------------------
ContractsNow(day) ==
  ContractsForDate(KnownPrices(ledger.prices, ledger.identities, Stamp), day,
                   KnownInstruments(ledger.instruments, Stamp))

PricedDays == {p.day : p \in ledger.prices}

Quotes(day) == IF ContractsNow(day) = None THEN {}
               ELSE {<<c.symbol, c.maturity, c.rate>> : c \in ContractsNow(day)}

(* An import never gives a contract of a rebuilt curve another maturity or    *)
(* another rate: whatever disagrees with it takes the curve of the day away.  *)
NeverRepriced ==
  [][\A day \in PricedDays : \A q \in Quotes(day), r \in Quotes(day)' :
       q[1] = r[1] => q = r]_cycleVars

=============================================================================
