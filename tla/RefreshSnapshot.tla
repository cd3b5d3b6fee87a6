--------------------------- MODULE RefreshSnapshot ---------------------------
(***************************************************************************)
(* What a reader makes of a run's rows without claiming anything: the work *)
(* src/backend/routes/refresh_runs.py offers in a status document, and the *)
(* item src/backend/refresh_run_client.py picks from it.  Both repeat the  *)
(* rules of claim_next_work_item, in other words and over rows read        *)
(* earlier.                                                                *)
(***************************************************************************)
EXTENDS RefreshRun

-----------------------------------------------------------------------------
(* What a snapshot offers: _due_work_item_key and next_due_at *)

Unsettled(row, i) ==
  /\ row.acquisitions < MaxAttempts
  /\ row.status \in {"pending", "failed"}
  /\ row.status = "failed" => Retryable(row, i)

\* The projection's own copy of the claim's rule on earlier items.
Blocks_Overtaken(rows, j, i, n) ==
  /\ Unsettled(rows[j], j) /\ rows[j].nextAttempt <= n /\ Eligible(j, n)
Blocks(rows, j, i, n) ==
  /\ Unsettled(rows[j], j)
  /\ IF rows[j].nextAttempt > n THEN IsPhase(i) ELSE Eligible(j, n)

Offered(rows, i, n) ==
  /\ Unsettled(rows[i], i) /\ rows[i].nextAttempt <= n /\ Eligible(i, n)
  /\ \A j \in 1 .. i - 1 : ~Blocks(rows, j, i, n)

Least(S) == CHOOSE t \in S : \A u \in S : t <= u

DueItem(rows, n) ==
  LET offered == {i \in Items : Offered(rows, i, n)}
  IN IF offered = {} \/ \E i \in Items : rows[i].status = "claimed" THEN 0
     ELSE Least(offered)

NextDue(rows, n) ==
  LET times == {Later(rows[i].nextAttempt, IF Eligible(i, n) THEN 0 ELSE CoolUntil(i)) :
                  i \in {j \in Items : Unsettled(rows[j], j)}} \ {0}
  IN IF times = {} THEN 0 ELSE Least(times)

\* The status document of run r, built at time n.
SnapshotOf(r, n) ==
  [state |-> run[r], rows |-> item[r],
   due |-> DueItem(item[r], n), next |-> NextDue(item[r], n)]

NoSnapshot ==
  [state |-> "absent", rows |-> [i \in Items |-> FreshRow], due |-> 0, next |-> 0]

-----------------------------------------------------------------------------
(* What the client makes of it: _next_item, _active_claim *)

Candidate(row, i, n) ==
  /\ row.acquisitions < MaxAttempts /\ row.nextAttempt <= n
  /\ \/ row.status \in {"pending", "claimed"}
     \/ row.status = "failed" /\ Retryable(row, i)

NextItem(snap, n) ==
  LET found == {i \in Items : Candidate(snap.rows[i], i, n)}
  IN IF found = {} THEN 0
     ELSE IF snap.due \in found THEN snap.due ELSE Least(found)

-----------------------------------------------------------------------------
(* The rules agree *)

\* What claim_next_work_item would grant at this instant.
Claimable(r, i) ==
  LET rows == SweptRows(r, clock)
  IN NoActiveClaim(rows, clock) /\ Due(rows[i], i, clock) /\ Eligible(i, clock)
       /\ Holding(rows, i, clock) = {}

\* An item with every acquisition spent and no verdict; the claim lets it hold
\* back the items after it, the projection does not.
Spent(row, i) == row.acquisitions >= MaxAttempts /\ ~Resolved(row, i)

\* "the same persisted typed category controls client selection, direct server
\* claims, due-work projection, and finalization": the item a status document
\* offers is the one the client picks and one a claim would be granted, unless a
\* spent item is before it; and the client finds no work, and finalizes, only
\* when no claim would be granted.
OneRule ==
  \A r \in Runs : run[r] = "running" =>
    LET rows == item[r]
        snap == SnapshotOf(r, clock)
        i == snap.due
    IN /\ i # 0 => /\ NextItem(snap, clock) = i
                   /\ (\A j \in 1 .. i - 1 : ~Spent(rows[j], j)) => Claimable(r, i)
       /\ NextItem(snap, clock) = 0 => \A j \in Items : ~Claimable(r, j)
=============================================================================
