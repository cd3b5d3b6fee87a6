------------------------ MODULE RefreshRunRefinement ------------------------
(***************************************************************************)
(* RefreshRun implements DailyRefresh: claims, leases and requests are     *)
(* hidden, and an item is open until complete_work_item_claim settles it.  *)
(***************************************************************************)
EXTENDS RefreshRunProperties

Settlement(row) == IF row.status \in Done THEN row.status ELSE "open"

settlement == [r \in Runs |-> [i \in Items |-> Settlement(item[r][i])]]

Daily == INSTANCE DailyRefresh
  WITH Alone <- Legacy = {}, outcome <- settlement, data <- written, report <- result

\* Whatever its requests, crashes and expiries: the tables of the refresh move
\* only as DailyRefresh says.  A run that ended and an item that was settled stay
\* as they are, data and cutoffs too; no two runs run at once unless POST
\* /api/refresh takes the lease between them; and a result that calls an item
\* ok or skipped is true of it, although another request may have gone on
\* between the reading of the snapshot and finalize_refresh_run.
ImplementsDaily == Daily!Spec

-----------------------------------------------------------------------------
(* What the refinement rests on besides FencingInv *)

\* A phase that reads a persisted cutoff before its claim reads the one that stays.
CutoffRead(w) ==
  pc[w] # "idle" /\ job[w].cutoff # 0 => job[w].cutoff = cutoff[job[w].run].derived

\* The snapshot a request is about to finalize with is still true of what it
\* calls done.
ViewTrue(w) ==
  pc[w] = "finalize" =>
    \A i \in Items :
      /\ job[w].view[i] # "none"
      /\ job[w].view[i] = "ok" => item[job[w].run][i].status = "succeeded"
      /\ job[w].view[i] = "skipped" => item[job[w].run][i].status = "skipped"

RefinementInv ==
  /\ FencingInv /\ RunningOwnsLease /\ SharedCutoff
  /\ \A w \in Workers : CutoffRead(w) /\ ViewTrue(w)
=============================================================================
