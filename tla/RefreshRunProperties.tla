------------------------ MODULE RefreshRunProperties ------------------------
(***************************************************************************)
(* What RefreshRun promises: the invariants and action properties of the   *)
(* lease, the claims, the cutoffs and the result of a run, and the         *)
(* inductive invariant on which RefreshRunProofs rests.                    *)
(***************************************************************************)
EXTENDS RefreshRun

\* At most one request, over all runs and items, is in its task with a fence
\* (assert_current_refresh_attempt) that would still let it write.
SingleWriter ==
  \A v, w \in Workers :
    pc[v] = "execute" /\ pc[w] = "execute" /\ Fenced(v) /\ Fenced(w) => v = w

\* The lease of a run outlives its claims: whoever finds the lease of a running
\* run expired, and fails the run, cuts no live claim short.
LeaseCoversClaims ==
  \A r \in Runs, i \in Items :
    run[r] = "running" /\ LiveClaim(item[r][i], clock) =>
      lease.owner = r /\ lease.expires >= item[r][i].expires

\* A source item is acquired from its publisher at most MaxAttempts times, over
\* all its claims, late marks of expired claims included.
AcquisitionsBounded ==
  \A r \in Runs, i \in Items : item[r][i].acquisitions <= MaxAttempts

\* A live claim loses its token only to the request that holds it, which
\* defers it: no other claim, sweep or takeover replaces it.
LiveClaimStands ==
  [][\A r \in Runs, i \in Items :
       LiveClaim(item[r][i], clock) /\ item'[r][i].token # item[r][i].token =>
         \E w \in Workers :
           /\ pc[w] = "defer" /\ pc'[w] = "idle"
           /\ job[w].run = r /\ job[w].item = i
           /\ job[w].claim = item[r][i].token]_vars

\* The data of an item is never overwritten by an older claim than the one
\* that wrote it last.
NoStaleWrite ==
  [][\A r \in Runs, i \in Items : written'[r][i] >= written[r][i]]_vars

\* A run ends with no item in the air: none claimed, none pending but the
\* deferred, none failed that this run would still retry (unless the run was
\* abandoned), and "succeeded" means that every item did.
EndsSettled ==
  \A r \in Runs : run[r] \in Terminal =>
    /\ \A i \in Items :
         /\ item[r][i].status # "claimed"
         /\ item[r][i].status = "pending" => item[r][i].deferred
         /\ item[r][i].status = "failed" /\ Retryable(item[r][i], i) =>
              result[r][i] = "none"
    /\ run[r] = "succeeded" =>
         \A i \in Items : item[r][i].status = "succeeded" /\ result[r][i] = "ok"

\* Without POST /api/refresh, a running run owns the lease row, live or
\* expired; so two runs are never running at once.
RunningOwnsLease ==
  Legacy = {} => \A r \in Runs : run[r] = "running" => lease.owner = r

\* The macro score is computed at the cutoff of the derived snapshots.
SharedCutoff ==
  \A r \in Runs : cutoff[r].macro # 0 => cutoff[r].macro = cutoff[r].derived

\* The result of a run that was finalized says of every item what its row says,
\* the deferred ones included, and leaves none out.
ResultMatchesItems ==
  \A r \in Runs, i \in Items :
    result[r][i] # "none" =>
      /\ result[r][i] = "ok" <=> item[r][i].status = "succeeded"
      /\ result[r][i] = "error" <=> item[r][i].status = "failed"
      /\ result[r][i] = "skipped" <=> item[r][i].status = "skipped"
      /\ result[r][i] = "partial" <=> item[r][i].status \in {"partial", "pending"}

-----------------------------------------------------------------------------
(* The inductive invariant behind the theorems of RefreshRunProofs *)

Claiming == {"prepare", "execute", "defer", "complete"}

\* A request works on an existing run, with a time that has been.
JobsKnown ==
  \A w \in Workers :
    /\ job[w].now <= clock
    /\ pc[w] # "idle" => job[w].run \in Runs
    /\ pc[w] \notin {"idle", "start"} => run[job[w].run] # "absent"

\* A request holds a claim of its item; while that claim is the item's current
\* one, the item is claimed and has an acquisition left for it to mark.
ClaimHeld(w) ==
  pc[w] \in Claiming =>
    LET row == item[job[w].run][job[w].item]
    IN /\ 0 < job[w].claim /\ job[w].claim <= row.attempt
       /\ row.token = job[w].claim =>
            /\ row.status = "claimed"
            /\ pc[w] \in {"prepare", "execute"} /\ ~job[w].marked =>
                 row.acquisitions < MaxAttempts
ClaimsHeld == \A w \in Workers : ClaimHeld(w)

ClaimsDistinct ==
  \A v, w \in Workers :
    /\ v # w /\ pc[v] \in Claiming /\ pc[w] \in Claiming
    /\ job[v].run = job[w].run /\ job[v].item = job[w].item
    => job[v].claim # job[w].claim

ClaimedIsRunning ==
  \A r \in Runs, i \in Items : item[r][i].status = "claimed" => run[r] = "running"

OneLiveClaim ==
  \A r \in Runs, i, j \in Items :
    LiveClaim(item[r][i], clock) /\ LiveClaim(item[r][j], clock) => i = j

\* The lease that advance renewed still covers the claim it goes on to take.
NextClaimCovered(w) ==
  pc[w] = "claim" /\ run[job[w].run] = "running" /\ job[w].now + ClaimTime > clock =>
    lease.owner = job[w].run /\ lease.expires >= job[w].now + ClaimTime
LeaseCoversNextClaim == \A w \in Workers : NextClaimCovered(w)

WrittenByAClaim ==
  \A r \in Runs, i \in Items : written[r][i] <= item[r][i].attempt

\* The inductive invariant: it makes SingleWriter inductive by following every
\* claim from the lease that allows it to the fence that ends it.
FencingInv ==
  /\ TypeOK /\ JobsKnown /\ ClaimsHeld /\ ClaimsDistinct /\ ClaimedIsRunning
  /\ OneLiveClaim /\ LeaseCoversClaims /\ LeaseCoversNextClaim
  /\ AcquisitionsBounded /\ WrittenByAClaim
=============================================================================
