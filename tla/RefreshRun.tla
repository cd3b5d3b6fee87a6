----------------------------- MODULE RefreshRun -----------------------------
(***************************************************************************)
(* The resumable daily refresh (manifest daily-refresh-v6): the database   *)
(* rows of src/backend/db/refresh_run_*.py and the HTTP handlers of        *)
(* src/backend/refresh_run_execution.py that move them.                    *)
(*                                                                         *)
(* A run freezes an ordered list of work items.  A caller advances one     *)
(* named item per request; the request resumes the run (renewing the one   *)
(* global lease), claims the item, executes it, settles the claim and      *)
(* tries to finalize the run.  Each of those is one transaction, and other *)
(* requests, crashes and the passing of time fall between any two.         *)
(*                                                                         *)
(* The claim token (a uuid) is modelled by the number of the claim it was  *)
(* drawn for: attempt and claim_generation are incremented by the same     *)
(* UPDATE that draws the token, and by no other.  Time 0 stands for NULL.  *)
(*                                                                         *)
(* An operator named X_Y above X is X with the mistake Y: the project's    *)
(* mutation runs put it in X's place to see the properties notice.         *)
(***************************************************************************)
EXTENDS Integers

CONSTANTS
  Runs,          \* run identifiers that callers may start
  Legacy,        \* owners of the non-resumable POST /api/refresh
  Workers,       \* concurrent requests (server processes)
  Scopes,        \* publisher scopes of the source circuit breaker
  None,          \* no owner, no scope, no run
  NumItems,      \* length of the frozen manifest
  Kind,          \* Items -> "source" | "rules" | "derived" | "macro"
  ScopeOf,       \* Items -> Scopes, None for the phase items
  MaxAttempts,   \* MAX_WORK_ITEM_ATTEMPTS
  LeaseTime,     \* LEASE_SECONDS
  ClaimTime,     \* _CLAIM_SECONDS
  CoolTime,      \* longest publisher cooldown the model lets happen
  MaxClock       \* bound on the modelled time

Items  == 1 .. NumItems
Kinds  == {"source", "rules", "derived", "macro"}
IsPhase(i) == Kind[i] # "source"

ASSUME ItemsAssumption ==
  /\ NumItems \in Nat \ {0}
  /\ Kind \in [Items -> Kinds]
  /\ ScopeOf \in [Items -> Scopes \cup {None}]
  /\ \A i \in Items : IsPhase(i) <=> ScopeOf[i] = None

ASSUME OwnersAssumption ==
  /\ None \notin Runs \cup Legacy \cup Scopes
  /\ Runs \cap Legacy = {}

ASSUME TimesAssumption ==
  /\ MaxAttempts \in Nat \ {0}
  /\ ClaimTime \in Nat \ {0}
  /\ LeaseTime \in Nat
  /\ ClaimTime <= LeaseTime      \* 600 s <= 1800 s
  /\ CoolTime \in Nat \ {0}
  /\ MaxClock \in Nat \ {0}

VARIABLES
  clock,    \* UTC time, read by every transaction
  lease,    \* the refresh_leases row 'daily_refresh'
  run,      \* refresh_runs.state ("absent" before the row exists)
  item,     \* refresh_work_items
  cutoff,   \* refresh_runs.derived_cutoff, macro_cutoff
  result,   \* refresh_runs.final_result, per item
  written,  \* the claim that last wrote an item's data (history)
  cool,     \* source_access_state: until when a scope is ineligible
  legacy,   \* whether an owner of POST /api/refresh is executing
  pc,       \* the next transaction of a worker's request
  job       \* the local variables of that request

\* The rows of the run tables, and what is outside them.
dbVars == <<lease, run, item, cutoff, result, written>>
envVars == <<clock, cool, legacy>>
vars == <<clock, lease, run, item, cutoff, result, written, cool, legacy, pc, job>>

-----------------------------------------------------------------------------
(* Types *)

Terminal == {"succeeded", "partial", "failed"}
RunStates == {"absent", "running"} \cup Terminal
Done == {"succeeded", "partial", "skipped"}
Statuses == {"pending", "claimed", "failed"} \cup Done
Reports == {"none", "ok", "partial", "error", "skipped", "omitted"}

ItemRow ==
  [status : Statuses, attempt : Nat, acquisitions : Nat, token : Nat,
   expires : Nat, nextAttempt : Nat, deferred : BOOLEAN, transient : BOOLEAN]

FreshRow ==
  [status |-> "pending", attempt |-> 0, acquisitions |-> 0, token |-> 0,
   expires |-> 0, nextAttempt |-> 0, deferred |-> FALSE, transient |-> FALSE]

Steps ==
  {"idle", "start", "resume", "claim", "prepare", "execute", "defer",
   "complete", "read", "renew", "finalize"}

Job ==
  [run : Runs \cup {None}, item : Items, now : Nat, claim : Nat,
   marked : BOOLEAN, allFailed : BOOLEAN, cutoff : Nat,
   outcome : Statuses, transient : BOOLEAN, retryAt : Nat,
   view : [Items -> Reports]]

NoJob ==
  [run |-> None, item |-> 1, now |-> 0, claim |-> 0,
   marked |-> FALSE, allFailed |-> FALSE, cutoff |-> 0,
   outcome |-> "pending", transient |-> FALSE, retryAt |-> 0,
   view |-> [i \in Items |-> "none"]]

-----------------------------------------------------------------------------
(* What the transactions read *)

Later(s, t) == IF s < t THEN t ELSE s

LeaseLive(r, n) == lease.owner = r /\ lease.expires > n

\* provider_eligibility: cool is 0 while the circuit is closed, and otherwise
\* the latest of opened_until, retry_not_before and probe_lease_until.
CoolUntil(i) == IF ScopeOf[i] = None THEN 0 ELSE cool[ScopeOf[i]]
Eligible(i, n) == CoolUntil(i) <= n

Retryable(row, i) ==
  IF IsPhase(i) THEN row.attempt < MaxAttempts
                ELSE row.transient /\ row.acquisitions < MaxAttempts

Resolved(row, i) ==
  \/ row.status \in Done
  \/ row.status = "failed" /\ ~Retryable(row, i)

LiveClaim(row, n) == row.status = "claimed" /\ row.expires > n

-----------------------------------------------------------------------------
(* create_or_resume_run: take or renew the lease, fail the run whose lease  *)
(* expired, create the run if it is new.                                    *)

\* The run whose expired lease r would take over.
Overdue(r, n) ==
  {q \in Runs \ {r} : lease.owner = q /\ lease.expires <= n /\ run[q] = "running"}

CanAcquire_Revived(r, n) ==
  /\ lease.owner \in {None, r} \/ lease.expires <= n
  /\ \A q \in Overdue(r, n), i \in Items : ~LiveClaim(item[q][i], n)
CanAcquire(r, n) ==
  /\ run[r] \notin Terminal
  /\ lease.owner \in {None, r} \/ lease.expires <= n
  /\ \A q \in Overdue(r, n), i \in Items : ~LiveClaim(item[q][i], n)

Abandoned(row) ==
  IF row.status \in {"pending", "claimed"}
    THEN [row EXCEPT !.status = "failed", !.token = 0, !.expires = 0]
    ELSE row

Acquire(r, n) ==
  /\ CanAcquire(r, n)
  /\ lease' = [owner |-> r, expires |-> Later(lease.expires, n + LeaseTime)]
  /\ run' = [q \in Runs |-> IF q = r THEN "running"
                            ELSE IF q \in Overdue(r, n) THEN "failed" ELSE run[q]]
  /\ item' = [q \in Runs |-> IF q \in Overdue(r, n)
                               THEN [i \in Items |-> Abandoned(item[q][i])]
                               ELSE item[q]]
  /\ UNCHANGED <<cutoff, result, written>>

-----------------------------------------------------------------------------
(* A request: local steps *)

Goto(w, step) == pc' = [pc EXCEPT ![w] = step]

Stop(w) == /\ pc' = [pc EXCEPT ![w] = "idle"]
           /\ job' = [job EXCEPT ![w] = NoJob]

\* A request reads the clock once and keeps that value over the steps below.
Begin(w, r, i, step) ==
  /\ pc[w] = "idle"
  /\ Goto(w, step)
  /\ job' = [job EXCEPT ![w] = [NoJob EXCEPT !.run = r, !.item = i, !.now = clock]]
  /\ UNCHANGED <<dbVars, envVars>>

\* POST /api/refresh-runs, .../{run}/advance and .../{run}/finalize.
BeginStart(w, r) == Begin(w, r, 1, "start")
BeginAdvance(w, r, i) == run[r] # "absent" /\ Begin(w, r, i, "resume")
BeginFinalize(w, r) == run[r] = "running" /\ Begin(w, r, 1, "renew")

StartRun(w) ==
  /\ pc[w] = "start"
  /\ Acquire(job[w].run, job[w].now)
  /\ Stop(w)
  /\ UNCHANGED envVars

\* execute_refresh_item on the snapshot: no phase runs on failed sources alone.
SourcesFailed(r) ==
  LET sources == {j \in Items : ~IsPhase(j)}
  IN sources # {} /\ \A j \in sources : item[r][j].status = "failed"

\* advance_refresh_run renews the lease, then looks at the expected item.
ResumeRun(w) ==
  LET r == job[w].run
      i == job[w].item
  IN /\ pc[w] = "resume"
     /\ run[r] = "running"
     /\ Acquire(r, job[w].now)
     /\ IF Resolved(item[r][i], i)
          THEN Goto(w, "renew") /\ job' = [job EXCEPT ![w].item = 1]
          ELSE /\ Goto(w, "claim")
               /\ job' = [job EXCEPT ![w].cutoff = IF IsPhase(i) THEN cutoff[r].derived ELSE 0,
                                      ![w].allFailed = IsPhase(i) /\ SourcesFailed(r)]
     /\ UNCHANGED envVars

-----------------------------------------------------------------------------
(* claim_next_work_item for the expected item *)

\* Claims that expired at the attempt limit are failed first.
Swept(row, n) ==
  IF row.status = "claimed" /\ row.attempt >= MaxAttempts /\ row.expires <= n
    THEN [row EXCEPT !.status = "failed", !.token = 0, !.expires = 0]
    ELSE row

SweptRows(r, n) == [j \in Items |-> Swept(item[r][j], n)]

Due(row, i, n) ==
  /\ row.acquisitions < MaxAttempts
  /\ row.status \in {"pending", "failed", "claimed"}
  /\ row.status = "failed" => Retryable(row, i)
  /\ row.nextAttempt <= n

\* Earlier rows that hold i back: a runnable one holds back every item, a
\* deferred one only the phases.
Waiting(rows, j, n) == ~Resolved(rows[j], j) /\ rows[j].nextAttempt > n
Runnable(rows, j, n) ==
  ~Resolved(rows[j], j) /\ rows[j].nextAttempt <= n /\ Eligible(j, n)
Holding(rows, i, n) ==
  {j \in 1 .. i - 1 : \/ Runnable(rows, j, n)
                      \/ IsPhase(i) /\ Waiting(rows, j, n)}
\* next_attempt_at of the first row that holds i back, if that row waits.
Prerequisite(rows, i, n) ==
  LET held == Holding(rows, i, n)
      first == {j \in held : \A k \in held : j <= k}
  IN {t \in {rows[j].nextAttempt : j \in first} : t > n}

\* The transaction may look for an item at all.
MayClaim(w) ==
  LET r == job[w].run
      n == job[w].now
  IN /\ pc[w] = "claim"
     /\ run[r] = "running"
     /\ LeaseLive(r, n)

NoActiveClaim_AtExpiry(rows, n) == \A j \in Items : ~LiveClaim(rows[j], n + ClaimTime)
NoActiveClaim(rows, n) == \A j \in Items : ~LiveClaim(rows[j], n)

ClaimGranted(w) ==
  LET r == job[w].run
      i == job[w].item
      n == job[w].now
      rows == SweptRows(r, n)
      claim == rows[i].attempt + 1
  IN /\ MayClaim(w)
     /\ NoActiveClaim(rows, n)
     /\ Due(rows[i], i, n)
     /\ Eligible(i, n)
     /\ Holding(rows, i, n) = {}
     /\ item' = [item EXCEPT ![r] = [rows EXCEPT ![i] =
          [@ EXCEPT !.status = "claimed", !.attempt = claim, !.token = claim,
                    !.expires = n + ClaimTime, !.nextAttempt = 0, !.deferred = FALSE]]]
     /\ job' = [job EXCEPT ![w].claim = claim]
     /\ Goto(w, IF Kind[i] \in {"derived", "macro"} /\ ~job[w].allFailed
                THEN "prepare" ELSE "execute")
     /\ UNCHANGED <<lease, run, cutoff, result, written, envVars>>

\* A cooling publisher defers the item, a deferred source defers the phase.
ClaimDeferred(w) ==
  LET r == job[w].run
      i == job[w].item
      n == job[w].now
      rows == SweptRows(r, n)
      Defer(t) == [rows EXCEPT ![i].nextAttempt = t, ![i].deferred = TRUE]
  IN /\ MayClaim(w)
     /\ NoActiveClaim(rows, n)
     /\ Due(rows[i], i, n)
     /\ \/ /\ ~Eligible(i, n)
           /\ rows[i].status \in {"pending", "failed"}
           /\ item' = [item EXCEPT ![r] = Defer(CoolUntil(i))]
        \/ /\ Eligible(i, n)
           /\ IsPhase(i)
           /\ rows[i].status = "pending" /\ ~rows[i].deferred
           /\ \E t \in Prerequisite(rows, i, n) :
                item' = [item EXCEPT ![r] = Defer(t)]
     /\ Stop(w)
     /\ UNCHANGED <<lease, run, cutoff, result, written, envVars>>

\* No claim: the sweep alone is committed.
ClaimDenied(w) ==
  LET r == job[w].run
      i == job[w].item
      n == job[w].now
      rows == SweptRows(r, n)
  IN /\ MayClaim(w)
     /\ \/ ~NoActiveClaim(rows, n)
        \/ ~Due(rows[i], i, n)
        \/ ~Eligible(i, n) /\ rows[i].status = "claimed"
        \/ /\ Eligible(i, n)
           /\ Holding(rows, i, n) # {}
           /\ ~ /\ IsPhase(i) /\ Prerequisite(rows, i, n) # {}
                /\ rows[i].status = "pending" /\ ~rows[i].deferred
     /\ item' = [item EXCEPT ![r] = rows]
     /\ Stop(w)
     /\ UNCHANGED <<lease, run, cutoff, result, written, envVars>>

-----------------------------------------------------------------------------
(* execute_refresh_item, under the claim *)

\* assert_current_refresh_attempt, the fence of every data transaction.
Fenced_AnyToken(w) ==
  /\ item[job[w].run][job[w].item].expires > clock
  /\ run[job[w].run] = "running"
  /\ LeaseLive(job[w].run, clock)
Fenced(w) ==
  LET row == item[job[w].run][job[w].item]
  IN /\ row.token = job[w].claim
     /\ row.attempt = job[w].claim
     /\ row.expires > clock
     /\ run[job[w].run] = "running"
     /\ LeaseLive(job[w].run, clock)

\* The derived and macro phases first persist their cutoff, write-once.  The
\* macro cutoff is the derived cutoff of the snapshot read before the claim.
MayPersist(w) ==
  LET r == job[w].run
  IN /\ run[r] = "running"
     /\ LeaseLive(r, job[w].now)
     /\ Kind[job[w].item] = "macro" =>
          /\ job[w].cutoff # 0 /\ cutoff[r].derived # 0
          /\ job[w].cutoff >= cutoff[r].derived

CutoffOf(w) == IF Kind[job[w].item] = "macro" THEN job[w].cutoff ELSE job[w].now

Persisted(old, new) == IF old = 0 THEN new ELSE old

PersistCutoff(w) ==
  LET r == job[w].run
      c == CutoffOf(w)
  IN /\ pc[w] = "prepare"
     /\ MayPersist(w)
     /\ cutoff' = IF Kind[job[w].item] = "macro"
                    THEN [cutoff EXCEPT ![r].macro = Persisted(@, c)]
                    ELSE [cutoff EXCEPT ![r].derived = Persisted(@, c)]
     /\ lease' = [lease EXCEPT !.expires = Later(@, job[w].now + LeaseTime)]
     /\ Goto(w, "execute")
     /\ UNCHANGED <<run, item, result, written, job, envVars>>

\* mark_refresh_acquisition_started: once per claim, before the first request.
MarkAcquisition(w) ==
  LET r == job[w].run
      i == job[w].item
      row == item[r][i]
  IN /\ pc[w] = "execute"
     /\ ~IsPhase(i) /\ ~job[w].marked
     /\ row.status = "claimed"
     /\ row.token = job[w].claim /\ row.attempt = job[w].claim
     /\ row.expires > clock
     /\ item' = [item EXCEPT ![r][i].acquisitions = @ + 1]
     /\ job' = [job EXCEPT ![w].marked = TRUE]
     /\ UNCHANGED <<lease, run, cutoff, result, written, pc, envVars>>

\* execute_transaction: the item's observations or snapshots.
CommitData(w) ==
  LET r == job[w].run
      i == job[w].item
  IN /\ pc[w] = "execute"
     /\ IsPhase(i) => ~job[w].allFailed
     /\ Fenced(w)
     /\ written' = [written EXCEPT ![r][i] = job[w].claim]
     /\ UNCHANGED <<lease, run, item, cutoff, result, pc, job, envVars>>

\* The task returns; record_refresh_task_finish checks the fence once more.  A
\* transient category is that of a request, which was marked before it left.
Settling(w) == [NoJob EXCEPT !.run = job[w].run, !.item = job[w].item, !.claim = job[w].claim]

Outcome(w, status, transient, step) ==
  /\ Goto(w, step)
  /\ job' = [job EXCEPT ![w] = [Settling(w) EXCEPT !.outcome = status, !.transient = transient]]

TaskReturns(w) ==
  LET i == job[w].item
  IN /\ pc[w] = "execute"
     /\ Fenced(w)
     /\ \/ /\ ~IsPhase(i)
           /\ \/ \E s \in {"succeeded", "partial"} : Outcome(w, s, FALSE, "complete")
              \/ \E t \in {FALSE, job[w].marked} : Outcome(w, "failed", t, "complete")
        \/ /\ IsPhase(i) /\ ~job[w].allFailed
           /\ \E s \in {"succeeded", "failed"} : Outcome(w, s, FALSE, "complete")
        \/ /\ IsPhase(i) /\ job[w].allFailed
           /\ Outcome(w, "skipped", FALSE, "complete")
     /\ UNCHANGED <<dbVars, envVars>>

\* CircuitOpen or RetryDeferred, with the time the publisher asks to wait for.
TaskPostponed(w) ==
  /\ pc[w] = "execute"
  /\ ~IsPhase(job[w].item)
  /\ Fenced(w)
  /\ \E t \in clock + 1 .. clock + CoolTime, b \in {FALSE, job[w].marked} :
       job' = [job EXCEPT ![w] = [Settling(w) EXCEPT !.retryAt = t, !.transient = b]]
  /\ Goto(w, "defer")
  /\ UNCHANGED <<dbVars, envVars>>

-----------------------------------------------------------------------------
(* Settling the claim and finalizing the run *)

\* The WHERE clause of defer_work_item_claim and complete_work_item_claim.
Current(w) ==
  LET row == item[job[w].run][job[w].item]
  IN /\ row.status = "claimed"
     /\ row.token = job[w].claim
     /\ row.expires > clock
     /\ run[job[w].run] = "running"
     /\ LeaseLive(job[w].run, clock)

DeferClaim(w) ==
  LET r == job[w].run
      i == job[w].item
  IN /\ pc[w] = "defer"
     /\ job[w].retryAt > clock
     /\ Current(w)
     /\ item' = [item EXCEPT ![r][i] =
          [@ EXCEPT !.status = "pending", !.token = 0, !.expires = 0,
                    !.nextAttempt = job[w].retryAt, !.deferred = TRUE,
                    !.transient = job[w].transient]]
     /\ Stop(w)
     /\ UNCHANGED <<lease, run, cutoff, result, written, envVars>>

CompleteClaim(w) ==
  LET r == job[w].run
      i == job[w].item
  IN /\ pc[w] = "complete"
     /\ Current(w)
     /\ item' = [item EXCEPT ![r][i] =
          [@ EXCEPT !.status = job[w].outcome, !.transient = job[w].transient]]
     /\ Goto(w, "read")
     /\ UNCHANGED <<lease, run, cutoff, result, written, job, envVars>>

\* get_refresh_run and a second reading of the clock.
ReadBack(w) ==
  /\ pc[w] = "read"
  /\ Goto(w, "renew")
  /\ job' = [job EXCEPT ![w] = [Settling(w) EXCEPT !.item = 1, !.now = clock]]
  /\ UNCHANGED <<dbVars, envVars>>

\* _final_result: what the snapshot says of each item.
Report_NoDeferral(row) ==
  CASE row.status = "succeeded" -> "ok"
    [] row.status = "partial"   -> "partial"
    [] row.status = "failed"    -> "error"
    [] row.status = "skipped"   -> "skipped"
    [] OTHER -> "omitted"
Report(row) ==
  CASE row.status = "succeeded" -> "ok"
    [] row.status = "partial"   -> "partial"
    [] row.status = "failed"    -> "error"
    [] row.status = "skipped"   -> "skipped"
    [] row.status = "pending" /\ row.deferred -> "partial"
    [] OTHER -> "omitted"

\* _final_state, which reads the same statuses.
Verdict(view) ==
  IF \A i \in Items : view[i] = "ok" THEN "succeeded"
  ELSE IF \A i \in Items : view[i] \in {"error", "skipped"} THEN "failed"
  ELSE "partial"

RenewRun(w) ==
  LET r == job[w].run
  IN /\ pc[w] = "renew"
     /\ run[r] = "running"
     /\ Acquire(r, job[w].now)
     /\ job' = [job EXCEPT ![w].view = [i \in Items |-> Report(item[r][i])]]
     /\ Goto(w, "finalize")
     /\ UNCHANGED envVars

CanFinalize_Retryable(r, n, verdict) ==
  /\ LeaseLive(r, n)
  /\ run[r] = "running"
  /\ \A i \in Items :
       /\ item[r][i].status # "claimed"
       /\ item[r][i].status = "pending" => item[r][i].deferred
  /\ verdict = "succeeded" => \A i \in Items : item[r][i].status = "succeeded"
CanFinalize(r, n, verdict) ==
  /\ LeaseLive(r, n)
  /\ run[r] = "running"
  /\ \A i \in Items :
       /\ item[r][i].status # "claimed"
       /\ item[r][i].status = "pending" => item[r][i].deferred
       /\ item[r][i].status = "failed" => ~Retryable(item[r][i], i)
  /\ verdict = "succeeded" => \A i \in Items : item[r][i].status = "succeeded"

FinalizeRun(w) ==
  LET r == job[w].run
      verdict == Verdict(job[w].view)
  IN /\ pc[w] = "finalize"
     /\ CanFinalize(r, job[w].now, verdict)
     /\ run' = [run EXCEPT ![r] = verdict]
     /\ result' = [result EXCEPT ![r] = job[w].view]
     /\ lease' = [owner |-> None, expires |-> 0]
     /\ Stop(w)
     /\ UNCHANGED <<item, cutoff, written, envVars>>

-----------------------------------------------------------------------------
(* A request that is refused, raises or is killed leaves no trace of its own *)

MayRenew(w) ==
  run[job[w].run] = "running" /\ CanAcquire(job[w].run, job[w].now)

Refused(w) ==
  \/ pc[w] = "start" /\ ~CanAcquire(job[w].run, job[w].now)
  \/ pc[w] \in {"resume", "renew"} /\ ~MayRenew(w)
  \/ pc[w] = "claim" /\ ~MayClaim(w)
  \/ pc[w] = "prepare" /\ ~MayPersist(w)
  \/ pc[w] = "execute" /\ ~Fenced(w)
  \/ pc[w] = "defer" /\ ~(job[w].retryAt > clock /\ Current(w))
  \/ pc[w] = "complete" /\ ~Current(w)
  \/ /\ pc[w] = "finalize"
     /\ ~CanFinalize(job[w].run, job[w].now, Verdict(job[w].view))

Return(w) == Refused(w) /\ Stop(w) /\ UNCHANGED <<dbVars, envVars>>
Crash(w) == pc[w] # "idle" /\ Stop(w) /\ UNCHANGED <<dbVars, envVars>>

-----------------------------------------------------------------------------
(* POST /api/refresh: one owner holds the lease, a thread renews it, the    *)
(* tasks run without a claim.                                               *)

unchangedByLegacy == <<clock, cool, run, item, cutoff, result, written, pc, job>>

LegacyAcquire(d) ==
  /\ legacy[d] = "idle"
  /\ lease.owner = None \/ lease.expires <= clock
  /\ lease' = [owner |-> d, expires |-> clock + LeaseTime]
  /\ legacy' = [legacy EXCEPT ![d] = "executing"]
  /\ UNCHANGED unchangedByLegacy

\* The heartbeat asks for the owner only, not whether the lease is still live.
LegacyHeartbeat(d) ==
  /\ legacy[d] = "executing"
  /\ lease.owner = d
  /\ lease' = [lease EXCEPT !.expires = clock + LeaseTime]
  /\ UNCHANGED <<legacy, unchangedByLegacy>>

LegacyRelease_AnyOwner(d) ==
  /\ legacy[d] = "executing"
  /\ lease' = [owner |-> None, expires |-> 0]
  /\ legacy' = [legacy EXCEPT ![d] = "idle"]
  /\ UNCHANGED unchangedByLegacy
LegacyRelease(d) ==
  /\ legacy[d] = "executing"
  /\ lease' = IF lease.owner = d THEN [owner |-> None, expires |-> 0] ELSE lease
  /\ legacy' = [legacy EXCEPT ![d] = "idle"]
  /\ UNCHANGED unchangedByLegacy

LegacyCrash(d) ==
  /\ legacy[d] = "executing"
  /\ legacy' = [legacy EXCEPT ![d] = "idle"]
  /\ UNCHANGED <<lease, unchangedByLegacy>>

-----------------------------------------------------------------------------
(* The environment: time passes, requests anywhere open and close circuits *)

Tick ==
  /\ clock < MaxClock
  /\ clock' = clock + 1
  /\ UNCHANGED <<dbVars, cool, legacy, pc, job>>

PublisherCools(s) ==
  /\ \E t \in clock + 1 .. clock + CoolTime : cool' = [cool EXCEPT ![s] = t]
  /\ UNCHANGED <<dbVars, clock, legacy, pc, job>>

PublisherRecovers(s) ==
  /\ cool[s] # 0
  /\ cool' = [cool EXCEPT ![s] = 0]
  /\ UNCHANGED <<dbVars, clock, legacy, pc, job>>

-----------------------------------------------------------------------------
Init ==
  /\ clock = 1
  /\ lease = [owner |-> None, expires |-> 0]
  /\ run = [r \in Runs |-> "absent"]
  /\ item = [r \in Runs |-> [i \in Items |-> FreshRow]]
  /\ cutoff = [r \in Runs |-> [derived |-> 0, macro |-> 0]]
  /\ result = [r \in Runs |-> [i \in Items |-> "none"]]
  /\ written = [r \in Runs |-> [i \in Items |-> 0]]
  /\ cool = [s \in Scopes |-> 0]
  /\ legacy = [d \in Legacy |-> "idle"]
  /\ pc = [w \in Workers |-> "idle"]
  /\ job = [w \in Workers |-> NoJob]

Request(w) ==
  \/ \E r \in Runs : BeginStart(w, r) \/ BeginFinalize(w, r)
  \/ \E r \in Runs, i \in Items : BeginAdvance(w, r, i)

Transaction(w) ==
  \/ StartRun(w) \/ ResumeRun(w)
  \/ ClaimGranted(w) \/ ClaimDeferred(w) \/ ClaimDenied(w)
  \/ PersistCutoff(w) \/ MarkAcquisition(w) \/ CommitData(w)
  \/ TaskReturns(w) \/ TaskPostponed(w)
  \/ DeferClaim(w) \/ CompleteClaim(w)
  \/ ReadBack(w) \/ RenewRun(w) \/ FinalizeRun(w)
  \/ Return(w) \/ Crash(w)

LegacyStep(d) ==
  LegacyAcquire(d) \/ LegacyHeartbeat(d) \/ LegacyRelease(d) \/ LegacyCrash(d)

Next ==
  \/ Tick
  \/ \E s \in Scopes : PublisherCools(s) \/ PublisherRecovers(s)
  \/ \E d \in Legacy : LegacyStep(d)
  \/ \E w \in Workers : Request(w) \/ Transaction(w)

Spec == Init /\ [][Next]_vars
-----------------------------------------------------------------------------
(* The type invariant *)

\* The type invariant: every row and every local variable of a request stays
\* in the range its column or its Python type gives it.
TypeOK ==
  /\ clock \in Nat
  /\ lease \in [owner : Runs \cup Legacy \cup {None}, expires : Nat]
  /\ run \in [Runs -> RunStates]
  /\ item \in [Runs -> [Items -> ItemRow]]
  /\ cutoff \in [Runs -> [derived : Nat, macro : Nat]]
  /\ result \in [Runs -> [Items -> Reports]]
  /\ written \in [Runs -> [Items -> Nat]]
  /\ cool \in [Scopes -> Nat]
  /\ legacy \in [Legacy -> {"idle", "executing"}]
  /\ pc \in [Workers -> Steps]
  /\ job \in [Workers -> Job]
=============================================================================
