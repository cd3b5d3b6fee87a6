----------------------------- MODULE SgsArchive -----------------------------
(***************************************************************************)
(* The archive half of the SGS incremental plan: which historical windows a *)
(* run fetches again (src/backend/db/sgs_refresh_plan.py), and how a window *)
(* comes to count as covered.                                              *)
(*                                                                         *)
(* A run freezes at most Cap archive units, one per series.  A unit's      *)
(* observations and its commit receipt are one transaction, the coverage   *)
(* receipt, the unit's status and the cursor another; a request may die    *)
(* before, between or after the two, and a second attempt finds what the   *)
(* first one left.  Every run is of a day of its own, and a day is as long *)
(* as its run.  The recent units cover nothing and are left out.           *)
(***************************************************************************)
EXTENDS Integers, FiniteSets

CONSTANTS
  Codes,         \* series codes
  LastWindow,    \* archive windows (calendar years) of a series
  Aged,          \* day -> windows that have left the recent scope by then
  Days,          \* number of daily runs
  Cap,           \* MAX_ARCHIVE_UNITS_PER_RUN
  ReverifyDays,  \* ARCHIVE_REVERIFY_DAYS
  PendingLimit,  \* rows pending_archive_units reads
  MaxAttempts,   \* MAX_WORK_ITEM_ATTEMPTS
  Old,           \* code -> window an older policy left pending (NoWindow: none)
  Failing        \* series whose downloads may fail

NoWindow == -1
Windows == 1 .. LastWindow
Runs == 0 .. Days       \* run 0 was planned under an older policy

ASSUME SgsAssumption ==
  /\ Codes \subseteq Nat \ {0} /\ IsFiniteSet(Codes) /\ Failing \subseteq Codes
  /\ LastWindow \in Nat /\ Days \in Nat \ {0} /\ Cap \in Nat
  /\ ReverifyDays \in Nat \ {0} /\ PendingLimit \in Nat /\ MaxAttempts \in Nat \ {0}
  /\ Aged \in [1 .. Days -> 0 .. LastWindow]
  /\ \A d \in 2 .. Days : Aged[d - 1] <= Aged[d]
  /\ Old \in [Codes -> Windows \cup {NoWindow, 0}]

VARIABLES
  day,       \* the run of the day; 0 before the first, Days + 1 after the last
  plan,      \* sgs_refresh_plan_units: run -> code -> unit
  commits,   \* sgs_unit_commits of today's run: code -> attempts that committed
  coverage,  \* sgs_coverage_receipts: run -> codes with a receipt
  cursor,    \* sgs_archive_cursors.last_series_code, 0 for none
  item,      \* work items of today's units: code -> status, attempt
  stage,     \* what the request of a unit does next ("idle": nobody works on it)
  outcome    \* refresh_attempt_lifecycle of today: code -> attempt -> terminal_outcome

vars == <<day, plan, commits, coverage, cursor, item, stage, outcome>>
books == <<plan, commits, coverage, cursor>>

Attempts == 1 .. MaxAttempts
Roles == {"archive_backfill", "archive_reconcile"}
NoUnit == [window |-> NoWindow, role |-> "archive_backfill", status |-> "none"]
Unit(w, role) == [window |-> w, role |-> role, status |-> "reserved"]
HasUnit(r, c) == plan[r][c].window # NoWindow

-----------------------------------------------------------------------------
(* build_sgs_plan *)

\* Earlier in the lexicographic order of the sort keys.
Before(s, t) ==
  \E k \in DOMAIN s : s[k] < t[k] /\ \A j \in 1 .. k - 1 : s[j] = t[j]

\* The elements of S that fewer than n elements come before.
Leading(S, n, Key(_)) ==
  {x \in S : Cardinality({y \in S : Before(Key(y), Key(x))}) < n}

\* pending_archive_units: units of any run without a receipt of that run.
Pending ==
  {u \in Runs \X Codes : /\ HasUnit(u[1], u[2]) /\ plan[u[1]][u[2]].status = "reserved"
                         /\ u[2] \notin coverage[u[1]]}

PendingUnits ==
  LET Key(u) == <<plan[u[1]][u[2]].window, u[2], u[1]>>
  IN Leading(Pending, PendingLimit, Key)

\* A window is an archive window of day d once it has aged out of the recent
\* scope, and while it is not before the series' documented start.
Archived(w, d) == 1 <= w /\ w <= Aged[d]

\* An intent is carried over if its window is one of today's: of each series the
\* oldest, and of the series the lowest.
Carryable_Prehistoric(u, d) == plan[u[1]][u[2]].window <= Aged[d]
Carryable(u, d) == Archived(plan[u[1]][u[2]].window, d)

Carried(d) ==
  LET intents == {u \in PendingUnits : Carryable(u, d)}
      Key(u) == <<plan[u[1]][u[2]].window, u[1]>>
      oldest == {u \in intents : \A v \in intents : v[2] = u[2] => ~Before(Key(v), Key(u))}
      Series(u) == <<u[2]>>
  IN Leading(oldest, Cap, Series)

\* Runs whose receipt covers window w of series c.
Proofs(c, w) == {r \in Runs : c \in coverage[r] /\ plan[r][c].window = w}
Verified(c, w) == Proofs(c, w) # {}
DueDay(c, w) ==
  (CHOOSE r \in Proofs(c, w) : \A q \in Proofs(c, w) : q <= r) + ReverifyDays

Candidates(d) ==
  {x \in Codes \X Windows :
     Archived(x[2], d) /\ (Verified(x[1], x[2]) => DueDay(x[1], x[2]) <= d)}

\* Unverified windows lead, then the longest due; the series after the cursor
\* come before those up to it.
Rank_VerifiedLead(x) ==
  <<IF Verified(x[1], x[2]) THEN 0 ELSE 1,
    IF Verified(x[1], x[2]) THEN DueDay(x[1], x[2]) ELSE 0,
    IF x[1] <= cursor THEN 1 ELSE 0, x[1], x[2]>>
Rank(x) ==
  <<IF Verified(x[1], x[2]) THEN 1 ELSE 0,
    IF Verified(x[1], x[2]) THEN DueDay(x[1], x[2]) ELSE 0,
    IF x[1] <= cursor THEN 1 ELSE 0, x[1], x[2]>>

\* The best window of each series that carries nothing over, up to the cap.
Selected(carried, d) ==
  LET free == {x \in Candidates(d) : \A u \in carried : u[2] # x[1]}
      best == {x \in free : \A y \in free : x[1] = y[1] => ~Before(Rank(y), Rank(x))}
  IN Leading(best, Cap - Cardinality(carried), Rank)

\* The units of a day: intents again, and windows anew.
Again(u) == [code |-> u[2], unit |-> Unit(plan[u[1]][u[2]].window, plan[u[1]][u[2]].role)]
Anew(x) ==
  [code |-> x[1],
   unit |-> Unit(x[2], IF Verified(x[1], x[2]) THEN "archive_reconcile" ELSE "archive_backfill")]

Units(d) ==
  LET carried == Carried(d)
  IN {Again(u) : u \in carried} \cup {Anew(x) : x \in Selected(carried, d)}

Built(d) ==
  LET units == Units(d)
  IN [c \in Codes |-> IF \E u \in units : u.code = c
                      THEN (CHOOSE u \in units : u.code = c).unit ELSE NoUnit]

-----------------------------------------------------------------------------
(* A day's run *)

Settled == {"succeeded", "failed"}
FreshItem == [status |-> "pending", attempt |-> 0]
Unopened == [a \in Attempts |-> "none"]

DayDone == \A c \in Codes : HasUnit(day, c) => item[c].status \in Settled

\* Yesterday's run has settled its items; today's is planned and frozen.
StartDay ==
  /\ day < Days
  /\ DayDone
  /\ day' = day + 1
  /\ plan' = [plan EXCEPT ![day + 1] = Built(day + 1)]
  /\ item' = [c \in Codes |-> FreshItem]
  /\ outcome' = [c \in Codes |-> Unopened]
  /\ commits' = [c \in Codes |-> {}]
  /\ UNCHANGED <<coverage, cursor, stage>>

\* reconcile_expired_refresh_attempts: an attempt whose claim expired while
\* nothing was recorded of its end is given the outcome its receipts prove.
Reconciled(c) ==
  [a \in Attempts |->
     IF outcome[c][a] # "open" THEN outcome[c][a]
     ELSE IF a \in commits[c] THEN "committed" ELSE "outcome_unknown"]

\* A claim of the unit, after an earlier one expired or failed for a while;
\* execute_refresh_item looks for a commit of this run before it fetches.
NextStage_Blind(c) == "fetch"
NextStage(c) == IF commits[c] # {} THEN "promote" ELSE "fetch"

Claim(c) ==
  /\ day \in 1 .. Days /\ HasUnit(day, c)
  /\ item[c].status \notin Settled /\ item[c].attempt < MaxAttempts
  /\ \A b \in Codes : stage[b] = "idle"
  /\ item' = [item EXCEPT ![c] = [status |-> "claimed", attempt |-> item[c].attempt + 1]]
  /\ stage' = [stage EXCEPT ![c] = NextStage(c)]
  /\ outcome' = [outcome EXCEPT ![c] =
       [Reconciled(c) EXCEPT ![item[c].attempt + 1] = "open"]]
  /\ UNCHANGED <<day, books>>

\* Observations and unit commit, one transaction.
Commit(c) ==
  /\ stage[c] = "fetch"
  /\ commits' = [commits EXCEPT ![c] = commits[c] \cup {item[c].attempt}]
  /\ stage' = [stage EXCEPT ![c] = "cover"]
  /\ UNCHANGED <<day, plan, coverage, cursor, item, outcome>>

\* record_verified_coverage, for an exact commit of this run; once.
Cover(c) ==
  /\ coverage' = [coverage EXCEPT ![day] = coverage[day] \cup {c}]
  /\ plan' = [plan EXCEPT ![day] =
       [plan[day] EXCEPT ![c] = [plan[day][c] EXCEPT !.status = "verified"]]]
  /\ cursor' = IF c \in coverage[day] THEN cursor ELSE c

CoverCommit_Early(c) ==
  /\ stage[c] \in {"fetch", "cover"}
  /\ Cover(c)
  /\ stage' = [stage EXCEPT ![c] = IF stage[c] = "fetch" THEN "fetch" ELSE "settle"]
  /\ UNCHANGED <<day, commits, item, outcome>>
CoverCommit(c) ==
  /\ stage[c] = "cover"
  /\ commits[c] # {}
  /\ Cover(c)
  /\ stage' = [stage EXCEPT ![c] = "settle"]
  /\ UNCHANGED <<day, commits, item, outcome>>

Close(c, how) ==
  outcome' = [outcome EXCEPT ![c] = [@ EXCEPT ![item[c].attempt] = how]]
Becomes(c, status) == item' = [item EXCEPT ![c] = [@ EXCEPT !.status = status]]

Settle(c) ==
  /\ stage[c] = "settle"
  /\ Becomes(c, "succeeded")
  /\ Close(c, "completed")
  /\ stage' = [stage EXCEPT ![c] = "idle"]
  /\ UNCHANGED <<day, books>>

\* A prior commit is promoted without a request.  The result has no
\* error_code, which _completion reads: the item keeps its claim.
Promote(c) ==
  /\ stage[c] = "promote"
  /\ Cover(c)
  /\ Close(c, "completed")
  /\ stage' = [stage EXCEPT ![c] = "idle"]
  /\ UNCHANGED <<day, commits, item>>

\* The download fails, or the coverage transaction: for good or for this attempt.
Fail(c) ==
  /\ stage[c] \in {"fetch", "cover"} /\ c \in Failing
  /\ \/ Becomes(c, "failed")
     \/ item[c].attempt < MaxAttempts /\ Becomes(c, "pending")
  /\ Close(c, "completed")
  /\ stage' = [stage EXCEPT ![c] = "idle"]
  /\ UNCHANGED <<day, books>>

\* The request dies: its claim expires, its attempt stays open or is recorded
\* as unknown on the way out.  The last attempt of a sound series does not.
Die(c) ==
  /\ stage[c] # "idle"
  /\ item[c].attempt < MaxAttempts \/ c \in Failing
  /\ stage' = [stage EXCEPT ![c] = "idle"]
  /\ \/ UNCHANGED outcome
     \/ Close(c, "outcome_unknown")
  /\ UNCHANGED <<day, books, item>>

\* An expired claim at the attempt limit.
Sweep(c) ==
  /\ item[c].status = "claimed" /\ stage[c] = "idle" /\ item[c].attempt = MaxAttempts
  /\ Becomes(c, "failed")
  /\ UNCHANGED <<day, books, stage, outcome>>

-----------------------------------------------------------------------------
Init ==
  /\ day = 0
  /\ plan = [r \in Runs |-> [c \in Codes |->
       IF r = 0 /\ Old[c] # NoWindow THEN Unit(Old[c], "archive_backfill") ELSE NoUnit]]
  /\ commits = [c \in Codes |-> {}]
  /\ coverage = [r \in Runs |-> {}]
  /\ cursor = 0
  /\ item = [c \in Codes |-> [status |-> "failed", attempt |-> 0]]
  /\ stage = [c \in Codes |-> "idle"]
  /\ outcome = [c \in Codes |-> Unopened]

Work(c) ==
  \/ Claim(c) \/ Commit(c) \/ CoverCommit(c) \/ Settle(c) \/ Promote(c) \/ Sweep(c)

Next == StartDay \/ \E c \in Codes : Work(c) \/ Fail(c) \/ Die(c)

Spec == Init /\ [][Next]_vars

-----------------------------------------------------------------------------
(* Properties *)

\* _validate_v3_plan_scopes: what a run froze can be read back, whatever
\* intents were left to it; a plan that cannot fails every item of its run.
PlanReads ==
  \A d \in 1 .. Days :
    /\ Cardinality({c \in Codes : HasUnit(d, c)}) <= Cap
    /\ \A c \in Codes : HasUnit(d, c) => Archived(plan[d][c].window, d)

\* "Only a frozen unit and a matching [...] receipt can become verified archive
\* coverage": a verified unit has its commit, and the unit's row, its receipt
\* and what the planner takes for covered say the same.
CoverageProven ==
  \A c \in Codes :
    /\ c \in coverage[day] => commits[c] # {}
    /\ \A r \in Runs : plan[r][c].status = "verified" <=> c \in coverage[r]

\* "Durable receipt reconciliation remains ahead of new acquisition": a unit is
\* committed by one attempt of its run, whatever died in between.
CommittedOnce == \A c \in Codes : Cardinality(commits[c]) <= 1

\* "unverified scopes ahead of verified-due scopes and series rotation": by the
\* end of the last run every archive window of a series that downloads is
\* covered, however the others fail and whatever intents they left.
AllCovered ==
  day = Days /\ DayDone =>
    \A c \in Codes \ Failing, w \in Windows : Archived(w, Days) => Verified(c, w)

-----------------------------------------------------------------------------
(* The inductive invariant *)

UnitType ==
  [window : Windows \cup {NoWindow, 0}, role : Roles, status : {"none", "reserved", "verified"}]

\* The type invariant of the tables and of the requests.
TypeOK ==
  /\ day \in Runs
  /\ plan \in [Runs -> [Codes -> UnitType]]
  /\ commits \in [Codes -> SUBSET Attempts]
  /\ coverage \in [Runs -> SUBSET Codes]
  /\ cursor \in Codes \cup {0}
  /\ item \in [Codes -> [status : {"pending", "claimed"} \cup Settled, attempt : 0 .. MaxAttempts]]
  /\ stage \in [Codes -> {"idle", "fetch", "cover", "settle", "promote"}]
  /\ outcome \in [Codes -> [Attempts ->
       {"none", "open", "completed", "outcome_unknown", "committed"}]]

\* Nothing is planned, and nothing covered, for a day to come.
Unplanned == \A r \in Runs : r > day => coverage[r] = {} /\ \A c \in Codes : plan[r][c] = NoUnit

\* A request works on a claimed unit of today, and knows whether it committed.
Working(c) ==
  stage[c] # "idle" =>
    /\ day >= 1 /\ HasUnit(day, c)
    /\ item[c].status = "claimed" /\ item[c].attempt >= 1
    /\ stage[c] = "fetch" <=> commits[c] = {}

ArchiveInv ==
  /\ TypeOK /\ Unplanned /\ PlanReads /\ CoverageProven /\ CommittedOnce
  /\ \A c \in Codes : Working(c)
=============================================================================
