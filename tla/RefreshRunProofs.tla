-------------------------- MODULE RefreshRunProofs --------------------------
(***************************************************************************)
(* Theorems about RefreshRun, for every set of runs, workers, items and    *)
(* publishers, every length of lease, claim and cooldown.                  *)
(*                                                                         *)
(* The first part is about the lease, the claims and the attempts; the     *)
(* second about how a run ends:                                            *)
(*                                                                         *)
(*   - RefreshRun implements DailyRefresh: RefinementInv is inductive, and *)
(*     every step from a state where it holds is a step of DailyRefresh or *)
(*     changes nothing that DailyRefresh shows;                            *)
(*   - a run ends with every item settled, and its result says what its    *)
(*     rows say;                                                           *)
(*   - the status document, the client and the claim apply one rule;       *)
(*   - what the client reports of its run stands.                          *)
(***************************************************************************)
EXTENDS RefreshRunRefinement, RefreshClientProperties, FiniteSetTheorems, TLAPS

\* The assumptions on the constants, under one name.
LEMMA Constants ==
  /\ NumItems \in Nat /\ 1 \in Items /\ Items \subseteq Nat
  /\ None \notin Runs /\ None \notin Legacy /\ Runs \cap Legacy = {}
  /\ ScopeOf \in [Items -> Scopes \cup {None}]
  /\ MaxAttempts \in Nat /\ 0 < MaxAttempts
  /\ LeaseTime \in Nat /\ ClaimTime \in Nat /\ 0 < ClaimTime /\ ClaimTime <= LeaseTime
  /\ CoolTime \in Nat /\ MaxClock \in Nat
BY ItemsAssumption, OwnersAssumption, TimesAssumption DEF Items

LEMMA NoJobType == NoJob \in Job
BY Constants DEF NoJob, Job, Statuses, Done, Reports

\* Acquire writes rows of the right type.
LEMMA AbandonedType ==
  ASSUME NEW row \in ItemRow
  PROVE  Abandoned(row) \in ItemRow
BY DEF Abandoned, ItemRow, Statuses, Done

LEMMA SweptType ==
  ASSUME NEW row \in ItemRow, NEW n
  PROVE  Swept(row, n) \in ItemRow
BY DEF Swept, ItemRow, Statuses, Done

LEMMA SweptRowsType ==
  ASSUME TypeOK, NEW r \in Runs, NEW n
  PROVE  SweptRows(r, n) \in [Items -> ItemRow]
BY SweptType DEF SweptRows, TypeOK

LEMMA AcquireType ==
  ASSUME TypeOK, NEW r \in Runs, NEW n \in Nat, Acquire(r, n)
  PROVE  /\ lease' \in [owner : Runs \cup Legacy \cup {None}, expires : Nat]
         /\ run' \in [Runs -> RunStates]
         /\ item' \in [Runs -> [Items -> ItemRow]]
         /\ \A q \in Runs : run[q] # "absent" => run'[q] # "absent"
         /\ run'[r] = "running"
<1>1. lease' \in [owner : Runs \cup Legacy \cup {None}, expires : Nat]
  BY Constants DEF Acquire, TypeOK, Later
<1>2. item' \in [Runs -> [Items -> ItemRow]]
  BY AbandonedType DEF Acquire, TypeOK
<1>3. run' \in [Runs -> RunStates] /\ run'[r] = "running"
  BY DEF Acquire, TypeOK, RunStates, Terminal
<1>4. \A q \in Runs : run[q] # "absent" => run'[q] # "absent"
  BY DEF Acquire, TypeOK
<1> QED BY <1>1, <1>2, <1>3, <1>4

LEMMA ReportType ==
  ASSUME NEW row \in ItemRow
  PROVE  Report(row) \in Reports
BY DEF Report, Reports, ItemRow, Statuses, Done

-----------------------------------------------------------------------------
(* Type correctness *)

\* Every request works on a known run, at a time that has been.
Typed == TypeOK /\ JobsKnown

LEMMA TypedInit == Init => Typed
BY Constants, NoJobType
   DEF Init, Typed, TypeOK, JobsKnown, NoJob, Steps, RunStates, Reports, FreshRow, ItemRow,
       Statuses, Done

\* What the steps of a request leave to show: its new step and local variables.
LEMMA StopTyped ==
  ASSUME Typed, NEW w \in Workers, Stop(w)
  PROVE  /\ pc' \in [Workers -> Steps] /\ job' \in [Workers -> Job]
         /\ \A v \in Workers : v # w => pc'[v] = pc[v] /\ job'[v] = job[v]
         /\ pc'[w] = "idle" /\ job'[w] = NoJob
BY NoJobType DEF Stop, Typed, TypeOK, Steps

LEMMA BeginTyped ==
  ASSUME Typed, NEW w \in Workers, NEW r \in Runs, NEW i \in Items,
         NEW step \in Steps \ {"idle"}, Begin(w, r, i, step),
         step # "start" => run[r] # "absent"
  PROVE  Typed'
<1>1. [NoJob EXCEPT !.run = r, !.item = i, !.now = clock] \in Job
  BY NoJobType DEF Job, Typed, TypeOK
<1>2. pc' \in [Workers -> Steps] /\ job' \in [Workers -> Job]
  BY <1>1 DEF Begin, Goto, Typed, TypeOK
<1>3. JobsKnown'
  BY <1>1, NoJobType DEF Begin, Goto, Typed, TypeOK, JobsKnown, Job, envVars, dbVars
<1> QED BY <1>2, <1>3 DEF Typed, TypeOK, Begin, dbVars, envVars

LEMMA RequestTyped ==
  ASSUME Typed, NEW w \in Workers, Request(w)
  PROVE  Typed'
<1>1. ASSUME NEW r \in Runs, BeginStart(w, r) PROVE Typed'
  BY <1>1, BeginTyped, Constants DEF BeginStart, Steps
<1>2. ASSUME NEW r \in Runs, BeginFinalize(w, r) PROVE Typed'
  BY <1>2, BeginTyped, Constants DEF BeginFinalize, Steps
<1>3. ASSUME NEW r \in Runs, NEW i \in Items, BeginAdvance(w, r, i) PROVE Typed'
  BY <1>3, BeginTyped DEF BeginAdvance, Steps
<1> QED BY <1>1, <1>2, <1>3 DEF Request

LEMMA WorkerKnown ==
  ASSUME Typed, NEW w \in Workers, pc[w] # "idle"
  PROVE  /\ job[w] \in Job /\ job[w].run \in Runs /\ job[w].item \in Items
         /\ job[w].now \in Nat /\ job[w].now <= clock /\ job[w].claim \in Nat
BY DEF Typed, TypeOK, JobsKnown, Job

\* A step of one request keeps Typed when what it writes is of its type.
RowsTyped ==
  /\ lease \in [owner : Runs \cup Legacy \cup {None}, expires : Nat]
  /\ run \in [Runs -> RunStates]
  /\ item \in [Runs -> [Items -> ItemRow]]
  /\ cutoff \in [Runs -> [derived : Nat, macro : Nat]]
  /\ result \in [Runs -> [Items -> Reports]]
  /\ written \in [Runs -> [Items -> Nat]]

OneRequestMoves(w) ==
  /\ pc' \in [Workers -> Steps] /\ job' \in [Workers -> Job]
  /\ \A v \in Workers : v # w => pc'[v] = pc[v] /\ job'[v] = job[v]
  /\ UNCHANGED envVars
  /\ \A q \in Runs : run[q] # "absent" => run'[q] # "absent"

LEMMA StepTyped ==
  ASSUME Typed, NEW w \in Workers, OneRequestMoves(w), RowsTyped',
         job'[w].now <= clock,
         pc'[w] # "idle" => job'[w].run \in Runs,
         pc'[w] \notin {"idle", "start"} => run'[job'[w].run] # "absent"
  PROVE  Typed'
<1>1. TypeOK'
  BY DEF Typed, TypeOK, OneRequestMoves, RowsTyped, envVars
<1>2. ASSUME NEW v \in Workers
      PROVE  /\ job'[v].now <= clock'
             /\ pc'[v] # "idle" => job'[v].run \in Runs
             /\ pc'[v] \notin {"idle", "start"} => run'[job'[v].run] # "absent"
  <2>1. CASE v = w
    BY <2>1 DEF OneRequestMoves, envVars
  <2>2. CASE v # w
    <3>1. pc'[v] = pc[v] /\ job'[v] = job[v] /\ clock' = clock
      BY <2>2 DEF OneRequestMoves, envVars
    <3> QED BY <3>1 DEF Typed, JobsKnown, OneRequestMoves
  <2> QED BY <2>1, <2>2
<1> QED BY <1>1, <1>2 DEF Typed, JobsKnown

LEMMA StopMoves ==
  ASSUME Typed, NEW w \in Workers, Stop(w), UNCHANGED envVars, RowsTyped',
         \A q \in Runs : run[q] # "absent" => run'[q] # "absent"
  PROVE  Typed'
<1>1. OneRequestMoves(w) /\ pc'[w] = "idle" /\ job'[w] = NoJob
  BY StopTyped DEF OneRequestMoves
<1>2. job'[w].now <= clock
  BY <1>1 DEF NoJob, Typed, TypeOK
<1> QED BY <1>1, <1>2, StepTyped

LEMMA AcquireRows ==
  ASSUME TypeOK, NEW r \in Runs, NEW n \in Nat, Acquire(r, n)
  PROVE  RowsTyped'
BY AcquireType DEF RowsTyped, Acquire, TypeOK

LEMMA StartRunTyped ==
  ASSUME Typed, NEW w \in Workers, StartRun(w)
  PROVE  Typed'
<1>1. job[w].run \in Runs /\ job[w].now \in Nat
  BY WorkerKnown DEF StartRun
<1>2. Acquire(job[w].run, job[w].now) /\ Stop(w) /\ UNCHANGED envVars
  BY DEF StartRun
<1>3. RowsTyped' /\ \A q \in Runs : run[q] # "absent" => run'[q] # "absent"
  BY <1>1, <1>2, AcquireType, AcquireRows DEF Typed
<1> QED BY <1>2, <1>3, StopMoves

LEMMA ResumeRunTyped ==
  ASSUME Typed, NEW w \in Workers, ResumeRun(w)
  PROVE  Typed'
<1> DEFINE c == IF IsPhase(job[w].item) THEN cutoff[job[w].run].derived ELSE 0
           f == IsPhase(job[w].item) /\ SourcesFailed(job[w].run)
           resolved == [job[w] EXCEPT !.item = 1]
           unresolved == [job[w] EXCEPT !.cutoff = c, !.allFailed = f]
<1>1. /\ job[w].run \in Runs /\ job[w].now \in Nat /\ job[w].now <= clock /\ job[w] \in Job
      /\ run[job[w].run] = "running"
  BY WorkerKnown DEF ResumeRun
<1>2. Acquire(job[w].run, job[w].now) /\ UNCHANGED envVars
  BY DEF ResumeRun
<1>3. RowsTyped' /\ \A q \in Runs : run[q] # "absent" => run'[q] # "absent"
  BY <1>1, <1>2, AcquireType, AcquireRows DEF Typed
<1>4. resolved \in Job /\ resolved.run = job[w].run /\ resolved.now = job[w].now
  BY <1>1, Constants DEF Job
<1>5. unresolved \in Job /\ unresolved.run = job[w].run /\ unresolved.now = job[w].now
  <2>1. c \in Nat
    BY <1>1 DEF Typed, TypeOK
  <2>2. f \in BOOLEAN
    OBVIOUS
  <2> HIDE DEF c, f
  <2> QED BY <1>1, <2>1, <2>2 DEF Job
<1>6. job' = [job EXCEPT ![w] = resolved] \/ job' = [job EXCEPT ![w] = unresolved]
  BY DEF ResumeRun, Typed, TypeOK
<1>7. pc' \in [Workers -> Steps] /\ \A v \in Workers : v # w => pc'[v] = pc[v]
  BY ZenonT(60) DEF ResumeRun, Goto, Typed, TypeOK, Steps
<1> HIDE DEF resolved, unresolved
<1>8. /\ job' \in [Workers -> Job] /\ \A v \in Workers : v # w => job'[v] = job[v]
      /\ job'[w].run = job[w].run /\ job'[w].now = job[w].now
  BY <1>4, <1>5, <1>6 DEF Typed, TypeOK
<1>9. OneRequestMoves(w)
  BY <1>2, <1>3, <1>7, <1>8 DEF OneRequestMoves
<1> QED BY <1>1, <1>3, <1>8, <1>9, StepTyped

\* The request goes on to step s with the local variables j.
LEMMA MoveTyped ==
  ASSUME Typed, NEW w \in Workers, NEW j \in Job, NEW s \in Steps \ {"idle", "start"},
         job' = [job EXCEPT ![w] = j], pc' = [pc EXCEPT ![w] = s],
         UNCHANGED envVars, RowsTyped',
         \A q \in Runs : run[q] # "absent" => run'[q] # "absent",
         j.now <= clock, j.run \in Runs, run[j.run] # "absent"
  PROVE  Typed'
<1>1. /\ job' \in [Workers -> Job] /\ job'[w] = j
      /\ pc' \in [Workers -> Steps] /\ pc'[w] = s
      /\ \A v \in Workers : v # w => pc'[v] = pc[v] /\ job'[v] = job[v]
  BY DEF Typed, TypeOK
<1> QED BY <1>1, StepTyped DEF OneRequestMoves

LEMMA RowsKept ==
  ASSUME Typed
  PROVE  RowsTyped
BY DEF Typed, TypeOK, RowsTyped

\* The rows of one run are rewritten, nothing else is.
LEMMA ItemsMoved ==
  ASSUME Typed, NEW r \in Runs, NEW rows \in [Items -> ItemRow],
         item' = [item EXCEPT ![r] = rows],
         UNCHANGED <<lease, run, cutoff, result, written>>
  PROVE  RowsTyped'
BY DEF Typed, TypeOK, RowsTyped

LEMMA ClaimGrantedTyped ==
  ASSUME Typed, NEW w \in Workers, ClaimGranted(w)
  PROVE  Typed'
<1> DEFINE r == job[w].run
           i == job[w].item
           n == job[w].now
           rows == SweptRows(r, n)
           claim == rows[i].attempt + 1
           row == [rows[i] EXCEPT !.status = "claimed", !.attempt = claim, !.token = claim,
                      !.expires = n + ClaimTime, !.nextAttempt = 0, !.deferred = FALSE]
           s == IF Kind[i] \in {"derived", "macro"} /\ ~job[w].allFailed
                THEN "prepare" ELSE "execute"
<1>1. /\ r \in Runs /\ i \in Items /\ n \in Nat /\ n <= clock /\ job[w] \in Job
      /\ run[r] = "running"
  BY WorkerKnown DEF ClaimGranted, MayClaim
<1>2. rows \in [Items -> ItemRow]
  BY <1>1, SweptRowsType DEF Typed
<1>3. claim \in Nat
  BY <1>1, <1>2 DEF ItemRow
<1>4. item' = [item EXCEPT ![r] = [rows EXCEPT ![i] = row]]
  BY DEF ClaimGranted
<1>5. job' = [job EXCEPT ![w] = [job[w] EXCEPT !.claim = claim]]
  BY DEF ClaimGranted
<1>6. pc' = [pc EXCEPT ![w] = s] /\ UNCHANGED <<lease, run, cutoff, result, written, envVars>>
  BY DEF ClaimGranted, Goto
<1>7. s \in Steps \ {"idle", "start"}
  BY DEF Steps
<1> HIDE DEF s, claim, rows
<1>8. row \in ItemRow
  <2>1. rows[i] \in ItemRow
    BY <1>1, <1>2
  <2>2. n + ClaimTime \in Nat
    BY <1>1, Constants
  <2> QED BY <1>3, <2>1, <2>2 DEF ItemRow, Statuses
<1> HIDE DEF row
<1>9. RowsTyped'
  <2>1. [rows EXCEPT ![i] = row] \in [Items -> ItemRow]
    BY <1>1, <1>2, <1>8
  <2> QED BY <1>1, <1>4, <1>6, <2>1, ItemsMoved
<1> DEFINE j == [job[w] EXCEPT !.claim = claim]
<1>10. j \in Job /\ j.now = n /\ j.run = r
  BY <1>1, <1>3 DEF Job
<1> HIDE DEF j
<1>11. job' = [job EXCEPT ![w] = j]
  BY <1>5 DEF j
<1> QED BY <1>1, <1>6, <1>7, <1>9, <1>10, <1>11, MoveTyped

LEMMA ClaimDeferredTyped ==
  ASSUME Typed, NEW w \in Workers, ClaimDeferred(w)
  PROVE  Typed'
<1> DEFINE r == job[w].run
           i == job[w].item
           n == job[w].now
           rows == SweptRows(r, n)
           Defer(t) == [rows EXCEPT ![i].nextAttempt = t, ![i].deferred = TRUE]
<1>1. r \in Runs /\ i \in Items /\ n \in Nat
  BY WorkerKnown DEF ClaimDeferred, MayClaim
<1>2. rows \in [Items -> ItemRow]
  BY <1>1, SweptRowsType DEF Typed
<1> HIDE DEF rows
<1>3. ASSUME NEW t \in Nat PROVE Defer(t) \in [Items -> ItemRow]
  <2>1. [rows[i] EXCEPT !.nextAttempt = t, !.deferred = TRUE] \in ItemRow
    BY <1>1, <1>2 DEF ItemRow
  <2>2. Defer(t) = [rows EXCEPT ![i] = [rows[i] EXCEPT !.nextAttempt = t, !.deferred = TRUE]]
    BY <1>1, <1>2
  <2> QED BY <1>1, <1>2, <2>1, <2>2
<1>4. CoolUntil(i) \in Nat
  BY <1>1, Constants DEF CoolUntil, Typed, TypeOK
<1>5. Prerequisite(rows, i, n) \subseteq Nat
  <2>1. \A j \in Items : rows[j].nextAttempt \in Nat
    BY <1>2 DEF ItemRow
  <2>2. Holding(rows, i, n) \subseteq Items
    BY <1>1, Constants DEF Holding, Items
  <2> QED BY <2>1, <2>2 DEF Prerequisite
<1>6. \E t \in Nat : item' = [item EXCEPT ![r] = Defer(t)]
  BY <1>4, <1>5 DEF ClaimDeferred, rows
<1>7. Stop(w) /\ UNCHANGED <<lease, run, cutoff, result, written, envVars>>
  BY DEF ClaimDeferred
<1> HIDE DEF Defer
<1>8. RowsTyped'
  BY <1>1, <1>3, <1>6, <1>7, ItemsMoved
<1> QED BY <1>7, <1>8, StopMoves

LEMMA ClaimDeniedTyped ==
  ASSUME Typed, NEW w \in Workers, ClaimDenied(w)
  PROVE  Typed'
<1>1. job[w].run \in Runs /\ job[w].now \in Nat
  BY WorkerKnown DEF ClaimDenied, MayClaim
<1>2. /\ item' = [item EXCEPT ![job[w].run] = SweptRows(job[w].run, job[w].now)]
      /\ Stop(w) /\ UNCHANGED <<lease, run, cutoff, result, written, envVars>>
  BY DEF ClaimDenied
<1>3. RowsTyped'
  BY <1>1, <1>2, SweptRowsType, ItemsMoved DEF Typed
<1> QED BY <1>2, <1>3, StopMoves

LEMMA PersistCutoffTyped ==
  ASSUME Typed, NEW w \in Workers, PersistCutoff(w)
  PROVE  Typed'
<1> DEFINE r == job[w].run
           c == CutoffOf(w)
<1>1. /\ r \in Runs /\ job[w] \in Job /\ job[w].now \in Nat /\ job[w].now <= clock
      /\ run[r] = "running"
  BY WorkerKnown DEF PersistCutoff, MayPersist
<1>2. c \in Nat
  BY <1>1 DEF CutoffOf, Job
<1>3. cutoff' = [cutoff EXCEPT ![r].macro = Persisted(@, c)]
        \/ cutoff' = [cutoff EXCEPT ![r].derived = Persisted(@, c)]
  BY DEF PersistCutoff
<1> HIDE DEF c
<1>4. cutoff' \in [Runs -> [derived : Nat, macro : Nat]]
  <2>1. cutoff \in [Runs -> [derived : Nat, macro : Nat]] /\ cutoff[r] \in [derived : Nat, macro : Nat]
    BY <1>1 DEF Typed, TypeOK
  <2>2. Persisted(cutoff[r].macro, c) \in Nat /\ Persisted(cutoff[r].derived, c) \in Nat
    BY <1>2, <2>1 DEF Persisted
  <2>3. /\ [cutoff[r] EXCEPT !.macro = Persisted(cutoff[r].macro, c)] \in [derived : Nat, macro : Nat]
        /\ [cutoff[r] EXCEPT !.derived = Persisted(cutoff[r].derived, c)] \in [derived : Nat, macro : Nat]
    BY <2>1, <2>2
  <2>4. \/ cutoff' = [cutoff EXCEPT ![r] = [cutoff[r] EXCEPT !.macro = Persisted(cutoff[r].macro, c)]]
        \/ cutoff' = [cutoff EXCEPT ![r] = [cutoff[r] EXCEPT !.derived = Persisted(cutoff[r].derived, c)]]
    BY <1>1, <1>3, <2>1
  <2> QED BY <1>1, <2>1, <2>3, <2>4
<1>5. lease' \in [owner : Runs \cup Legacy \cup {None}, expires : Nat]
  <2>1. lease' = [lease EXCEPT !.expires = Later(lease.expires, job[w].now + LeaseTime)]
    BY DEF PersistCutoff, Typed, TypeOK
  <2>2. Later(lease.expires, job[w].now + LeaseTime) \in Nat
    BY <1>1, Constants DEF Later, Typed, TypeOK
  <2> QED BY <2>1, <2>2 DEF Typed, TypeOK
<1>6. pc' = [pc EXCEPT ![w] = "execute"] /\ UNCHANGED <<run, item, result, written, job, envVars>>
  BY DEF PersistCutoff, Goto
<1>7. RowsTyped'
  BY <1>4, <1>5, <1>6 DEF RowsTyped, Typed, TypeOK
<1>8. job' = [job EXCEPT ![w] = job[w]]
  BY <1>6 DEF Typed, TypeOK
<1> QED BY <1>1, <1>6, <1>7, <1>8, MoveTyped DEF Steps

\* A request writes one field, or several, of its own item's row.
LEMMA RowMoved ==
  ASSUME Typed, NEW r \in Runs, NEW i \in Items, NEW row \in ItemRow,
         item' = [item EXCEPT ![r][i] = row],
         UNCHANGED <<lease, run, cutoff, result, written>>
  PROVE  RowsTyped'
BY DEF Typed, TypeOK, RowsTyped

LEMMA MarkAcquisitionTyped ==
  ASSUME Typed, NEW w \in Workers, MarkAcquisition(w)
  PROVE  Typed'
<1> DEFINE r == job[w].run
           i == job[w].item
           row == [item[r][i] EXCEPT !.acquisitions = @ + 1]
           j == [job[w] EXCEPT !.marked = TRUE]
<1>1. /\ r \in Runs /\ i \in Items /\ job[w] \in Job /\ job[w].now \in Nat
      /\ job[w].now <= clock /\ run[r] # "absent"
  BY WorkerKnown DEF MarkAcquisition, Typed, JobsKnown
<1>2. row \in ItemRow
  <2>1. item[r][i] \in ItemRow
    BY <1>1 DEF Typed, TypeOK
  <2>2. item[r][i].acquisitions + 1 \in Nat
    BY <2>1 DEF ItemRow
  <2> QED BY <2>1, <2>2 DEF ItemRow
<1>3. item' = [item EXCEPT ![r][i] = row]
  BY <1>1 DEF MarkAcquisition, Typed, TypeOK
<1>4. j \in Job /\ j.now = job[w].now /\ j.run = r
  BY <1>1 DEF Job
<1>5. /\ job' = [job EXCEPT ![w] = j] /\ pc' = [pc EXCEPT ![w] = "execute"]
      /\ UNCHANGED <<lease, run, cutoff, result, written, envVars>>
  BY DEF MarkAcquisition, Typed, TypeOK
<1> HIDE DEF row, j
<1>6. RowsTyped'
  BY <1>1, <1>2, <1>3, <1>5, RowMoved
<1> QED BY <1>1, <1>4, <1>5, <1>6, MoveTyped DEF Steps

LEMMA CommitDataTyped ==
  ASSUME Typed, NEW w \in Workers, CommitData(w)
  PROVE  Typed'
<1>1. /\ job[w].run \in Runs /\ job[w].item \in Items /\ job[w].claim \in Nat
  BY WorkerKnown DEF CommitData
<1>2. written' \in [Runs -> [Items -> Nat]]
  BY <1>1 DEF CommitData, Typed, TypeOK
<1>3. UNCHANGED <<lease, run, item, cutoff, result, pc, job, envVars>>
  BY DEF CommitData
<1> QED BY <1>2, <1>3 DEF Typed, TypeOK, JobsKnown, envVars

\* The local variables that a finished task leaves to the settling of its claim.
LEMMA SettlingType ==
  ASSUME Typed, NEW w \in Workers, pc[w] # "idle",
         NEW s \in Statuses, NEW b \in BOOLEAN, NEW t \in Nat, NEW i \in Items, NEW n \in Nat
  PROVE  /\ [Settling(w) EXCEPT !.outcome = s, !.transient = b] \in Job
         /\ [Settling(w) EXCEPT !.retryAt = t, !.transient = b] \in Job
         /\ [Settling(w) EXCEPT !.item = i, !.now = n] \in Job
         /\ Settling(w).run = job[w].run /\ Settling(w).now = 0
         /\ Settling(w).item = job[w].item /\ Settling(w).claim = job[w].claim
<1>1. job[w].run \in Runs /\ job[w].item \in Items /\ job[w].claim \in Nat
  BY WorkerKnown
<1>2. NoJob \in Job /\ NoJob.now = 0
  BY NoJobType DEF NoJob
<1> HIDE DEF NoJob
<1>3. Settling(w) \in Job
  BY <1>1, <1>2 DEF Settling, Job
<1>4. /\ Settling(w).run = job[w].run /\ Settling(w).now = 0
      /\ Settling(w).item = job[w].item /\ Settling(w).claim = job[w].claim
  BY <1>2 DEF Settling, Job
<1> HIDE DEF Settling
<1> QED BY <1>3, <1>4 DEF Job

LEMMA TaskReturnsTyped ==
  ASSUME Typed, NEW w \in Workers, TaskReturns(w)
  PROVE  Typed'
<1>1. /\ job[w] \in Job /\ job[w].run \in Runs /\ pc[w] # "idle"
      /\ run[job[w].run] # "absent"
  BY WorkerKnown DEF TaskReturns, Typed, JobsKnown
<1>2. UNCHANGED <<dbVars, envVars>>
  BY DEF TaskReturns
<1>3. \E s \in Statuses, b \in BOOLEAN : Outcome(w, s, b, "complete")
  BY <1>1 DEF TaskReturns, Statuses, Done, Job
<1>4. PICK s \in Statuses, b \in BOOLEAN : Outcome(w, s, b, "complete")
  BY <1>3
<1> DEFINE j == [Settling(w) EXCEPT !.outcome = s, !.transient = b]
<1>5. j \in Job /\ j.run = job[w].run /\ j.now = 0
  <2>1. j \in Job /\ Settling(w).run = job[w].run /\ Settling(w).now = 0
    BY <1>1, SettlingType, Constants
  <2>2. j.run = Settling(w).run /\ j.now = Settling(w).now
    OBVIOUS
  <2> QED BY <2>1, <2>2
<1>6. pc' = [pc EXCEPT ![w] = "complete"] /\ job' = [job EXCEPT ![w] = j]
  BY <1>4 DEF Outcome, Goto
<1> HIDE DEF j
<1>7. RowsTyped' /\ run' = run /\ clock \in Nat /\ 0 <= clock
  BY <1>2, RowsKept DEF RowsTyped, dbVars, Typed, TypeOK
<1> QED BY <1>1, <1>2, <1>5, <1>6, <1>7, MoveTyped DEF Steps

LEMMA TaskPostponedTyped ==
  ASSUME Typed, NEW w \in Workers, TaskPostponed(w)
  PROVE  Typed'
<1>1. /\ job[w] \in Job /\ job[w].run \in Runs /\ pc[w] # "idle"
      /\ run[job[w].run] # "absent"
  BY WorkerKnown DEF TaskPostponed, Typed, JobsKnown
<1>2. pc' = [pc EXCEPT ![w] = "defer"] /\ UNCHANGED <<dbVars, envVars>>
  BY DEF TaskPostponed, Goto
<1>3. PICK t \in Nat, b \in BOOLEAN :
        job' = [job EXCEPT ![w] = [Settling(w) EXCEPT !.retryAt = t, !.transient = b]]
  <2>1. clock + 1 .. clock + CoolTime \subseteq Nat /\ {FALSE, job[w].marked} \subseteq BOOLEAN
    BY <1>1, Constants DEF Typed, TypeOK, Job
  <2> QED BY <2>1 DEF TaskPostponed
<1> DEFINE j == [Settling(w) EXCEPT !.retryAt = t, !.transient = b]
<1>4. j \in Job /\ j.run = job[w].run /\ j.now = 0
  <2>1. j \in Job /\ Settling(w).run = job[w].run /\ Settling(w).now = 0
    BY <1>1, SettlingType, Constants DEF Statuses
  <2>2. j.run = Settling(w).run /\ j.now = Settling(w).now
    OBVIOUS
  <2> QED BY <2>1, <2>2
<1> HIDE DEF j
<1>5. RowsTyped' /\ run' = run /\ clock \in Nat /\ 0 <= clock
  BY <1>2, RowsKept DEF RowsTyped, dbVars, Typed, TypeOK
<1>6. job' = [job EXCEPT ![w] = j]
  BY <1>3 DEF j
<1> QED BY <1>1, <1>2, <1>4, <1>5, <1>6, MoveTyped DEF Steps

LEMMA DeferClaimTyped ==
  ASSUME Typed, NEW w \in Workers, DeferClaim(w)
  PROVE  Typed'
<1> DEFINE r == job[w].run
           i == job[w].item
           row == [item[r][i] EXCEPT !.status = "pending", !.token = 0, !.expires = 0,
                     !.nextAttempt = job[w].retryAt, !.deferred = TRUE,
                     !.transient = job[w].transient]
<1>1. r \in Runs /\ i \in Items /\ job[w] \in Job
  BY WorkerKnown DEF DeferClaim
<1>2. row \in ItemRow
  <2>1. item[r][i] \in ItemRow
    BY <1>1 DEF Typed, TypeOK
  <2>2. job[w].retryAt \in Nat /\ job[w].transient \in BOOLEAN
    BY <1>1 DEF Job
  <2> QED BY <2>1, <2>2 DEF ItemRow, Statuses
<1>3. /\ item' = [item EXCEPT ![r][i] = row]
      /\ Stop(w) /\ UNCHANGED <<lease, run, cutoff, result, written, envVars>>
  BY <1>1 DEF DeferClaim, Typed, TypeOK
<1> HIDE DEF row
<1>4. RowsTyped'
  BY <1>1, <1>2, <1>3, RowMoved
<1> QED BY <1>3, <1>4, StopMoves

LEMMA CompleteClaimTyped ==
  ASSUME Typed, NEW w \in Workers, CompleteClaim(w)
  PROVE  Typed'
<1> DEFINE r == job[w].run
           i == job[w].item
           row == [item[r][i] EXCEPT !.status = job[w].outcome, !.transient = job[w].transient]
<1>1. /\ r \in Runs /\ i \in Items /\ job[w] \in Job /\ job[w].now <= clock
      /\ run[r] # "absent"
  BY WorkerKnown DEF CompleteClaim, Typed, JobsKnown
<1>2. row \in ItemRow
  <2>1. item[r][i] \in ItemRow
    BY <1>1 DEF Typed, TypeOK
  <2>2. job[w].outcome \in Statuses /\ job[w].transient \in BOOLEAN
    BY <1>1 DEF Job
  <2> QED BY <2>1, <2>2 DEF ItemRow
<1>3. /\ item' = [item EXCEPT ![r][i] = row]
      /\ pc' = [pc EXCEPT ![w] = "read"] /\ job' = [job EXCEPT ![w] = job[w]]
      /\ UNCHANGED <<lease, run, cutoff, result, written, envVars>>
  BY <1>1 DEF CompleteClaim, Goto, Typed, TypeOK
<1> HIDE DEF row
<1>4. RowsTyped'
  BY <1>1, <1>2, <1>3, RowMoved
<1> QED BY <1>1, <1>3, <1>4, MoveTyped DEF Steps

LEMMA ReadBackTyped ==
  ASSUME Typed, NEW w \in Workers, ReadBack(w)
  PROVE  Typed'
<1> DEFINE j == [Settling(w) EXCEPT !.item = 1, !.now = clock]
<1>1. /\ job[w] \in Job /\ job[w].run \in Runs /\ pc[w] # "idle"
      /\ run[job[w].run] # "absent" /\ clock \in Nat
  BY WorkerKnown DEF ReadBack, Typed, JobsKnown, TypeOK
<1>2. j \in Job /\ j.run = job[w].run /\ j.now = clock
  <2>1. /\ j \in Job /\ Settling(w) \in Job /\ Settling(w).run = job[w].run
    BY ZenonT(60), <1>1, SettlingType, Constants, NoJobType DEF Statuses, Settling, Job
  <2> QED BY <2>1 DEF Job
<1>3. /\ job' = [job EXCEPT ![w] = j] /\ pc' = [pc EXCEPT ![w] = "renew"]
      /\ UNCHANGED <<dbVars, envVars>>
  BY DEF ReadBack, Goto
<1> HIDE DEF j
<1>4. RowsTyped' /\ run' = run
  BY <1>3, RowsKept DEF RowsTyped, dbVars
<1>5. j.now <= clock /\ j.run \in Runs /\ run[j.run] # "absent"
  BY <1>1, <1>2
<1> QED BY <1>1, <1>2, <1>3, <1>4, <1>5, MoveTyped DEF Steps

LEMMA RenewRunTyped ==
  ASSUME Typed, NEW w \in Workers, RenewRun(w)
  PROVE  Typed'
<1> DEFINE r == job[w].run
           view == [i \in Items |-> Report(item[r][i])]
           j == [job[w] EXCEPT !.view = view]
<1>1. /\ r \in Runs /\ job[w] \in Job /\ job[w].now \in Nat /\ job[w].now <= clock
      /\ run[r] = "running"
  BY WorkerKnown DEF RenewRun
<1>2. view \in [Items -> Reports]
  BY <1>1, ReportType DEF Typed, TypeOK
<1>3. /\ Acquire(r, job[w].now) /\ UNCHANGED envVars
      /\ job' = [job EXCEPT ![w] = j] /\ pc' = [pc EXCEPT ![w] = "finalize"]
  BY DEF RenewRun, Goto, Typed, TypeOK
<1> HIDE DEF view
<1>4. j \in Job /\ j.run = r /\ j.now = job[w].now
  BY <1>1, <1>2 DEF Job
<1>5. RowsTyped' /\ \A q \in Runs : run[q] # "absent" => run'[q] # "absent"
  BY <1>1, <1>3, AcquireType, AcquireRows DEF Typed
<1> HIDE DEF j
<1> QED BY <1>1, <1>3, <1>4, <1>5, MoveTyped DEF Steps

LEMMA FinalizeRunTyped ==
  ASSUME Typed, NEW w \in Workers, FinalizeRun(w)
  PROVE  Typed'
<1> DEFINE r == job[w].run
           verdict == Verdict(job[w].view)
<1>1. r \in Runs /\ job[w].view \in [Items -> Reports]
  BY WorkerKnown DEF FinalizeRun, Job
<1>2. verdict \in RunStates /\ verdict # "absent"
  BY DEF Verdict, RunStates, Terminal
<1>3. /\ run' = [run EXCEPT ![r] = verdict]
      /\ result' = [result EXCEPT ![r] = job[w].view]
      /\ lease' = [owner |-> None, expires |-> 0]
      /\ Stop(w) /\ UNCHANGED <<item, cutoff, written, envVars>>
  BY DEF FinalizeRun
<1> HIDE DEF verdict
<1>4. RowsTyped' /\ \A q \in Runs : run[q] # "absent" => run'[q] # "absent"
  BY <1>1, <1>2, <1>3 DEF RowsTyped, Typed, TypeOK
<1> QED BY <1>3, <1>4, StopMoves

LEMMA StoppedTyped ==
  ASSUME Typed, NEW w \in Workers, Return(w) \/ Crash(w)
  PROVE  Typed'
<1>1. Stop(w) /\ UNCHANGED <<dbVars, envVars>>
  BY DEF Return, Crash
<1>2. RowsTyped' /\ run' = run
  BY <1>1, RowsKept DEF RowsTyped, dbVars
<1> QED BY <1>1, <1>2, StopMoves

LEMMA LegacyTyped ==
  ASSUME Typed, NEW d \in Legacy, LegacyStep(d)
  PROVE  Typed'
<1>1. UNCHANGED unchangedByLegacy
  BY DEF LegacyStep, LegacyAcquire, LegacyHeartbeat, LegacyRelease, LegacyCrash
<1>2. lease' \in [owner : Runs \cup Legacy \cup {None}, expires : Nat]
  BY Constants DEF LegacyStep, LegacyAcquire, LegacyHeartbeat, LegacyRelease, LegacyCrash,
                   Typed, TypeOK
<1>3. legacy' \in [Legacy -> {"idle", "executing"}]
  BY DEF LegacyStep, LegacyAcquire, LegacyHeartbeat, LegacyRelease, LegacyCrash, Typed, TypeOK
<1> QED BY <1>1, <1>2, <1>3 DEF Typed, TypeOK, JobsKnown, unchangedByLegacy

LEMMA EnvironmentTyped ==
  ASSUME Typed, Tick \/ \E s \in Scopes : PublisherCools(s) \/ PublisherRecovers(s)
  PROVE  Typed'
<1>1. CASE Tick
  BY <1>1, WorkerKnown DEF Tick, Typed, TypeOK, JobsKnown, dbVars, Job
<1>2. ASSUME NEW s \in Scopes, PublisherCools(s) PROVE Typed'
  <2>1. cool' \in [Scopes -> Nat]
    BY <1>2, Constants DEF PublisherCools, Typed, TypeOK
  <2> QED BY <1>2, <2>1 DEF PublisherCools, Typed, TypeOK, JobsKnown, dbVars
<1>3. ASSUME NEW s \in Scopes, PublisherRecovers(s) PROVE Typed'
  <2>1. cool' \in [Scopes -> Nat]
    BY <1>3 DEF PublisherRecovers, Typed, TypeOK
  <2> QED BY <1>3, <2>1 DEF PublisherRecovers, Typed, TypeOK, JobsKnown, dbVars
<1> QED BY <1>1, <1>2, <1>3

LEMMA TypedStep == Typed /\ [Next]_vars => Typed'
<1> SUFFICES ASSUME Typed, [Next]_vars PROVE Typed'
  OBVIOUS
<1>1. CASE UNCHANGED vars
  BY <1>1 DEF vars, Typed, TypeOK, JobsKnown
<1>2. ASSUME NEW w \in Workers, Transaction(w) PROVE Typed'
  BY <1>2, StartRunTyped, ResumeRunTyped, ClaimGrantedTyped, ClaimDeferredTyped,
     ClaimDeniedTyped, PersistCutoffTyped, MarkAcquisitionTyped, CommitDataTyped,
     TaskReturnsTyped, TaskPostponedTyped, DeferClaimTyped, CompleteClaimTyped,
     ReadBackTyped, RenewRunTyped, FinalizeRunTyped, StoppedTyped
  DEF Transaction
<1> QED BY <1>1, <1>2, RequestTyped, LegacyTyped, EnvironmentTyped DEF Next

\* Whatever the runs, workers, items and times: the rows of the run tables and
\* the local variables of every request keep their types.
THEOREM TypeCorrect == Spec => []TypeOK
<1>1. Spec => []Typed
  BY TypedInit, TypedStep, PTL DEF Spec
<1>2. Typed => TypeOK
  BY DEF Typed
<1> QED BY <1>1, <1>2, PTL

-----------------------------------------------------------------------------
(* Fencing: FencingInv is an invariant, and so at most one request can write, *)
(* no live claim is cut short by a takeover, no item is acquired more often   *)
(* than the limit allows and no older claim overwrites a newer one.           *)

LEMMA FencingTyped == FencingInv => Typed
BY DEF FencingInv, Typed

LEMMA RowTypes ==
  ASSUME TypeOK, NEW r \in Runs, NEW i \in Items
  PROVE  /\ item[r][i] \in ItemRow
         /\ item[r][i].attempt \in Nat /\ item[r][i].acquisitions \in Nat
         /\ item[r][i].token \in Nat /\ item[r][i].expires \in Nat
         /\ written[r][i] \in Nat
BY DEF TypeOK, ItemRow

LEMMA RegisterTypes ==
  ASSUME TypeOK
  PROVE  clock \in Nat /\ lease.expires \in Nat
BY DEF TypeOK

LEMMA FencingInit == Init => FencingInv
<1> SUFFICES ASSUME Init PROVE FencingInv
  OBVIOUS
<1>1. TypeOK /\ JobsKnown
  BY TypedInit DEF Typed
<1>2. \A r \in Runs, i \in Items : item[r][i] = FreshRow /\ written[r][i] = 0
  BY DEF Init
<1>3. \A w \in Workers : pc[w] = "idle"
  BY DEF Init
<1>4. ClaimsHeld /\ ClaimsDistinct /\ LeaseCoversNextClaim
  BY <1>3 DEF ClaimsHeld, ClaimHeld, ClaimsDistinct, LeaseCoversNextClaim, NextClaimCovered,
              Claiming
<1>5. ClaimedIsRunning /\ OneLiveClaim /\ LeaseCoversClaims
  BY <1>2 DEF ClaimedIsRunning, OneLiveClaim, LeaseCoversClaims, LiveClaim, FreshRow
<1>6. AcquisitionsBounded /\ WrittenByAClaim
  BY <1>2, Constants DEF AcquisitionsBounded, WrittenByAClaim, FreshRow
<1> QED BY <1>1, <1>4, <1>5, <1>6 DEF FencingInv

-----------------------------------------------------------------------------
(* What a step leaves of the rows *)

\* No attempt or acquisition is counted, and a row keeps its claim whole or
\* gives it up whole.
Kept(old, new) ==
  /\ new.attempt = old.attempt /\ new.acquisitions = old.acquisitions
  /\ \/ new.token = 0 /\ new.status # "claimed"
     \/ new.token = old.token /\ new.status = old.status /\ new.expires = old.expires

RowsKeep == \A r \in Runs, i \in Items : Kept(item[r][i], item'[r][i])

\* A sweep and a takeover are such steps.
LEMMA AbandonedKept ==
  ASSUME NEW row \in ItemRow
  PROVE  Kept(row, Abandoned(row)) /\ Abandoned(row).status # "claimed"
BY DEF Kept, Abandoned, ItemRow

LEMMA SweptKept ==
  ASSUME NEW row \in ItemRow, NEW n
  PROVE  Kept(row, Swept(row, n))
BY DEF Kept, Swept, ItemRow

LEMMA AcquireKeeps ==
  ASSUME TypeOK, NEW r \in Runs, NEW n \in Nat, Acquire(r, n)
  PROVE  RowsKeep
<1> SUFFICES ASSUME NEW q \in Runs, NEW i \in Items PROVE Kept(item[q][i], item'[q][i])
  BY DEF RowsKeep
<1>1. item[q][i] \in ItemRow
  BY RowTypes
<1>2. item'[q][i] = item[q][i] \/ item'[q][i] = Abandoned(item[q][i])
  BY DEF Acquire, TypeOK
<1>3. Kept(item[q][i], item[q][i])
  BY DEF Kept
<1> QED BY <1>1, <1>2, <1>3, AbandonedKept

\* A request holds its claim for as long as its item changes by such steps.
LEMMA ClaimKept ==
  ASSUME NEW v \in Workers, ClaimHeld(v), pc'[v] = pc[v], job'[v] = job[v],
         job[v].claim \in Nat,
         Kept(item[job[v].run][job[v].item], item'[job[v].run][job[v].item])
  PROVE  ClaimHeld(v)'
<1> SUFFICES ASSUME pc[v] \in Claiming PROVE ClaimHeld(v)'
  BY DEF ClaimHeld, Claiming
<1>1. PICK old : old = item[job[v].run][job[v].item]
  OBVIOUS
<1>2. PICK new : new = item'[job[v].run][job[v].item]
  OBVIOUS
<1>3. /\ 0 < job[v].claim /\ job[v].claim <= old.attempt
      /\ old.token = job[v].claim =>
           /\ old.status = "claimed"
           /\ pc[v] \in {"prepare", "execute"} /\ ~job[v].marked => old.acquisitions < MaxAttempts
  BY <1>1 DEF ClaimHeld
<1>4. Kept(old, new)
  BY <1>1, <1>2
<1>5. 0 < job[v].claim /\ job[v].claim <= new.attempt /\ new.acquisitions = old.acquisitions
  BY <1>3, <1>4 DEF Kept
<1>6. new.token = job[v].claim => old.token = job[v].claim /\ new.status = old.status
  BY <1>3, <1>4 DEF Kept
<1> QED BY <1>2, <1>3, <1>5, <1>6 DEF ClaimHeld

\* Through such a step the other requests hold what they held.
LEMMA ClaimsSurvive ==
  ASSUME FencingInv, RowsKeep,
         NEW v \in Workers, pc'[v] = pc[v], job'[v] = job[v]
  PROVE  ClaimHeld(v)'
<1> SUFFICES ASSUME pc[v] \in Claiming PROVE ClaimHeld(v)'
  BY DEF ClaimHeld, Claiming
<1> DEFINE r == job[v].run
           i == job[v].item
<1>1. r \in Runs /\ i \in Items /\ job[v].claim \in Nat /\ ClaimHeld(v)
  BY WorkerKnown, FencingTyped DEF FencingInv, ClaimsHeld, Claiming
<1>2. Kept(item[r][i], item'[r][i])
  BY <1>1 DEF RowsKeep
<1> QED BY <1>1, <1>2, ClaimKept

LEMMA CountsSurvive ==
  ASSUME FencingInv, RowsKeep, written' = written
  PROVE  AcquisitionsBounded' /\ WrittenByAClaim'
BY DEF FencingInv, RowsKeep, Kept, AcquisitionsBounded, WrittenByAClaim

\* A claim that is live after such a step was live before it.
LEMMA LiveBefore ==
  ASSUME RowsKeep, NEW r \in Runs, NEW i \in Items, NEW n, LiveClaim(item'[r][i], n)
  PROVE  LiveClaim(item[r][i], n) /\ item'[r][i].expires = item[r][i].expires
BY DEF RowsKeep, Kept, LiveClaim

LEMMA LiveClaimsSurvive ==
  ASSUME FencingInv, RowsKeep, clock' = clock
  PROVE  OneLiveClaim'
BY LiveBefore DEF FencingInv, OneLiveClaim

-----------------------------------------------------------------------------
(* create_or_resume_run takes the lease from no live claim *)

\* A live claim of any run keeps every other run from the lease.
LEMMA LiveClaimHoldsLease ==
  ASSUME FencingInv, NEW r \in Runs, NEW n \in Nat, n <= clock, CanAcquire(r, n),
         NEW q \in Runs, NEW i \in Items, LiveClaim(item[q][i], clock)
  PROVE  q = r /\ run[r] = "running" /\ lease.owner = r /\ lease.expires >= item[r][i].expires
<1>1. run[q] = "running"
  BY DEF FencingInv, ClaimedIsRunning, LiveClaim
<1>2. lease.owner = q /\ lease.expires >= item[q][i].expires
  BY <1>1 DEF FencingInv, LeaseCoversClaims
<1>3. lease.expires > n
  BY <1>2, RowTypes, RegisterTypes DEF FencingInv, LiveClaim
<1>4. lease.owner \in {None, r}
  BY <1>3, RegisterTypes DEF FencingInv, CanAcquire
<1> QED BY <1>1, <1>2, <1>4, Constants

LEMMA AcquireFenced ==
  ASSUME FencingInv, NEW r \in Runs, NEW n \in Nat, n <= clock, Acquire(r, n), clock' = clock
  PROVE  /\ RowsKeep
         /\ ClaimedIsRunning' /\ OneLiveClaim' /\ LeaseCoversClaims'
         /\ AcquisitionsBounded' /\ WrittenByAClaim'
<1>1. RowsKeep /\ TypeOK
  BY AcquireKeeps DEF FencingInv
<1>2. /\ CanAcquire(r, n) /\ lease'.owner = r /\ lease'.expires >= lease.expires
      /\ written' = written
  BY <1>1, RegisterTypes, Constants DEF Acquire, Later
<1>3. ASSUME NEW q \in Runs, NEW i \in Items, item'[q][i].status = "claimed"
      PROVE  run'[q] = "running"
  <2>1. item[q][i] \in ItemRow
    BY <1>1, RowTypes
  <2>2. item[q][i].status = "claimed"
    BY <1>1, <1>3 DEF RowsKeep, Kept
  <2>3. run[q] = "running"
    BY <2>2 DEF FencingInv, ClaimedIsRunning
  <2>4. q \notin Overdue(r, n)
    <3> SUFFICES ASSUME q \in Overdue(r, n) PROVE FALSE
      OBVIOUS
    <3>1. item'[q][i] = Abandoned(item[q][i])
      BY <1>1 DEF Acquire, TypeOK
    <3> QED BY <1>3, <2>1, <3>1, AbandonedKept
  <2> QED BY <2>3, <2>4 DEF Acquire
<1>4. ASSUME NEW q \in Runs, NEW i \in Items, LiveClaim(item'[q][i], clock)
      PROVE  lease'.owner = q /\ lease'.expires >= item'[q][i].expires
  <2>1. LiveClaim(item[q][i], clock) /\ item'[q][i].expires = item[q][i].expires
    BY <1>1, <1>4, LiveBefore
  <2>2. q = r /\ lease.expires >= item[r][i].expires
    BY <1>2, <2>1, LiveClaimHoldsLease
  <2>3. lease'.expires \in Nat /\ lease.expires \in Nat /\ item[q][i].expires \in Nat
    BY <1>1, RowTypes, RegisterTypes, AcquireType
  <2> QED BY <1>2, <2>1, <2>2, <2>3
<1>5. LeaseCoversClaims'
  BY <1>4 DEF LeaseCoversClaims
<1>6. ClaimedIsRunning'
  BY <1>3 DEF ClaimedIsRunning
<1> QED BY <1>1, <1>2, <1>5, <1>6, LiveClaimsSurvive, CountsSurvive

\* Another request that is about to claim is still covered: either the lease is
\* the lease of its run, or its time for a claim is over.
LEMMA AcquireCoversNext ==
  ASSUME FencingInv, NEW r \in Runs, NEW n \in Nat, n <= clock, Acquire(r, n), clock' = clock,
         NEW v \in Workers, pc'[v] = pc[v], job'[v] = job[v]
  PROVE  NextClaimCovered(v)'
<1> DEFINE q == job[v].run
<1> SUFFICES ASSUME pc[v] = "claim", run'[q] = "running", job[v].now + ClaimTime > clock
             PROVE  lease'.owner = q /\ lease'.expires >= job[v].now + ClaimTime
  BY DEF NextClaimCovered
<1>1. q \in Runs /\ job[v].now \in Nat /\ run[q] # "absent"
  BY WorkerKnown, FencingTyped DEF FencingInv, JobsKnown
<1>2. /\ CanAcquire(r, n) /\ lease'.owner = r /\ lease'.expires >= lease.expires
      /\ lease.expires \in Nat /\ clock \in Nat
  BY RegisterTypes, Constants DEF Acquire, Later, FencingInv
<1>3. run[q] = "running"
  BY <1>1, <1>2 DEF Acquire, CanAcquire, FencingInv, TypeOK, RunStates
<1>4. lease.owner = q /\ lease.expires >= job[v].now + ClaimTime
  BY <1>3 DEF FencingInv, LeaseCoversNextClaim, NextClaimCovered
<1>5. lease.expires > n
  BY <1>1, <1>2, <1>4, Constants
<1>6. q = r
  BY <1>1, <1>2, <1>4, <1>5, Constants DEF CanAcquire
<1>7. lease'.expires \in Nat
  BY AcquireType DEF FencingInv
<1> QED BY <1>1, <1>2, <1>4, <1>6, <1>7, Constants

-----------------------------------------------------------------------------
(* The steps of a request *)

\* A request that holds no claim afterwards, and is not about to take one.
LEMMA LeavesClaim ==
  ASSUME FencingInv, Typed', NEW w \in Workers,
         pc'[w] \notin Claiming \cup {"claim"},
         \A v \in Workers : v # w => pc'[v] = pc[v] /\ job'[v] = job[v],
         RowsKeep, ClaimedIsRunning', LeaseCoversClaims',
         \A v \in Workers : v # w => NextClaimCovered(v)',
         clock' = clock, written' = written
  PROVE  FencingInv'
<1>1. ClaimsHeld'
  <2> SUFFICES ASSUME NEW v \in Workers PROVE ClaimHeld(v)'
    BY DEF ClaimsHeld
  <2>1. CASE v = w
    BY <2>1 DEF ClaimHeld
  <2>2. CASE v # w
    BY <2>2, ClaimsSurvive
  <2> QED BY <2>1, <2>2
<1>2. ClaimsDistinct'
  BY DEF FencingInv, ClaimsDistinct
<1>3. LeaseCoversNextClaim'
  BY DEF LeaseCoversNextClaim, NextClaimCovered
<1>4. OneLiveClaim' /\ AcquisitionsBounded' /\ WrittenByAClaim'
  BY LiveClaimsSurvive, CountsSurvive
<1> QED BY <1>1, <1>2, <1>3, <1>4 DEF FencingInv, Typed

\* The rows, the run and its lease stay as they are.
LEMMA Unmoved ==
  ASSUME FencingInv, UNCHANGED <<clock, lease, run, item, written>>
  PROVE  /\ RowsKeep /\ ClaimedIsRunning' /\ LeaseCoversClaims'
         /\ OneLiveClaim' /\ AcquisitionsBounded' /\ WrittenByAClaim'
         /\ \A v \in Workers : pc'[v] = pc[v] /\ job'[v] = job[v] => NextClaimCovered(v)'
BY DEF FencingInv, RowsKeep, Kept, ClaimedIsRunning, LeaseCoversClaims, OneLiveClaim,
       AcquisitionsBounded, WrittenByAClaim, LeaseCoversNextClaim, NextClaimCovered

LEMMA OthersWait ==
  ASSUME Typed, NEW w \in Workers, NEW s, NEW j,
         pc' = [pc EXCEPT ![w] = s], job' = [job EXCEPT ![w] = j]
  PROVE  /\ pc'[w] = s /\ job'[w] = j
         /\ \A v \in Workers : v # w => pc'[v] = pc[v] /\ job'[v] = job[v]
BY DEF Typed, TypeOK

LEMMA QuietStepFenced ==
  ASSUME FencingInv, Typed', NEW w \in Workers, NEW s, NEW j,
         pc' = [pc EXCEPT ![w] = s], job' = [job EXCEPT ![w] = j],
         s \notin Claiming \cup {"claim"},
         UNCHANGED <<dbVars, envVars>>
  PROVE  FencingInv'
<1>1. UNCHANGED <<clock, lease, run, item, written>>
  BY DEF dbVars, envVars
<1>2. /\ pc'[w] = s
      /\ \A v \in Workers : v # w => pc'[v] = pc[v] /\ job'[v] = job[v]
  BY OthersWait, FencingTyped
<1> QED BY <1>1, <1>2, Unmoved, LeavesClaim

LEMMA RequestFenced ==
  ASSUME FencingInv, Typed', NEW w \in Workers, Request(w)
  PROVE  FencingInv'
<1>1. PICK r \in Runs, i \in Items, s \in {"start", "resume", "renew"} : Begin(w, r, i, s)
  BY Constants DEF Request, BeginStart, BeginAdvance, BeginFinalize
<1>2. /\ pc' = [pc EXCEPT ![w] = s]
      /\ job' = [job EXCEPT ![w] = [NoJob EXCEPT !.run = r, !.item = i, !.now = clock]]
      /\ UNCHANGED <<dbVars, envVars>>
  BY <1>1 DEF Begin, Goto
<1> QED BY <1>2, QuietStepFenced DEF Claiming

LEMMA StoppedFenced ==
  ASSUME FencingInv, Typed', NEW w \in Workers, Return(w) \/ Crash(w)
  PROVE  FencingInv'
BY QuietStepFenced DEF Return, Crash, Stop, Claiming

LEMMA ReadBackFenced ==
  ASSUME FencingInv, Typed', NEW w \in Workers, ReadBack(w)
  PROVE  FencingInv'
BY QuietStepFenced DEF ReadBack, Goto, Claiming

\* The three requests that acquire the lease.
LEMMA AcquiringStepFenced ==
  ASSUME FencingInv, Typed', NEW w \in Workers, NEW s, NEW j,
         pc' = [pc EXCEPT ![w] = s], job' = [job EXCEPT ![w] = j],
         s \notin Claiming \cup {"claim"},
         NEW r \in Runs, NEW n \in Nat, n <= clock, Acquire(r, n), UNCHANGED envVars
  PROVE  FencingInv'
<1>1. clock' = clock /\ written' = written
  BY DEF envVars, Acquire
<1>2. /\ pc'[w] = s
      /\ \A v \in Workers : v # w => pc'[v] = pc[v] /\ job'[v] = job[v]
  BY OthersWait, FencingTyped
<1>3. RowsKeep /\ ClaimedIsRunning' /\ LeaseCoversClaims'
  BY <1>1, AcquireFenced
<1>4. \A v \in Workers : v # w => NextClaimCovered(v)'
  BY <1>1, <1>2, AcquireCoversNext
<1> QED BY <1>1, <1>2, <1>3, <1>4, LeavesClaim

LEMMA StartRunFenced ==
  ASSUME FencingInv, Typed', NEW w \in Workers, StartRun(w)
  PROVE  FencingInv'
<1>1. job[w].run \in Runs /\ job[w].now \in Nat /\ job[w].now <= clock
  BY WorkerKnown, FencingTyped DEF StartRun
<1> QED BY <1>1, AcquiringStepFenced DEF StartRun, Stop, Claiming

LEMMA RenewRunFenced ==
  ASSUME FencingInv, Typed', NEW w \in Workers, RenewRun(w)
  PROVE  FencingInv'
<1> DEFINE view == [i \in Items |-> Report(item[job[w].run][i])]
<1>1. job[w].run \in Runs /\ job[w].now \in Nat /\ job[w].now <= clock
  BY WorkerKnown, FencingTyped DEF RenewRun
<1>2. job' = [job EXCEPT ![w] = [job[w] EXCEPT !.view = view]]
  BY DEF RenewRun, FencingInv, TypeOK
<1> HIDE DEF view
<1> QED BY <1>1, <1>2, AcquiringStepFenced DEF RenewRun, Goto, Claiming

LEMMA ResumeRunFenced ==
  ASSUME FencingInv, Typed', NEW w \in Workers, ResumeRun(w)
  PROVE  FencingInv'
<1> DEFINE r == job[w].run
           i == job[w].item
           n == job[w].now
           c == IF IsPhase(i) THEN cutoff[r].derived ELSE 0
           f == IsPhase(i) /\ SourcesFailed(r)
           unresolved == [job[w] EXCEPT !.cutoff = c, !.allFailed = f]
<1>1. r \in Runs /\ n \in Nat /\ n <= clock /\ run[r] = "running" /\ job[w] \in Job
  BY WorkerKnown, FencingTyped DEF ResumeRun
<1>2. Acquire(r, n) /\ UNCHANGED envVars /\ clock' = clock /\ written' = written
  BY DEF ResumeRun, envVars, Acquire
<1>3. CASE Resolved(item[r][i], i)
  <2>1. pc' = [pc EXCEPT ![w] = "renew"] /\ job' = [job EXCEPT ![w] = [job[w] EXCEPT !.item = 1]]
    BY <1>3 DEF ResumeRun, Goto, FencingInv, TypeOK
  <2> QED BY <1>1, <1>2, <2>1, AcquiringStepFenced DEF Claiming
<1>4. CASE ~Resolved(item[r][i], i)
  <2>1. pc' = [pc EXCEPT ![w] = "claim"] /\ job' = [job EXCEPT ![w] = unresolved]
    BY <1>4 DEF ResumeRun, Goto, FencingInv, TypeOK
  <2>2. unresolved.run = r /\ unresolved.now = n
    BY <1>1 DEF Job
  <2> HIDE DEF unresolved
  <2>3. /\ pc'[w] = "claim" /\ job'[w].run = r /\ job'[w].now = n
        /\ \A v \in Workers : v # w => pc'[v] = pc[v] /\ job'[v] = job[v]
    <3>1. /\ pc'[w] = "claim" /\ job'[w] = unresolved
          /\ \A v \in Workers : v # w => pc'[v] = pc[v] /\ job'[v] = job[v]
      BY <2>1, OthersWait, FencingTyped
    <3> QED BY <2>2, <3>1
  <2>4. NextClaimCovered(w)'
    <3>1. lease'.owner = r /\ lease'.expires = Later(lease.expires, n + LeaseTime)
      BY <1>2 DEF Acquire
    <3>2. lease'.expires >= n + ClaimTime
      BY <1>1, <3>1, RegisterTypes, Constants DEF Later, FencingInv
    <3> QED BY <2>3, <3>1, <3>2 DEF NextClaimCovered
  <2>5. LeaseCoversNextClaim'
    BY <1>1, <1>2, <2>3, <2>4, AcquireCoversNext DEF LeaseCoversNextClaim
  <2>6. /\ RowsKeep /\ ClaimedIsRunning' /\ OneLiveClaim' /\ LeaseCoversClaims'
        /\ AcquisitionsBounded' /\ WrittenByAClaim'
    BY <1>1, <1>2, AcquireFenced
  <2>7. ClaimsHeld'
    <3> SUFFICES ASSUME NEW v \in Workers PROVE ClaimHeld(v)'
      BY DEF ClaimsHeld
    <3>1. CASE v = w
      BY <2>3, <3>1 DEF ClaimHeld, Claiming
    <3>2. CASE v # w
      BY <2>3, <2>6, <3>2, ClaimsSurvive
    <3> QED BY <3>1, <3>2
  <2>8. ClaimsDistinct'
    BY <2>3 DEF FencingInv, ClaimsDistinct, Claiming
  <2> QED BY <2>5, <2>6, <2>7, <2>8 DEF FencingInv, Typed
<1> QED BY <1>3, <1>4

-----------------------------------------------------------------------------
(* claim_next_work_item *)

LEMMA SweepKeeps ==
  ASSUME FencingInv, NEW r \in Runs, NEW n, NEW i \in Items
  PROVE  /\ SweptRows(r, n) \in [Items -> ItemRow]
         /\ Kept(item[r][i], SweptRows(r, n)[i])
BY SweptKept, SweptRowsType, RowTypes DEF FencingInv, SweptRows

\* The sweep, and a deferral of an item that is not claimed.
LEMMA UnclaimedStepFenced ==
  ASSUME FencingInv, Typed', NEW w \in Workers, Stop(w), NEW r \in Runs,
         NEW rows \in [Items -> ItemRow], \A i \in Items : Kept(item[r][i], rows[i]),
         item' = [item EXCEPT ![r] = rows],
         UNCHANGED <<lease, run, cutoff, result, written, envVars>>
  PROVE  FencingInv'
<1>1. RowsKeep
  BY DEF RowsKeep, FencingInv, TypeOK, Kept
<1>2. /\ pc'[w] = "idle"
      /\ \A v \in Workers : v # w => pc'[v] = pc[v] /\ job'[v] = job[v]
  BY StopTyped, FencingTyped
<1>3. clock' = clock /\ written' = written /\ run' = run /\ lease' = lease
  BY DEF envVars
<1>4. ClaimedIsRunning'
  BY <1>1, <1>3 DEF ClaimedIsRunning, RowsKeep, Kept, FencingInv
<1>5. LeaseCoversClaims'
  BY <1>1, <1>3, LiveBefore DEF LeaseCoversClaims, FencingInv
<1>6. \A v \in Workers : v # w => NextClaimCovered(v)'
  BY <1>2, <1>3 DEF NextClaimCovered, LeaseCoversNextClaim, FencingInv
<1> QED BY <1>1, <1>2, <1>3, <1>4, <1>5, <1>6, LeavesClaim DEF Claiming

LEMMA ClaimDeniedFenced ==
  ASSUME FencingInv, Typed', NEW w \in Workers, ClaimDenied(w)
  PROVE  FencingInv'
<1> DEFINE r == job[w].run
           rows == SweptRows(r, job[w].now)
<1>1. r \in Runs
  BY WorkerKnown, FencingTyped DEF ClaimDenied, MayClaim
<1>2. /\ item' = [item EXCEPT ![r] = rows]
      /\ Stop(w) /\ UNCHANGED <<lease, run, cutoff, result, written, envVars>>
  BY DEF ClaimDenied
<1>3. rows \in [Items -> ItemRow] /\ \A i \in Items : Kept(item[r][i], rows[i])
  BY <1>1, SweepKeeps, Constants
<1> HIDE DEF rows
<1> QED BY <1>1, <1>2, <1>3, UnclaimedStepFenced

LEMMA ClaimDeferredFenced ==
  ASSUME FencingInv, Typed', NEW w \in Workers, ClaimDeferred(w)
  PROVE  FencingInv'
<1> DEFINE r == job[w].run
           i == job[w].item
           rows == SweptRows(r, job[w].now)
           Defer(t) == [rows EXCEPT ![i].nextAttempt = t, ![i].deferred = TRUE]
<1>1. r \in Runs /\ i \in Items
  BY WorkerKnown, FencingTyped DEF ClaimDeferred, MayClaim
<1>2. PICK t : item' = [item EXCEPT ![r] = Defer(t)]
  BY DEF ClaimDeferred
<1>3. Stop(w) /\ UNCHANGED <<lease, run, cutoff, result, written, envVars>>
  BY DEF ClaimDeferred
<1>4. rows \in [Items -> ItemRow] /\ \A k \in Items : Kept(item[r][k], rows[k])
  BY <1>1, SweepKeeps
<1> HIDE DEF rows
<1>5. Defer(t) = [rows EXCEPT ![i] = [rows[i] EXCEPT !.nextAttempt = t, !.deferred = TRUE]]
  BY <1>1, <1>4
<1> DEFINE row == [rows[i] EXCEPT !.nextAttempt = t, !.deferred = TRUE]
<1>6. /\ row.attempt = rows[i].attempt /\ row.acquisitions = rows[i].acquisitions
      /\ row.token = rows[i].token /\ row.status = rows[i].status
      /\ row.expires = rows[i].expires
  <2>1. rows[i] \in ItemRow
    BY <1>1, <1>4
  <2> QED BY <2>1 DEF ItemRow
<1> HIDE DEF Defer, row
<1>7. Defer(t) \in [Items -> ItemRow]
  BY <1>1, <1>2 DEF FencingInv, Typed, TypeOK
<1>8. \A k \in Items : Kept(item[r][k], Defer(t)[k])
  <2>1. Defer(t) = [rows EXCEPT ![i] = row]
    BY <1>5 DEF row
  <2> QED BY <1>1, <1>4, <1>6, <2>1 DEF Kept
<1> QED BY <1>1, <1>2, <1>3, <1>7, <1>8, UnclaimedStepFenced

\* The claim: its number is new to the item, it is the only live one, and the
\* lease that was renewed before it covers it.
LEMMA ClaimGrantedFenced ==
  ASSUME FencingInv, Typed', NEW w \in Workers, ClaimGranted(w)
  PROVE  FencingInv'
<1> DEFINE r == job[w].run
           i == job[w].item
           n == job[w].now
           rows == SweptRows(r, n)
           claim == rows[i].attempt + 1
           row == [rows[i] EXCEPT !.status = "claimed", !.attempt = claim, !.token = claim,
                      !.expires = n + ClaimTime, !.nextAttempt = 0, !.deferred = FALSE]
           s == IF Kind[i] \in {"derived", "macro"} /\ ~job[w].allFailed
                THEN "prepare" ELSE "execute"
           j == [job[w] EXCEPT !.claim = claim]
<1>1. /\ r \in Runs /\ i \in Items /\ n \in Nat /\ n <= clock /\ job[w] \in Job
      /\ run[r] = "running" /\ LeaseLive(r, n) /\ NoActiveClaim(rows, n)
      /\ Due(rows[i], i, n)
  BY WorkerKnown, FencingTyped DEF ClaimGranted, MayClaim
<1>2. rows \in [Items -> ItemRow] /\ \A k \in Items : Kept(item[r][k], rows[k])
  BY <1>1, SweepKeeps
<1>3. rows[i] \in ItemRow /\ rows[i].attempt \in Nat /\ rows[i].attempt = item[r][i].attempt
  BY <1>1, <1>2 DEF ItemRow, Kept
<1>4. item' = [item EXCEPT ![r] = [rows EXCEPT ![i] = row]]
  BY DEF ClaimGranted
<1>5. pc' = [pc EXCEPT ![w] = s] /\ job' = [job EXCEPT ![w] = j]
  BY DEF ClaimGranted, Goto
<1>6. /\ clock' = clock /\ lease' = lease /\ run' = run /\ written' = written
  BY DEF ClaimGranted, envVars
<1>7. /\ pc'[w] = s /\ job'[w] = j
      /\ \A v \in Workers : v # w => pc'[v] = pc[v] /\ job'[v] = job[v]
  BY ZenonT(60), <1>5, OthersWait, FencingTyped
<1>8. s \in Claiming /\ s # "claim" /\ s \in {"prepare", "execute"}
  BY DEF Claiming
<1>9. j.run = r /\ j.item = i /\ j.claim = claim
  BY <1>1 DEF Job
<1>10. /\ row.status = "claimed" /\ row.attempt = claim /\ row.token = claim
       /\ row.expires = n + ClaimTime /\ row.acquisitions = rows[i].acquisitions
  BY <1>3 DEF ItemRow
<1>11. /\ claim \in Nat /\ 0 < claim /\ claim > item[r][i].attempt
       /\ row.acquisitions < MaxAttempts /\ row.acquisitions = item[r][i].acquisitions
  <2>1. claim \in Nat /\ 0 < claim /\ claim > item[r][i].attempt
    BY <1>3
  <2>2. rows[i].acquisitions = item[r][i].acquisitions
    BY <1>1, <1>2 DEF Kept
  <2>3. rows[i].acquisitions < MaxAttempts
    BY <1>1 DEF Due
  <2> HIDE DEF rows, row
  <2> QED BY <1>10, <2>1, <2>2, <2>3
<1> HIDE DEF rows, claim, row, s, j
<1>12. /\ item'[r][i] = row
       /\ \A k \in Items \ {i} : Kept(item[r][k], item'[r][k])
       /\ \A q \in Runs \ {r}, k \in Items : item'[q][k] = item[q][k]
  BY <1>1, <1>2, <1>4 DEF FencingInv, TypeOK
<1>13. ASSUME NEW q \in Runs, NEW k \in Items, LiveClaim(item'[q][k], clock)
       PROVE  q = r /\ k = i
  <2>1. CASE q # r
    <3>1. LiveClaim(item[q][k], clock)
      BY <1>12, <1>13, <2>1
    <3>2. lease.owner = q
      BY <3>1 DEF FencingInv, ClaimedIsRunning, LeaseCoversClaims, LiveClaim
    <3> QED BY <1>1, <2>1, <3>2 DEF LeaseLive
  <2>2. CASE q = r /\ k # i
    <3>1. item'[r][k] = rows[k] /\ rows[k] \in ItemRow
      BY <1>1, <1>2, <1>4, <2>2 DEF FencingInv, TypeOK
    <3>2. LiveClaim(rows[k], n)
      BY <1>1, <1>13, <2>2, <3>1, RegisterTypes DEF LiveClaim, ItemRow, FencingInv
    <3> QED BY <1>1, <3>2 DEF NoActiveClaim
  <2> QED BY <2>1, <2>2
<1>14. OneLiveClaim'
  BY <1>6, <1>13 DEF OneLiveClaim
<1>15. LeaseCoversClaims'
  <2> SUFFICES ASSUME LiveClaim(row, clock)
               PROVE  lease.owner = r /\ lease.expires >= row.expires
    BY <1>6, <1>12, <1>13 DEF LeaseCoversClaims
  <2>1. n + ClaimTime > clock
    BY <1>10 DEF LiveClaim
  <2>2. pc[w] = "claim" /\ NextClaimCovered(w)
    BY DEF ClaimGranted, MayClaim, FencingInv, LeaseCoversNextClaim
  <2> QED BY <1>1, <1>10, <2>1, <2>2 DEF NextClaimCovered
<1>16. LeaseCoversNextClaim'
  BY <1>6, <1>7, <1>8 DEF LeaseCoversNextClaim, NextClaimCovered, FencingInv
<1>17. ClaimsHeld'
  <2> SUFFICES ASSUME NEW v \in Workers PROVE ClaimHeld(v)'
    BY DEF ClaimsHeld
  <2>1. CASE v = w
    BY SMTT(60), <1>7, <1>9, <1>10, <1>11, <1>12, <2>1 DEF ClaimHeld
  <2>2. CASE v # w /\ pc[v] \in Claiming
    <3> DEFINE q == job[v].run
               k == job[v].item
    <3>1. q \in Runs /\ k \in Items /\ job[v].claim \in Nat /\ ClaimHeld(v)
      BY <2>2, WorkerKnown, FencingTyped DEF FencingInv, ClaimsHeld, Claiming
    <3>2. pc'[v] = pc[v] /\ job'[v] = job[v]
      BY <1>7, <2>2
    <3>3. CASE q = r /\ k = i
      <4>1. 0 < job[v].claim /\ job[v].claim < claim
        BY SMTT(60), <1>1, <1>11, <2>2, <3>1, <3>3, RowTypes DEF ClaimHeld, FencingInv
      <4> QED BY SMTT(60), <1>10, <1>11, <1>12, <3>1, <3>2, <3>3, <4>1 DEF ClaimHeld
    <3>4. CASE ~(q = r /\ k = i)
      <4>1. Kept(item[q][k], item'[q][k])
        BY ZenonT(60), <1>12, <3>1, <3>4 DEF Kept
      <4> QED BY <3>1, <3>2, <4>1, ClaimKept
    <3> QED BY <3>3, <3>4
  <2>3. CASE v # w /\ pc[v] \notin Claiming
    BY <1>7, <2>3 DEF ClaimHeld
  <2> QED BY <2>1, <2>2, <2>3
<1>18. ClaimsDistinct'
  <2>1. ASSUME NEW v \in Workers, v # w, pc[v] \in Claiming, job[v].run = r, job[v].item = i
        PROVE  job[v].claim # claim
    <3>1. job[v].claim <= item[r][i].attempt /\ job[v].claim \in Nat
      BY <2>1, WorkerKnown, FencingTyped DEF FencingInv, ClaimsHeld, ClaimHeld, Claiming
    <3> QED BY <1>1, <1>11, <3>1, RowTypes DEF FencingInv
  <2> QED BY <1>7, <1>9, <2>1 DEF FencingInv, ClaimsDistinct
<1>19. ClaimedIsRunning'
  BY SMTT(60), <1>1, <1>6, <1>12 DEF ClaimedIsRunning, FencingInv, Kept
<1>20. AcquisitionsBounded'
  <2> SUFFICES ASSUME NEW q \in Runs, NEW k \in Items
               PROVE  item'[q][k].acquisitions <= MaxAttempts
    BY DEF AcquisitionsBounded
  <2>1. item[q][k].acquisitions <= MaxAttempts
    BY DEF FencingInv, AcquisitionsBounded
  <2>2. item'[q][k].acquisitions = item[q][k].acquisitions
    BY <1>11, <1>12 DEF Kept
  <2> QED BY <2>1, <2>2
<1>21. WrittenByAClaim'
  <2> SUFFICES ASSUME NEW q \in Runs, NEW k \in Items
               PROVE  written[q][k] <= item'[q][k].attempt
    BY <1>6 DEF WrittenByAClaim
  <2>1. written[q][k] <= item[q][k].attempt /\ TypeOK
    BY DEF FencingInv, WrittenByAClaim
  <2>2. CASE q = r /\ k = i
    BY SMTT(60), <1>10, <1>11, <1>12, <2>1, <2>2, RowTypes
  <2>3. CASE ~(q = r /\ k = i)
    BY <1>12, <2>1, <2>3 DEF Kept
  <2> QED BY <2>2, <2>3
<1> QED BY <1>14, <1>15, <1>16, <1>17, <1>18, <1>19, <1>20, <1>21 DEF FencingInv, Typed

-----------------------------------------------------------------------------
(* The task, under its claim *)

\* The request keeps its claim, marks no acquisition and may renew the lease.
LEMMA TaskStepFenced ==
  ASSUME FencingInv, Typed', NEW w \in Workers, NEW s, NEW j,
         pc' = [pc EXCEPT ![w] = s], job' = [job EXCEPT ![w] = j],
         pc[w] \in Claiming, s \in Claiming \ {"claim"},
         j.run = job[w].run, j.item = job[w].item, j.claim = job[w].claim,
         s \in {"prepare", "execute"} =>
           pc[w] \in {"prepare", "execute"} /\ j.marked = job[w].marked,
         UNCHANGED <<clock, run, item>>,
         lease'.owner = lease.owner, lease'.expires >= lease.expires,
         WrittenByAClaim'
  PROVE  FencingInv'
<1>1. /\ pc'[w] = s /\ job'[w] = j
      /\ \A v \in Workers : v # w => pc'[v] = pc[v] /\ job'[v] = job[v]
  BY OthersWait, FencingTyped
<1>2. ClaimsHeld'
  BY <1>1 DEF FencingInv, ClaimsHeld, ClaimHeld
<1>3. ClaimsDistinct'
  BY <1>1 DEF FencingInv, ClaimsDistinct
<1>4. ClaimedIsRunning' /\ OneLiveClaim' /\ AcquisitionsBounded'
  BY DEF FencingInv, ClaimedIsRunning, OneLiveClaim, AcquisitionsBounded
<1>5. lease.expires \in Nat /\ lease'.expires \in Nat
  BY DEF Typed, TypeOK, FencingInv
<1>6. LeaseCoversClaims'
  <2> SUFFICES ASSUME NEW r \in Runs, NEW i \in Items, run[r] = "running",
                      LiveClaim(item[r][i], clock)
               PROVE  lease'.owner = r /\ lease'.expires >= item[r][i].expires
    BY DEF LeaseCoversClaims
  <2> QED BY <1>5, RowTypes DEF FencingInv, LeaseCoversClaims
<1>7. LeaseCoversNextClaim'
  <2> SUFFICES ASSUME NEW v \in Workers PROVE NextClaimCovered(v)'
    BY DEF LeaseCoversNextClaim
  <2>1. CASE v = w
    BY <1>1, <2>1 DEF NextClaimCovered
  <2>2. CASE v # w
    <3>1. job[v].now + ClaimTime \in Nat
      BY Constants DEF FencingInv, TypeOK, Job
    <3> QED BY <1>1, <1>5, <2>2, <3>1 DEF NextClaimCovered, FencingInv, LeaseCoversNextClaim
  <2> QED BY <2>1, <2>2
<1> QED BY <1>2, <1>3, <1>4, <1>6, <1>7 DEF FencingInv, Typed

LEMMA WrittenKept ==
  ASSUME FencingInv, UNCHANGED <<item, written>>
  PROVE  WrittenByAClaim'
BY DEF FencingInv, WrittenByAClaim

LEMMA PersistCutoffFenced ==
  ASSUME FencingInv, Typed', NEW w \in Workers, PersistCutoff(w)
  PROVE  FencingInv'
<1>1. /\ pc' = [pc EXCEPT ![w] = "execute"] /\ job' = [job EXCEPT ![w] = job[w]]
      /\ pc[w] = "prepare" /\ UNCHANGED <<clock, run, item, written>>
  BY DEF PersistCutoff, Goto, envVars, FencingInv, TypeOK
<1>2. lease'.owner = lease.owner /\ lease'.expires >= lease.expires
  <2>1. job[w].now \in Nat
    BY WorkerKnown, FencingTyped DEF PersistCutoff
  <2>2. lease' = [lease EXCEPT !.expires = Later(lease.expires, job[w].now + LeaseTime)]
    BY DEF PersistCutoff, FencingInv, TypeOK
  <2> QED BY <2>1, <2>2, Constants DEF Later, FencingInv, TypeOK
<1>3. WrittenByAClaim'
  BY <1>1, WrittenKept
<1> QED BY <1>1, <1>2, <1>3, TaskStepFenced DEF Claiming

\* execute_transaction writes under the claim that the request holds.
LEMMA CommitDataFenced ==
  ASSUME FencingInv, Typed', NEW w \in Workers, CommitData(w)
  PROVE  FencingInv'
<1>1. /\ pc' = [pc EXCEPT ![w] = "execute"] /\ job' = [job EXCEPT ![w] = job[w]]
      /\ pc[w] = "execute" /\ UNCHANGED <<clock, run, item, lease>>
  BY DEF CommitData, envVars, FencingInv, TypeOK
<1>2. WrittenByAClaim'
  <2>1. /\ job[w].run \in Runs /\ job[w].item \in Items
        /\ job[w].claim <= item[job[w].run][job[w].item].attempt
    BY <1>1, WorkerKnown, FencingTyped DEF FencingInv, ClaimsHeld, ClaimHeld, Claiming
  <2>2. written' = [written EXCEPT ![job[w].run][job[w].item] = job[w].claim]
    BY DEF CommitData
  <2> QED BY <1>1, <2>1, <2>2 DEF FencingInv, WrittenByAClaim, TypeOK
<1>3. lease'.owner = lease.owner /\ lease'.expires >= lease.expires
  BY <1>1, RegisterTypes DEF FencingInv
<1> QED BY <1>1, <1>2, <1>3, TaskStepFenced DEF Claiming

LEMMA TaskReturnsFenced ==
  ASSUME FencingInv, Typed', NEW w \in Workers, TaskReturns(w)
  PROVE  FencingInv'
<1>1. pc[w] = "execute" /\ UNCHANGED <<clock, lease, run, item, written>>
  BY DEF TaskReturns, dbVars, envVars
<1>2. job[w] \in Job
  BY <1>1, WorkerKnown, FencingTyped
<1>3. PICK s \in Statuses, b \in BOOLEAN : Outcome(w, s, b, "complete")
  BY <1>2 DEF TaskReturns, Statuses, Done, Job
<1> DEFINE j == [Settling(w) EXCEPT !.outcome = s, !.transient = b]
<1>4. j.run = job[w].run /\ j.item = job[w].item /\ j.claim = job[w].claim
  <2>1. /\ Settling(w).run = job[w].run /\ Settling(w).item = job[w].item
        /\ Settling(w).claim = job[w].claim
    BY <1>1, SettlingType, FencingTyped, Constants
  <2>2. j.run = Settling(w).run /\ j.item = Settling(w).item /\ j.claim = Settling(w).claim
    OBVIOUS
  <2> QED BY <2>1, <2>2
<1>5. pc' = [pc EXCEPT ![w] = "complete"] /\ job' = [job EXCEPT ![w] = j]
  BY <1>3 DEF Outcome, Goto
<1> HIDE DEF j
<1>6. WrittenByAClaim' /\ lease'.owner = lease.owner /\ lease'.expires >= lease.expires
  BY <1>1, WrittenKept DEF FencingInv, TypeOK
<1> QED BY <1>1, <1>4, <1>5, <1>6, TaskStepFenced DEF Claiming

LEMMA TaskPostponedFenced ==
  ASSUME FencingInv, Typed', NEW w \in Workers, TaskPostponed(w)
  PROVE  FencingInv'
<1>1. /\ pc[w] = "execute" /\ UNCHANGED <<clock, lease, run, item, written>>
      /\ pc' = [pc EXCEPT ![w] = "defer"]
  BY DEF TaskPostponed, Goto, dbVars, envVars
<1>2. PICK t, b :
        job' = [job EXCEPT ![w] = [Settling(w) EXCEPT !.retryAt = t, !.transient = b]]
  BY DEF TaskPostponed
<1> DEFINE j == [Settling(w) EXCEPT !.retryAt = t, !.transient = b]
<1>3. j.run = job[w].run /\ j.item = job[w].item /\ j.claim = job[w].claim
  <2>1. /\ Settling(w).run = job[w].run /\ Settling(w).item = job[w].item
        /\ Settling(w).claim = job[w].claim
    BY <1>1, SettlingType, FencingTyped, Constants DEF Statuses
  <2>2. j.run = Settling(w).run /\ j.item = Settling(w).item /\ j.claim = Settling(w).claim
    OBVIOUS
  <2> QED BY <2>1, <2>2
<1>4. job' = [job EXCEPT ![w] = j]
  BY <1>2
<1> HIDE DEF j
<1>5. WrittenByAClaim' /\ lease'.owner = lease.owner /\ lease'.expires >= lease.expires
  BY <1>1, WrittenKept DEF FencingInv, TypeOK
<1> QED BY <1>1, <1>3, <1>4, <1>5, TaskStepFenced DEF Claiming

\* mark_refresh_acquisition_started counts within the limit that the claim was
\* granted under, and no other request holds that claim.
LEMMA MarkAcquisitionFenced ==
  ASSUME FencingInv, Typed', NEW w \in Workers, MarkAcquisition(w)
  PROVE  FencingInv'
<1> DEFINE r == job[w].run
           i == job[w].item
           row == [item[r][i] EXCEPT !.acquisitions = @ + 1]
           j == [job[w] EXCEPT !.marked = TRUE]
<1>1. /\ pc[w] = "execute" /\ ~job[w].marked
      /\ item[r][i].status = "claimed" /\ item[r][i].token = job[w].claim
      /\ r \in Runs /\ i \in Items /\ job[w] \in Job
  BY WorkerKnown, FencingTyped DEF MarkAcquisition
<1>2. /\ item' = [item EXCEPT ![r][i] = row]
      /\ pc' = [pc EXCEPT ![w] = "execute"] /\ job' = [job EXCEPT ![w] = j]
      /\ clock' = clock /\ lease' = lease /\ run' = run /\ written' = written
  BY <1>1 DEF MarkAcquisition, envVars, FencingInv, TypeOK
<1>3. /\ row.acquisitions = item[r][i].acquisitions + 1
      /\ row.status = item[r][i].status /\ row.expires = item[r][i].expires
      /\ row.token = item[r][i].token /\ row.attempt = item[r][i].attempt
      /\ item[r][i].acquisitions < MaxAttempts /\ item[r][i].acquisitions \in Nat
  <2>1. item[r][i] \in ItemRow
    BY <1>1, RowTypes DEF FencingInv
  <2>2. item[r][i].acquisitions < MaxAttempts
    BY <1>1 DEF FencingInv, ClaimsHeld, ClaimHeld, Claiming
  <2> QED BY <2>1, <2>2 DEF ItemRow
<1>4. j.run = r /\ j.item = i /\ j.claim = job[w].claim /\ j.marked
  BY <1>1 DEF Job
<1> HIDE DEF row, j
<1>5. item'[r][i] = row /\ \A q \in Runs, k \in Items : ~(q = r /\ k = i) => item'[q][k] = item[q][k]
  BY <1>1, <1>2 DEF FencingInv, TypeOK
<1>6. /\ pc'[w] = "execute" /\ job'[w] = j
      /\ \A v \in Workers : v # w => pc'[v] = pc[v] /\ job'[v] = job[v]
  BY <1>2, OthersWait, FencingTyped
<1>7. \A q \in Runs, k \in Items :
        /\ LiveClaim(item'[q][k], clock) <=> LiveClaim(item[q][k], clock)
        /\ item'[q][k].expires = item[q][k].expires
        /\ item'[q][k].status = item[q][k].status
        /\ item'[q][k].attempt = item[q][k].attempt
        /\ item'[q][k].token = item[q][k].token
  BY <1>3, <1>5 DEF LiveClaim
<1>8. ClaimsDistinct'
  BY <1>1, <1>4, <1>6 DEF FencingInv, ClaimsDistinct, Claiming
<1>9. ClaimsHeld'
  <2> SUFFICES ASSUME NEW v \in Workers, pc'[v] \in Claiming PROVE ClaimHeld(v)'
    BY DEF ClaimsHeld, ClaimHeld
  <2>1. CASE v = w
    <3>1. ClaimHeld(w) /\ pc[w] \in Claiming
      BY <1>1 DEF FencingInv, ClaimsHeld, Claiming
    <3>2. /\ 0 < job[w].claim /\ job[w].claim <= item[r][i].attempt
          /\ item[r][i].status = "claimed"
      BY <1>1, <3>1 DEF ClaimHeld
    <3>3. PICK jw : jw = job'[w]
      OBVIOUS
    <3>4. jw.run = r /\ jw.item = i /\ jw.claim = job[w].claim /\ jw.marked
      BY <1>4, <1>6, <3>3
    <3>5. /\ 0 < jw.claim /\ jw.claim <= item'[jw.run][jw.item].attempt
          /\ item'[jw.run][jw.item].status = "claimed"
      BY <1>3, <1>5, <3>2, <3>4
    <3> QED BY <2>1, <3>3, <3>4, <3>5 DEF ClaimHeld
  <2>2. CASE v # w
    <3> DEFINE q == job[v].run
               k == job[v].item
    <3>1. /\ q \in Runs /\ k \in Items /\ ClaimHeld(v) /\ pc[v] \in Claiming
          /\ pc'[v] = pc[v] /\ job'[v] = job[v]
      BY <1>6, <2>2, WorkerKnown, FencingTyped DEF FencingInv, ClaimsHeld, Claiming
    <3>2. CASE q = r /\ k = i
      <4>1. job[v].claim # job[w].claim
        BY <1>1, <2>2, <3>1, <3>2 DEF FencingInv, ClaimsDistinct, Claiming
      <4> QED BY <1>1, <1>3, <1>5, <3>1, <3>2, <4>1 DEF ClaimHeld
    <3>3. CASE ~(q = r /\ k = i)
      BY <1>5, <3>1, <3>3 DEF ClaimHeld
    <3> QED BY <3>2, <3>3
  <2> QED BY <2>1, <2>2
<1>10. ClaimedIsRunning' /\ OneLiveClaim' /\ LeaseCoversClaims' /\ WrittenByAClaim'
  BY <1>2, <1>7 DEF FencingInv, ClaimedIsRunning, OneLiveClaim, LeaseCoversClaims,
                    WrittenByAClaim
<1>11. AcquisitionsBounded'
  <2>1. row.acquisitions <= MaxAttempts
    BY <1>3, Constants
  <2> QED BY <1>5, <2>1 DEF FencingInv, AcquisitionsBounded
<1>12. LeaseCoversNextClaim'
  BY <1>2, <1>6 DEF FencingInv, LeaseCoversNextClaim, NextClaimCovered
<1> QED BY <1>8, <1>9, <1>10, <1>11, <1>12 DEF FencingInv, Typed

-----------------------------------------------------------------------------
(* Settling and finalizing *)

LEMMA DeferClaimFenced ==
  ASSUME FencingInv, Typed', NEW w \in Workers, DeferClaim(w)
  PROVE  FencingInv'
<1> DEFINE r == job[w].run
           i == job[w].item
           row == [item[r][i] EXCEPT !.status = "pending", !.token = 0, !.expires = 0,
                     !.nextAttempt = job[w].retryAt, !.deferred = TRUE,
                     !.transient = job[w].transient]
           rows == [item[r] EXCEPT ![i] = row]
<1>1. r \in Runs /\ i \in Items
  BY WorkerKnown, FencingTyped DEF DeferClaim
<1>2. /\ item' = [item EXCEPT ![r] = rows]
      /\ Stop(w) /\ UNCHANGED <<lease, run, cutoff, result, written, envVars>>
  BY <1>1 DEF DeferClaim, FencingInv, TypeOK
<1>3. Kept(item[r][i], row)
  <2>1. item[r][i] \in ItemRow
    BY <1>1, RowTypes DEF FencingInv
  <2> QED BY <2>1 DEF ItemRow, Kept
<1> HIDE DEF row
<1>4. \A k \in Items : Kept(item[r][k], rows[k])
  BY <1>1, <1>3 DEF Kept, FencingInv, TypeOK
<1> HIDE DEF rows
<1>5. rows \in [Items -> ItemRow]
  BY <1>1, <1>2 DEF FencingInv, Typed, TypeOK
<1> QED BY <1>1, <1>2, <1>4, <1>5, UnclaimedStepFenced

\* The item keeps its token, which no other request holds.
LEMMA CompleteClaimFenced ==
  ASSUME FencingInv, Typed', NEW w \in Workers, CompleteClaim(w)
  PROVE  FencingInv'
<1> DEFINE r == job[w].run
           i == job[w].item
           row == [item[r][i] EXCEPT !.status = job[w].outcome, !.transient = job[w].transient]
<1>1. /\ pc[w] = "complete" /\ r \in Runs /\ i \in Items
      /\ item[r][i].token = job[w].claim /\ item[r][i].status = "claimed"
      /\ run[r] = "running"
  BY WorkerKnown, FencingTyped DEF CompleteClaim, Current
<1>2. /\ item' = [item EXCEPT ![r][i] = row]
      /\ pc' = [pc EXCEPT ![w] = "read"] /\ job' = job
      /\ clock' = clock /\ lease' = lease /\ run' = run /\ written' = written
  BY <1>1 DEF CompleteClaim, Goto, envVars, FencingInv, TypeOK
<1>3. /\ row.acquisitions = item[r][i].acquisitions
      /\ row.expires = item[r][i].expires
      /\ row.token = item[r][i].token /\ row.attempt = item[r][i].attempt
  <2>1. item[r][i] \in ItemRow
    BY <1>1, RowTypes DEF FencingInv
  <2> QED BY <2>1 DEF ItemRow
<1> HIDE DEF row
<1>4. item'[r][i] = row /\ \A q \in Runs, k \in Items : ~(q = r /\ k = i) => item'[q][k] = item[q][k]
  BY <1>1, <1>2 DEF FencingInv, TypeOK
<1>5. /\ pc'[w] = "read"
      /\ \A v \in Workers : v # w => pc'[v] = pc[v] /\ job'[v] = job[v]
  BY <1>2 DEF FencingInv, TypeOK
<1>6. \A q \in Runs, k \in Items :
        /\ LiveClaim(item'[q][k], clock) => LiveClaim(item[q][k], clock)
        /\ item'[q][k].status = "claimed" => item[q][k].status = "claimed"
        /\ item'[q][k].expires = item[q][k].expires
        /\ item'[q][k].attempt = item[q][k].attempt
        /\ item'[q][k].acquisitions = item[q][k].acquisitions
  BY <1>1, <1>3, <1>4 DEF LiveClaim
<1>7. ClaimsDistinct'
  BY <1>5 DEF FencingInv, ClaimsDistinct, Claiming
<1>8. ClaimsHeld'
  <2> SUFFICES ASSUME NEW v \in Workers, pc'[v] \in Claiming PROVE ClaimHeld(v)'
    BY DEF ClaimsHeld, ClaimHeld
  <2> DEFINE q == job[v].run
             k == job[v].item
  <2>1. v # w /\ pc[v] \in Claiming /\ pc'[v] = pc[v] /\ job'[v] = job[v]
    BY <1>5 DEF Claiming
  <2>2. q \in Runs /\ k \in Items /\ ClaimHeld(v)
    BY <2>1, WorkerKnown, FencingTyped DEF FencingInv, ClaimsHeld, Claiming
  <2>3. CASE q = r /\ k = i
    <3>1. job[v].claim # job[w].claim
      BY <1>1, <2>1, <2>3 DEF FencingInv, ClaimsDistinct, Claiming
    <3> QED BY <1>1, <1>3, <1>4, <2>1, <2>2, <2>3, <3>1 DEF ClaimHeld
  <2>4. CASE ~(q = r /\ k = i)
    BY <1>4, <2>1, <2>2, <2>4 DEF ClaimHeld
  <2> QED BY <2>3, <2>4
<1>9. /\ ClaimedIsRunning' /\ OneLiveClaim' /\ LeaseCoversClaims'
      /\ WrittenByAClaim' /\ AcquisitionsBounded'
  BY <1>2, <1>6 DEF FencingInv, ClaimedIsRunning, OneLiveClaim, LeaseCoversClaims,
                    WrittenByAClaim, AcquisitionsBounded
<1>10. LeaseCoversNextClaim'
  BY <1>2, <1>5 DEF FencingInv, LeaseCoversNextClaim, NextClaimCovered
<1> QED BY <1>7, <1>8, <1>9, <1>10 DEF FencingInv, Typed

\* The run that ends has no claim, and no other run has the lease to hold one.
LEMMA FinalizeRunFenced ==
  ASSUME FencingInv, Typed', NEW w \in Workers, FinalizeRun(w)
  PROVE  FencingInv'
<1> DEFINE r == job[w].run
           n == job[w].now
           verdict == Verdict(job[w].view)
<1>1. /\ r \in Runs /\ n \in Nat /\ n <= clock
      /\ CanFinalize(r, n, verdict)
  BY WorkerKnown, FencingTyped DEF FinalizeRun
<1>2. /\ run' = [run EXCEPT ![r] = verdict] /\ Stop(w)
      /\ clock' = clock /\ item' = item /\ written' = written
  BY DEF FinalizeRun, envVars
<1>3. verdict # "running"
  BY DEF Verdict
<1> HIDE DEF verdict
<1>4. \A q \in Runs : run'[q] = "running" => q # r /\ run[q] = "running"
  BY <1>2, <1>3 DEF FencingInv, TypeOK
<1>5. lease.owner = r /\ \A i \in Items : item[r][i].status # "claimed"
  BY <1>1 DEF CanFinalize, LeaseLive
<1>6. /\ pc'[w] = "idle"
      /\ \A v \in Workers : v # w => pc'[v] = pc[v] /\ job'[v] = job[v]
  BY <1>2, StopTyped, FencingTyped
<1>7. RowsKeep
  BY <1>2 DEF RowsKeep, Kept
<1>8. ClaimedIsRunning'
  BY <1>1, <1>2, <1>5 DEF FencingInv, ClaimedIsRunning, TypeOK
<1>9. LeaseCoversClaims'
  BY <1>2, <1>4, <1>5 DEF FencingInv, LeaseCoversClaims
<1>10. ASSUME NEW v \in Workers, v # w PROVE NextClaimCovered(v)'
  <2> SUFFICES ASSUME pc[v] = "claim", run'[job[v].run] = "running",
                      job[v].now + ClaimTime > clock
               PROVE  FALSE
    BY <1>2, <1>6, <1>10 DEF NextClaimCovered
  <2>1. job[v].run \in Runs
    BY WorkerKnown, FencingTyped
  <2>2. lease.owner = job[v].run
    BY <1>4, <2>1 DEF FencingInv, LeaseCoversNextClaim, NextClaimCovered
  <2> QED BY <1>4, <1>5, <2>1, <2>2
<1> QED BY <1>2, <1>6, <1>7, <1>8, <1>9, <1>10, LeavesClaim DEF Claiming

-----------------------------------------------------------------------------
(* POST /api/refresh, and the environment *)

\* The legacy owner takes the lease only where no live claim, and no request
\* that could still claim, relies on it.
LEMMA LegacyFenced ==
  ASSUME FencingInv, Typed', NEW d \in Legacy, LegacyStep(d)
  PROVE  FencingInv'
<1>1. UNCHANGED unchangedByLegacy
  BY DEF LegacyStep, LegacyAcquire, LegacyHeartbeat, LegacyRelease, LegacyCrash
<1>2. lease' = lease \/ lease.owner \notin Runs \/ lease.expires <= clock
  BY Constants DEF LegacyStep, LegacyAcquire, LegacyHeartbeat, LegacyRelease, LegacyCrash
<1>3. LeaseCoversClaims'
  <2> SUFFICES ASSUME NEW r \in Runs, NEW i \in Items, run[r] = "running",
                      LiveClaim(item[r][i], clock)
               PROVE  lease'.owner = r /\ lease'.expires >= item[r][i].expires
    BY <1>1 DEF LeaseCoversClaims, unchangedByLegacy
  <2>1. lease.owner = r /\ lease.expires >= item[r][i].expires
    BY DEF FencingInv, LeaseCoversClaims
  <2>2. lease.expires > clock
    BY <2>1, RowTypes, RegisterTypes DEF LiveClaim, FencingInv
  <2>3. lease' = lease
    BY <1>2, <2>1, <2>2, RegisterTypes DEF FencingInv
  <2> QED BY <2>1, <2>3
<1>4. LeaseCoversNextClaim'
  <2> SUFFICES ASSUME NEW v \in Workers, pc[v] = "claim", run[job[v].run] = "running",
                      job[v].now + ClaimTime > clock
               PROVE  /\ lease'.owner = job[v].run
                      /\ lease'.expires >= job[v].now + ClaimTime
    BY <1>1 DEF LeaseCoversNextClaim, NextClaimCovered, unchangedByLegacy
  <2>1. lease.owner = job[v].run /\ lease.expires >= job[v].now + ClaimTime
    BY DEF FencingInv, LeaseCoversNextClaim, NextClaimCovered
  <2>2. job[v].run \in Runs /\ job[v].now \in Nat
    BY WorkerKnown, FencingTyped
  <2>3. lease' = lease
    BY <1>2, <2>1, <2>2, RegisterTypes, Constants DEF FencingInv
  <2> QED BY <2>1, <2>3
<1>5. ClaimsHeld' /\ ClaimsDistinct' /\ ClaimedIsRunning'
  BY <1>1 DEF FencingInv, ClaimsHeld, ClaimHeld, ClaimsDistinct, ClaimedIsRunning,
              unchangedByLegacy
<1>6. OneLiveClaim' /\ AcquisitionsBounded' /\ WrittenByAClaim'
  BY <1>1 DEF FencingInv, OneLiveClaim, AcquisitionsBounded, WrittenByAClaim,
              unchangedByLegacy
<1> QED BY <1>3, <1>4, <1>5, <1>6 DEF FencingInv, Typed

\* Time only ends claims.
LEMMA EnvironmentFenced ==
  ASSUME FencingInv, Typed', Tick \/ \E s \in Scopes : PublisherCools(s) \/ PublisherRecovers(s)
  PROVE  FencingInv'
<1>1. UNCHANGED <<dbVars, pc, job>>
  BY DEF Tick, PublisherCools, PublisherRecovers
<1>2. clock \in Nat /\ clock' \in Nat /\ clock' >= clock
  BY DEF Tick, PublisherCools, PublisherRecovers, FencingInv, TypeOK
<1>3. ASSUME NEW r \in Runs, NEW i \in Items, LiveClaim(item'[r][i], clock')
      PROVE  LiveClaim(item[r][i], clock)
  BY <1>1, <1>2, <1>3, RowTypes DEF LiveClaim, dbVars, FencingInv
<1>4. LeaseCoversClaims' /\ OneLiveClaim'
  BY <1>1, <1>3 DEF LeaseCoversClaims, OneLiveClaim, FencingInv, dbVars
<1>5. LeaseCoversNextClaim'
  <2> SUFFICES ASSUME NEW v \in Workers, pc[v] = "claim", run[job[v].run] = "running",
                      job[v].now + ClaimTime > clock'
               PROVE  /\ lease.owner = job[v].run
                      /\ lease.expires >= job[v].now + ClaimTime
    BY <1>1 DEF LeaseCoversNextClaim, NextClaimCovered, dbVars
  <2>1. job[v].now + ClaimTime > clock
    <3>1. job[v].now + ClaimTime \in Nat
      BY Constants, WorkerKnown, FencingTyped
    <3> QED BY <1>2, <3>1
  <2> QED BY <2>1 DEF FencingInv, LeaseCoversNextClaim, NextClaimCovered
<1>6. ClaimsHeld' /\ ClaimsDistinct' /\ ClaimedIsRunning'
  BY <1>1 DEF FencingInv, ClaimsHeld, ClaimHeld, ClaimsDistinct, ClaimedIsRunning, dbVars
<1>7. AcquisitionsBounded' /\ WrittenByAClaim'
  BY <1>1 DEF FencingInv, AcquisitionsBounded, WrittenByAClaim, dbVars
<1> QED BY <1>4, <1>5, <1>6, <1>7 DEF FencingInv, Typed

LEMMA FencingStep == FencingInv /\ [Next]_vars => FencingInv'
<1> SUFFICES ASSUME FencingInv, [Next]_vars PROVE FencingInv'
  OBVIOUS
<1>1. Typed'
  BY FencingTyped, TypedStep
<1>2. CASE UNCHANGED vars
  <2>1. UNCHANGED <<clock, lease, run, item, written, pc, job>>
    BY <1>2 DEF vars
  <2> QED BY <1>1, <2>1
          DEF FencingInv, Typed, ClaimsHeld, ClaimHeld, ClaimsDistinct, ClaimedIsRunning,
              OneLiveClaim, LeaseCoversClaims, LeaseCoversNextClaim, NextClaimCovered,
              AcquisitionsBounded, WrittenByAClaim
<1>3. ASSUME NEW w \in Workers, Transaction(w) PROVE FencingInv'
  BY <1>1, <1>3, StartRunFenced, ResumeRunFenced, ClaimGrantedFenced, ClaimDeferredFenced,
     ClaimDeniedFenced, PersistCutoffFenced, MarkAcquisitionFenced, CommitDataFenced,
     TaskReturnsFenced, TaskPostponedFenced, DeferClaimFenced, CompleteClaimFenced,
     ReadBackFenced, RenewRunFenced, FinalizeRunFenced, StoppedFenced
  DEF Transaction
<1> QED BY <1>1, <1>2, <1>3, RequestFenced, LegacyFenced, EnvironmentFenced DEF Next

-----------------------------------------------------------------------------
(* The theorems *)

\* Every claim is fenced, from the lease that create_or_resume_run renews for
\* it to the settlement that complete_work_item_claim allows it.
THEOREM FencingHolds == Spec => []FencingInv
BY FencingInit, FencingStep, PTL DEF Spec

LEMMA FencedWriterUnique == FencingInv => SingleWriter
<1> SUFFICES ASSUME FencingInv, NEW v \in Workers, NEW w \in Workers,
                    pc[v] = "execute", pc[w] = "execute", Fenced(v), Fenced(w)
             PROVE  v = w
  BY DEF SingleWriter
<1>1. /\ job[v].run \in Runs /\ job[v].item \in Items
      /\ job[w].run \in Runs /\ job[w].item \in Items
  BY WorkerKnown, FencingTyped
<1>2. job[v].run = job[w].run
  BY DEF Fenced, LeaseLive
<1>3. /\ LiveClaim(item[job[v].run][job[v].item], clock)
      /\ LiveClaim(item[job[w].run][job[w].item], clock)
  BY DEF Fenced, LiveClaim, FencingInv, ClaimsHeld, ClaimHeld, Claiming
<1>4. job[v].item = job[w].item
  BY <1>1, <1>2, <1>3 DEF FencingInv, OneLiveClaim
<1>5. job[v].claim = job[w].claim
  BY <1>2, <1>4 DEF Fenced
<1> QED BY <1>2, <1>4, <1>5 DEF FencingInv, ClaimsDistinct, Claiming

\* However many requests execute, over all runs and items, and whatever expired
\* under them: assert_current_refresh_attempt lets at most one of them write.
THEOREM OneWriter == Spec => []SingleWriter
BY FencingHolds, FencedWriterUnique, PTL

\* The lease of a running run never expires under a live claim, so that
\* _abandon_expired_run cuts none short.
THEOREM LeaseOutlivesClaims == Spec => []LeaseCoversClaims
<1>1. FencingInv => LeaseCoversClaims
  BY DEF FencingInv
<1> QED BY <1>1, FencingHolds, PTL

\* mark_refresh_acquisition_started counts no item beyond the limit.
THEOREM AcquisitionLimit == Spec => []AcquisitionsBounded
<1>1. FencingInv => AcquisitionsBounded
  BY DEF FencingInv
<1> QED BY <1>1, FencingHolds, PTL

\* Only CommitData writes data, and only under the newest claim of the item.
LEMMA WritesMoveForward ==
  FencingInv /\ [Next]_vars =>
    [\A r \in Runs, i \in Items : written'[r][i] >= written[r][i]]_vars
<1> SUFFICES ASSUME FencingInv, Next, NEW r \in Runs, NEW i \in Items
             PROVE  written'[r][i] >= written[r][i]
  OBVIOUS
<1>1. written[r][i] \in Nat
  BY RowTypes DEF FencingInv
<1>2. CASE \E w \in Workers : CommitData(w)
  <2>1. PICK w \in Workers : CommitData(w)
    BY <1>2
  <2>2. job[w].run \in Runs /\ job[w].item \in Items
    BY <2>1, WorkerKnown, FencingTyped DEF CommitData
  <2>3. written' = [written EXCEPT ![job[w].run][job[w].item] = job[w].claim]
    BY <2>1 DEF CommitData
  <2>4. written[job[w].run][job[w].item] <= job[w].claim
    BY <2>1, <2>2 DEF CommitData, Fenced, FencingInv, WrittenByAClaim
  <2> QED BY <1>1, <2>2, <2>3, <2>4 DEF FencingInv, TypeOK
<1>3. CASE written' = written
  BY <1>1, <1>3
<1>4. written' = written \/ \E w \in Workers : CommitData(w)
  <2>1. ASSUME NEW w \in Workers, Request(w) PROVE written' = written
    BY <2>1 DEF Request, BeginStart, BeginAdvance, BeginFinalize, Begin, dbVars
  <2>2. ASSUME NEW w \in Workers, Transaction(w), ~CommitData(w) PROVE written' = written
    BY <2>2 DEF Transaction, StartRun, ResumeRun, RenewRun, Acquire, ClaimGranted,
                ClaimDeferred, ClaimDenied, PersistCutoff, MarkAcquisition, TaskReturns,
                TaskPostponed, DeferClaim, CompleteClaim, ReadBack, FinalizeRun,
                Return, Crash, dbVars
  <2>3. ASSUME NEW d \in Legacy, LegacyStep(d) PROVE written' = written
    BY <2>3 DEF LegacyStep, LegacyAcquire, LegacyHeartbeat, LegacyRelease, LegacyCrash,
                unchangedByLegacy
  <2>4. ASSUME Tick \/ \E s \in Scopes : PublisherCools(s) \/ PublisherRecovers(s)
        PROVE  written' = written
    BY <2>4 DEF Tick, PublisherCools, PublisherRecovers, dbVars
  <2> QED BY <2>1, <2>2, <2>3, <2>4 DEF Next
<1> QED BY <1>2, <1>3, <1>4

\* The data of an item is never overwritten by an older claim, however late the
\* request that holds that claim comes back to write.
THEOREM WritesInOrder == Spec => NoStaleWrite
<1>1. Spec => [][Next]_vars
  BY PTL DEF Spec
<1> QED BY <1>1, FencingHolds, WritesMoveForward, PTL DEF NoStaleWrite

-----------------------------------------------------------------------------
(* No claim is taken from the request that holds it *)

\* What is live now was live at any time a request has captured.
LEMMA LiveSince ==
  ASSUME TypeOK, NEW r \in Runs, NEW i \in Items, LiveClaim(item[r][i], clock),
         NEW n \in Nat, n <= clock
  PROVE  LiveClaim(item[r][i], n) /\ Swept(item[r][i], n) = item[r][i]
<1>1. item[r][i].expires \in Nat /\ clock \in Nat
  BY RowTypes, RegisterTypes
<1> QED BY <1>1 DEF LiveClaim, Swept

LEMMA AcquireSpares ==
  ASSUME TypeOK, NEW q \in Runs, NEW n \in Nat, n <= clock, Acquire(q, n),
         NEW r \in Runs, NEW i \in Items, LiveClaim(item[r][i], clock)
  PROVE  item'[r][i] = item[r][i]
<1>1. LiveClaim(item[r][i], n)
  BY LiveSince
<1>2. r \notin Overdue(q, n)
  BY <1>1 DEF Acquire, CanAcquire
<1> QED BY <1>2 DEF Acquire, TypeOK

LEMMA DeferredRows ==
  ASSUME NEW w \in Workers, ClaimDeferred(w)
  PROVE  /\ MayClaim(w)
         /\ NoActiveClaim(SweptRows(job[w].run, job[w].now), job[w].now)
         /\ \E new : item' = [item EXCEPT ![job[w].run] = new]
<1> DEFINE r == job[w].run
           i == job[w].item
           n == job[w].now
           rows == SweptRows(r, n)
           Defer(t) == [rows EXCEPT ![i].nextAttempt = t, ![i].deferred = TRUE]
<1>1. MayClaim(w) /\ NoActiveClaim(rows, n)
  BY DEF ClaimDeferred
<1>2. PICK t : item' = [item EXCEPT ![r] = Defer(t)]
  BY DEF ClaimDeferred
<1> HIDE DEF Defer, rows
<1>3. \E new : item' = [item EXCEPT ![r] = new]
  BY <1>2
<1> QED BY <1>1, <1>3 DEF rows

LEMMA ClaimSpares ==
  ASSUME FencingInv, NEW w \in Workers,
         ClaimGranted(w) \/ ClaimDeferred(w) \/ ClaimDenied(w),
         NEW p \in Runs, NEW k \in Items, LiveClaim(item[p][k], clock)
  PROVE  item'[p][k] = item[p][k]
<1> DEFINE r == job[w].run
           i == job[w].item
           n == job[w].now
<1>1. /\ pc[w] = "claim"
      /\ \E new : item' = [item EXCEPT ![r] = new]
      /\ NoActiveClaim(SweptRows(r, n), n) \/ item' = [item EXCEPT ![r] = SweptRows(r, n)]
  <2>1. CASE ClaimGranted(w)
    <3>1. MayClaim(w) /\ NoActiveClaim(SweptRows(r, n), n)
      BY <2>1 DEF ClaimGranted
    <3>2. PICK row : item' = [item EXCEPT ![r] = [SweptRows(r, n) EXCEPT ![i] = row]]
      BY <2>1 DEF ClaimGranted
    <3> QED BY <3>1, <3>2 DEF MayClaim
  <2>2. CASE ClaimDeferred(w)
    BY <2>2, DeferredRows DEF MayClaim
  <2>3. CASE ClaimDenied(w)
    <3>1. MayClaim(w) /\ item' = [item EXCEPT ![r] = SweptRows(r, n)]
      BY <2>3 DEF ClaimDenied
    <3> QED BY <3>1 DEF MayClaim
  <2> QED BY <2>1, <2>2, <2>3
<1>2. r \in Runs /\ n \in Nat /\ n <= clock /\ TypeOK
  BY <1>1, WorkerKnown, FencingTyped DEF FencingInv, JobsKnown
<1>3. CASE p # r
  BY <1>1, <1>2, <1>3 DEF TypeOK
<1>4. CASE p = r
  <2>1. SweptRows(r, n)[k] = item[p][k] /\ LiveClaim(item[p][k], n)
    BY <1>2, <1>4, LiveSince DEF SweptRows
  <2>2. ~NoActiveClaim(SweptRows(r, n), n)
    BY <2>1 DEF NoActiveClaim
  <2>3. item' = [item EXCEPT ![r] = SweptRows(r, n)]
    BY <1>1, <2>2
  <2> QED BY <1>2, <1>4, <2>1, <2>3 DEF TypeOK
<1> QED BY <1>3, <1>4

\* mark_refresh_acquisition_started and complete_work_item_claim keep the token.
LEMMA TokenKept ==
  ASSUME FencingInv, NEW w \in Workers, MarkAcquisition(w) \/ CompleteClaim(w),
         NEW r \in Runs, NEW i \in Items
  PROVE  item'[r][i].token = item[r][i].token
<1> DEFINE q == job[w].run
           j == job[w].item
<1>1. q \in Runs /\ j \in Items /\ item[q][j] \in ItemRow /\ TypeOK
  BY WorkerKnown, FencingTyped, RowTypes DEF MarkAcquisition, CompleteClaim, FencingInv
<1>2. PICK row : item' = [item EXCEPT ![q][j] = row] /\ row.token = item[q][j].token
  <2>1. CASE MarkAcquisition(w)
    <3> DEFINE row == [item[q][j] EXCEPT !.acquisitions = item[q][j].acquisitions + 1]
    <3>1. item' = [item EXCEPT ![q][j] = row]
      BY <2>1, <1>1 DEF MarkAcquisition, TypeOK
    <3>2. row.token = item[q][j].token
      BY <1>1 DEF ItemRow
    <3> HIDE DEF row
    <3> QED BY <3>1, <3>2
  <2>2. CASE CompleteClaim(w)
    <3> DEFINE row == [item[q][j] EXCEPT !.status = job[w].outcome, !.transient = job[w].transient]
    <3>1. item' = [item EXCEPT ![q][j] = row]
      BY <2>2, <1>1 DEF CompleteClaim, TypeOK
    <3>2. row.token = item[q][j].token
      BY <1>1 DEF ItemRow
    <3> HIDE DEF row
    <3> QED BY <3>1, <3>2
  <2> QED BY <2>1, <2>2
<1> QED BY <1>1, <1>2 DEF TypeOK

LEMMA LiveClaimsStand ==
  FencingInv /\ [Next]_vars =>
    [\A r \in Runs, i \in Items :
       LiveClaim(item[r][i], clock) /\ item'[r][i].token # item[r][i].token =>
         \E w \in Workers :
           /\ pc[w] = "defer" /\ pc'[w] = "idle"
           /\ job[w].run = r /\ job[w].item = i
           /\ job[w].claim = item[r][i].token]_vars
<1> SUFFICES ASSUME FencingInv, Next, NEW p \in Runs, NEW k \in Items,
                    LiveClaim(item[p][k], clock), item'[p][k].token # item[p][k].token
             PROVE  \E w \in Workers :
                      /\ pc[w] = "defer" /\ pc'[w] = "idle"
                      /\ job[w].run = p /\ job[w].item = k
                      /\ job[w].claim = item[p][k].token
  OBVIOUS
<1>1. TypeOK /\ item' # item
  BY DEF FencingInv
<1>2. PICK w \in Workers : Request(w) \/ Transaction(w)
  BY <1>1 DEF Next, Tick, PublisherCools, PublisherRecovers, LegacyStep, LegacyAcquire,
              LegacyHeartbeat, LegacyRelease, LegacyCrash, unchangedByLegacy, dbVars
<1>3. ~(StartRun(w) \/ ResumeRun(w) \/ RenewRun(w))
  <2> SUFFICES ASSUME StartRun(w) \/ ResumeRun(w) \/ RenewRun(w) PROVE FALSE
    OBVIOUS
  <2>1. /\ job[w].run \in Runs /\ job[w].now \in Nat /\ job[w].now <= clock
        /\ Acquire(job[w].run, job[w].now)
    BY WorkerKnown, FencingTyped DEF StartRun, ResumeRun, RenewRun
  <2> QED BY <1>1, <2>1, AcquireSpares
<1>4. ~(ClaimGranted(w) \/ ClaimDeferred(w) \/ ClaimDenied(w))
  BY ClaimSpares
<1>5. ~(MarkAcquisition(w) \/ CompleteClaim(w))
  BY TokenKept
<1>6. DeferClaim(w)
  <2> SUFFICES ASSUME \/ Request(w) \/ PersistCutoff(w) \/ CommitData(w) \/ TaskReturns(w)
                      \/ TaskPostponed(w) \/ ReadBack(w) \/ FinalizeRun(w) \/ Return(w) \/ Crash(w)
               PROVE  item' = item
    BY <1>1, <1>2, <1>3, <1>4, <1>5 DEF Transaction
  <2> QED BY DEF Request, BeginStart, BeginAdvance, BeginFinalize, Begin, PersistCutoff,
                 CommitData, TaskReturns, TaskPostponed, ReadBack, FinalizeRun, Return, Crash,
                 dbVars
<1>7. /\ pc[w] = "defer" /\ pc' = [pc EXCEPT ![w] = "idle"]
      /\ item[job[w].run][job[w].item].token = job[w].claim
      /\ \E row : item' = [item EXCEPT ![job[w].run][job[w].item] = row]
  BY <1>6 DEF DeferClaim, Stop, Current
<1>8. job[w].run \in Runs /\ job[w].item \in Items
  BY <1>7, WorkerKnown, FencingTyped
<1>9. job[w].run = p /\ job[w].item = k
  BY <1>1, <1>7, <1>8 DEF TypeOK
<1> QED BY <1>1, <1>7, <1>9 DEF TypeOK

\* A live claim loses its token to nobody but the request that defers it: no
\* takeover, sweep or other claim cuts a request short while its claim lasts.
THEOREM LiveClaimsStandStill == Spec => LiveClaimStands
<1>1. Spec => [][Next]_vars
  BY PTL DEF Spec
<1> QED BY <1>1, FencingHolds, LiveClaimsStand, PTL DEF LiveClaimStands

-----------------------------------------------------------------------------
(* What a run shows, and how it ends *)

LEMMA RefinementInit == Init => RefinementInv
<1> SUFFICES ASSUME Init PROVE RefinementInv
  OBVIOUS
<1>1. FencingInv
  BY FencingInit
<1>2. RunningOwnsLease /\ SharedCutoff
  BY DEF Init, RunningOwnsLease, SharedCutoff
<1>3. \A w \in Workers : CutoffRead(w) /\ ViewTrue(w)
  BY DEF Init, CutoffRead, ViewTrue
<1> QED BY <1>1, <1>2, <1>3 DEF RefinementInv

-----------------------------------------------------------------------------
(* What is done stands *)

DoneStands ==
  \A r \in Runs, i \in Items :
    item[r][i].status \in Done => item'[r][i].status = item[r][i].status

Stands == \A r \in Runs, i \in Items : Settlement(item'[r][i]) = Settlement(item[r][i])

LEMMA StandsDone ==
  ASSUME Stands
  PROVE  DoneStands /\ settlement' = settlement
<1>1. DoneStands
  BY DEF Stands, DoneStands, Settlement, Done
<1>2. settlement' = settlement
  BY DEF Stands, settlement
<1> QED BY <1>1, <1>2

LEMMA SameStands == item' = item => Stands
BY DEF Stands

LEMMA AcquireStands ==
  ASSUME TypeOK, NEW r \in Runs, NEW n \in Nat, Acquire(r, n)
  PROVE  Stands
<1> SUFFICES ASSUME NEW q \in Runs, NEW i \in Items
             PROVE  Settlement(item'[q][i]) = Settlement(item[q][i])
  BY DEF Stands
<1>1. item[q][i] \in ItemRow
  BY RowTypes
<1>2. item'[q][i] = item[q][i] \/ item'[q][i] = Abandoned(item[q][i])
  BY DEF Acquire, TypeOK
<1>3. Settlement(Abandoned(item[q][i])) = Settlement(item[q][i])
  BY <1>1 DEF Settlement, Abandoned, ItemRow, Done
<1> QED BY <1>2, <1>3

LEMMA SweepStands ==
  ASSUME TypeOK, NEW r \in Runs, NEW n, NEW i \in Items
  PROVE  /\ Settlement(SweptRows(r, n)[i]) = Settlement(item[r][i])
         /\ SweptRows(r, n) \in [Items -> ItemRow]
<1>1. item[r][i] \in ItemRow
  BY RowTypes
<1>2. Settlement(Swept(item[r][i], n)) = Settlement(item[r][i])
  BY <1>1 DEF Settlement, Swept, ItemRow, Done
<1> QED BY <1>2, SweptRowsType DEF SweptRows

\* A transaction that rewrites the rows of one run.
LEMMA RowsStand ==
  ASSUME TypeOK, NEW r \in Runs, NEW rows, item' = [item EXCEPT ![r] = rows],
         \A i \in Items : Settlement(rows[i]) = Settlement(item[r][i])
  PROVE  Stands
BY DEF TypeOK, Stands

LEMMA ClaimStands ==
  ASSUME FencingInv, NEW w \in Workers,
         ClaimGranted(w) \/ ClaimDeferred(w) \/ ClaimDenied(w)
  PROVE  Stands
<1> DEFINE r == job[w].run
           i == job[w].item
           rows == SweptRows(r, job[w].now)
<1>1. r \in Runs /\ i \in Items /\ TypeOK
  BY WorkerKnown, FencingTyped DEF ClaimGranted, ClaimDeferred, ClaimDenied, MayClaim, FencingInv
<1>2. rows \in [Items -> ItemRow] /\ \A k \in Items : Settlement(rows[k]) = Settlement(item[r][k])
  BY <1>1, SweepStands
<1>3. CASE ClaimDenied(w)
  <2>1. item' = [item EXCEPT ![r] = rows]
    BY <1>3 DEF ClaimDenied
  <2> HIDE DEF rows
  <2> QED BY <1>1, <1>2, <2>1, RowsStand
<1>4. CASE ClaimDeferred(w)
  <2>1. PICK t : item' = [item EXCEPT ![r] = [rows EXCEPT ![i].nextAttempt = t, ![i].deferred = TRUE]]
    BY <1>4 DEF ClaimDeferred
  <2> HIDE DEF rows
  <2> DEFINE new == [rows EXCEPT ![i].nextAttempt = t, ![i].deferred = TRUE]
  <2>2. \A k \in Items : new[k].status = rows[k].status
    BY <1>1, <1>2 DEF ItemRow
  <2>3. \A k \in Items : Settlement(new[k]) = Settlement(item[r][k])
    BY <1>2, <2>2 DEF Settlement
  <2> HIDE DEF new
  <2>4. item' = [item EXCEPT ![r] = new]
    BY <2>1 DEF new
  <2> QED BY <1>1, <2>3, <2>4, RowsStand
<1>5. CASE ClaimGranted(w)
  <2> DEFINE claim == rows[i].attempt + 1
             row == [rows[i] EXCEPT !.status = "claimed", !.attempt = claim, !.token = claim,
                        !.expires = job[w].now + ClaimTime, !.nextAttempt = 0, !.deferred = FALSE]
             new == [rows EXCEPT ![i] = row]
  <2>1. item' = [item EXCEPT ![r] = new] /\ Due(rows[i], i, job[w].now)
    BY <1>5 DEF ClaimGranted
  <2> HIDE DEF rows
  <2>2. rows[i].status \notin Done /\ rows[i] \in ItemRow
    BY <1>1, <1>2, <2>1 DEF Due, Done
  <2>3. row.status = "claimed"
    BY <2>2 DEF ItemRow
  <2> HIDE DEF row
  <2>4. \A k \in Items : Settlement(new[k]) = Settlement(item[r][k])
    BY <1>1, <1>2, <2>2, <2>3 DEF Settlement, Done
  <2> HIDE DEF new
  <2> QED BY <1>1, <2>1, <2>4, RowsStand
<1> QED BY <1>3, <1>4, <1>5

\* DeferClaim and MarkAcquisition find a claimed row and leave it open.
LEMMA DeferStands ==
  ASSUME FencingInv, NEW w \in Workers, DeferClaim(w) \/ MarkAcquisition(w)
  PROVE  Stands
<1> DEFINE r == job[w].run
           i == job[w].item
<1>1. r \in Runs /\ i \in Items /\ item[r][i] \in ItemRow /\ TypeOK
  BY WorkerKnown, FencingTyped, RowTypes DEF DeferClaim, MarkAcquisition, FencingInv
<1>2. PICK row : /\ item' = [item EXCEPT ![r][i] = row]
                 /\ row.status \notin Done /\ item[r][i].status \notin Done
  <2>1. CASE DeferClaim(w)
    <3> DEFINE row == [item[r][i] EXCEPT !.status = "pending", !.token = 0, !.expires = 0,
                     !.nextAttempt = job[w].retryAt, !.deferred = TRUE,
                     !.transient = job[w].transient]
    <3>1. item' = [item EXCEPT ![r][i] = row] /\ item[r][i].status = "claimed"
      BY <2>1, <1>1 DEF DeferClaim, Current, TypeOK
    <3>2. row.status = "pending"
      BY <1>1 DEF ItemRow
    <3> HIDE DEF row
    <3> QED BY <3>1, <3>2 DEF Done
  <2>2. CASE MarkAcquisition(w)
    <3> DEFINE row == [item[r][i] EXCEPT !.acquisitions = @ + 1]
    <3>1. item' = [item EXCEPT ![r][i] = row] /\ item[r][i].status = "claimed"
      BY <2>2, <1>1 DEF MarkAcquisition, TypeOK
    <3>2. row.status = item[r][i].status
      BY <1>1 DEF ItemRow
    <3> HIDE DEF row
    <3> QED BY <3>1, <3>2 DEF Done
  <2> QED BY <2>1, <2>2
<1> QED BY <1>1, <1>2 DEF Stands, Settlement, TypeOK

\* complete_work_item_claim settles its item, or leaves it open as failed.
LEMMA CompleteSettles ==
  ASSUME FencingInv, NEW w \in Workers, CompleteClaim(w)
  PROVE  /\ DoneStands
         /\ \/ Stands
            \/ /\ job[w].outcome \in Done
               /\ settlement' =
                    [settlement EXCEPT ![job[w].run][job[w].item] = job[w].outcome]
         /\ run[job[w].run] = "running"
         /\ settlement[job[w].run][job[w].item] = "open"
<1> DEFINE r == job[w].run
           i == job[w].item
           row == [item[r][i] EXCEPT !.status = job[w].outcome, !.transient = job[w].transient]
<1>1. r \in Runs /\ i \in Items /\ item[r][i] \in ItemRow /\ TypeOK
  BY WorkerKnown, FencingTyped, RowTypes DEF CompleteClaim, FencingInv
<1>2. /\ item' = [item EXCEPT ![r][i] = row] /\ item[r][i].status = "claimed"
      /\ run[r] = "running"
  BY <1>1 DEF CompleteClaim, Current, TypeOK
<1>3. row.status = job[w].outcome
  BY <1>1 DEF ItemRow
<1> HIDE DEF row
<1>4. /\ item'[r][i] = row
      /\ \A q \in Runs, k \in Items : ~(q = r /\ k = i) => item'[q][k] = item[q][k]
  BY <1>1, <1>2 DEF TypeOK
<1>5. DoneStands
  BY <1>2, <1>4 DEF DoneStands, Done
<1>6. settlement[r][i] = "open"
  BY <1>1, <1>2 DEF settlement, Settlement, Done
<1>7. CASE job[w].outcome \in Done
  <2>1. Settlement(item'[r][i]) = job[w].outcome
    BY <1>3, <1>4, <1>7 DEF Settlement
  <2>2. settlement' = [settlement EXCEPT ![r][i] = job[w].outcome]
    BY SMTT(60), <1>1, <1>4, <2>1 DEF settlement
  <2> QED BY <1>2, <1>5, <1>6, <1>7, <2>2
<1>8. CASE job[w].outcome \notin Done
  <2>1. Stands
    BY <1>2, <1>3, <1>4, <1>8 DEF Stands, Settlement, Done
  <2> QED BY <1>2, <1>5, <1>6, <2>1
<1> QED BY <1>7, <1>8

-----------------------------------------------------------------------------
(* What a request read before *)

\* A step of request w that leaves the cutoffs, and whose own cutoff and view, if
\* it keeps any, are those of the rows.
LEMMA ReadsStand ==
  ASSUME RefinementInv, NEW w \in Workers, NEW s, NEW j,
         pc' = [pc EXCEPT ![w] = s], job' = [job EXCEPT ![w] = j],
         DoneStands, cutoff' = cutoff, s # "finalize",
         s # "idle" /\ j.cutoff # 0 => j.cutoff = cutoff[j.run].derived
  PROVE  SharedCutoff' /\ \A v \in Workers : CutoffRead(v)' /\ ViewTrue(v)'
<1>1. /\ pc'[w] = s /\ job'[w] = j
      /\ \A v \in Workers : v # w => pc'[v] = pc[v] /\ job'[v] = job[v]
  BY OthersWait, FencingTyped DEF RefinementInv
<1>2. SharedCutoff'
  BY DEF RefinementInv, SharedCutoff
<1>3. ASSUME NEW v \in Workers PROVE CutoffRead(v)'
  BY <1>1 DEF RefinementInv, CutoffRead
<1>4. ASSUME NEW v \in Workers PROVE ViewTrue(v)'
  <2> SUFFICES ASSUME pc'[v] = "finalize" PROVE ViewTrue(v)'
    BY DEF ViewTrue
  <2>1. v # w /\ pc[v] = "finalize" /\ job'[v] = job[v]
    BY <1>1
  <2>2. job[v].run \in Runs
    BY <2>1, WorkerKnown, FencingTyped DEF RefinementInv
  <2>3. ViewTrue(v)
    BY DEF RefinementInv
  <2> QED BY <2>1, <2>2, <2>3 DEF ViewTrue, DoneStands, Done
<1> QED BY <1>2, <1>3, <1>4

LEMMA KeptCutoff ==
  ASSUME RefinementInv, NEW w \in Workers, pc[w] # "idle", NEW j,
         j.cutoff = 0 \/ (j.cutoff = job[w].cutoff /\ j.run = job[w].run)
  PROVE  j.cutoff # 0 => j.cutoff = cutoff[j.run].derived
BY DEF RefinementInv, CutoffRead

\* A step that no request takes, and that leaves the rows and cutoffs.
LEMMA ReadsUntouched ==
  ASSUME RefinementInv, UNCHANGED <<item, cutoff, pc, job>>
  PROVE  SharedCutoff' /\ \A v \in Workers : CutoffRead(v)' /\ ViewTrue(v)'
<1>1. SharedCutoff'
  BY DEF RefinementInv, SharedCutoff
<1>2. ASSUME NEW v \in Workers PROVE CutoffRead(v)' /\ ViewTrue(v)'
  <2>1. CutoffRead(v) /\ ViewTrue(v)
    BY DEF RefinementInv
  <2> QED BY <2>1 DEF CutoffRead, ViewTrue
<1> QED BY <1>1, <1>2

-----------------------------------------------------------------------------
(* The lease of a running run *)

LEMMA OwnerKept ==
  ASSUME RunningOwnsLease, run' = run, Legacy = {} => lease'.owner = lease.owner
  PROVE  RunningOwnsLease'
BY DEF RunningOwnsLease

LEMMA AcquireOwns ==
  ASSUME RefinementInv, NEW r \in Runs, NEW n \in Nat, Acquire(r, n)
  PROVE  /\ RunningOwnsLease'
         /\ Legacy = {} => Overdue(r, n) = {q \in Runs \ {r} : run[q] = "running"}
<1>1. /\ CanAcquire(r, n) /\ lease'.owner = r
      /\ run' = [q \in Runs |-> IF q = r THEN "running"
                                ELSE IF q \in Overdue(r, n) THEN "failed" ELSE run[q]]
  BY DEF Acquire
<1>2. ASSUME Legacy = {}, NEW q \in Runs \ {r}, run[q] = "running"
      PROVE  q \in Overdue(r, n)
  <2>1. lease.owner = q
    BY <1>2 DEF RefinementInv, RunningOwnsLease
  <2>2. lease.expires <= n
    BY <1>1, <1>2, <2>1, Constants DEF CanAcquire
  <2> QED BY <1>2, <2>1, <2>2 DEF Overdue
<1>3. Legacy = {} => Overdue(r, n) = {q \in Runs \ {r} : run[q] = "running"}
  BY <1>2 DEF Overdue
<1> QED BY <1>1, <1>2, <1>3 DEF RunningOwnsLease

-----------------------------------------------------------------------------
(* Acquire is TakeOver *)

LEMMA AcquireTakesOver ==
  ASSUME RefinementInv, NEW r \in Runs, NEW n \in Nat, Acquire(r, n)
  PROVE  Daily!Next
<1> DEFINE dead == Overdue(r, n)
           others == {q \in Runs \ {r} : run[q] = "running"}
<1>1. run[r] \notin Daily!Terminal
  BY DEF Acquire, CanAcquire, Terminal, Daily!Terminal
<1>2. dead \in SUBSET others /\ (Legacy = {} => dead = others)
  BY AcquireOwns DEF Overdue
<1>3. run' = [q \in Runs |-> IF q = r THEN "running"
                             ELSE IF q \in dead THEN "failed" ELSE run[q]]
  BY DEF Acquire
<1>4. settlement' = settlement /\ UNCHANGED <<written, cutoff, result>>
  BY AcquireStands, StandsDone DEF Acquire, RefinementInv, FencingInv
<1> HIDE DEF dead
<1>5. Daily!TakeOver(r)
  BY <1>1, <1>2, <1>3, <1>4 DEF Daily!TakeOver
<1> QED BY <1>5 DEF Daily!Next

\* A step that moves nothing DailyRefresh shows.
Hidden == UNCHANGED <<run, settlement, written, cutoff, result>>

LEMMA HiddenStutters == Hidden => UNCHANGED Daily!vars
BY DEF Hidden, Daily!vars

-----------------------------------------------------------------------------
(* The requests that acquire the lease *)

Simulated == RefinementInv' /\ (Daily!Next \/ Hidden)

LEMMA AcquiringStepRefines ==
  ASSUME RefinementInv, FencingInv', NEW w \in Workers, NEW s, NEW j,
         pc' = [pc EXCEPT ![w] = s], job' = [job EXCEPT ![w] = j], s # "finalize",
         s # "idle" /\ j.cutoff # 0 => j.cutoff = cutoff[j.run].derived,
         NEW r \in Runs, NEW n \in Nat, Acquire(r, n)
  PROVE  Simulated
<1>1. DoneStands /\ cutoff' = cutoff
  BY AcquireStands, StandsDone DEF RefinementInv, FencingInv, Acquire
<1>2. SharedCutoff' /\ \A v \in Workers : CutoffRead(v)' /\ ViewTrue(v)'
  BY <1>1, ReadsStand
<1>3. RunningOwnsLease' /\ Daily!Next
  BY AcquireOwns, AcquireTakesOver
<1> QED BY <1>2, <1>3 DEF RefinementInv, Simulated

LEMMA StartRunRefines ==
  ASSUME RefinementInv, FencingInv', NEW w \in Workers, StartRun(w)
  PROVE  Simulated
<1>1. job[w].run \in Runs /\ job[w].now \in Nat
  BY WorkerKnown, FencingTyped DEF StartRun, RefinementInv
<1> QED BY <1>1, AcquiringStepRefines DEF StartRun, Stop

LEMMA ResumeRunRefines ==
  ASSUME RefinementInv, FencingInv', NEW w \in Workers, ResumeRun(w)
  PROVE  Simulated
<1> DEFINE r == job[w].run
           i == job[w].item
           c == IF IsPhase(i) THEN cutoff[r].derived ELSE 0
           f == IsPhase(i) /\ SourcesFailed(r)
           unresolved == [job[w] EXCEPT !.cutoff = c, !.allFailed = f]
           resolved == [job[w] EXCEPT !.item = 1]
<1>1. r \in Runs /\ job[w].now \in Nat /\ job[w] \in Job /\ pc[w] # "idle" /\ TypeOK
  BY WorkerKnown, FencingTyped DEF ResumeRun, RefinementInv, FencingInv
<1>2. Acquire(r, job[w].now)
  BY DEF ResumeRun
<1>3. CASE Resolved(item[r][i], i)
  <2>1. pc' = [pc EXCEPT ![w] = "renew"] /\ job' = [job EXCEPT ![w] = resolved]
    BY <1>1, <1>3 DEF ResumeRun, Goto, TypeOK
  <2>2. resolved.cutoff = job[w].cutoff /\ resolved.run = job[w].run
    BY <1>1 DEF Job
  <2> HIDE DEF resolved
  <2>3. resolved.cutoff # 0 => resolved.cutoff = cutoff[resolved.run].derived
    BY <1>1, <2>2, KeptCutoff
  <2> QED BY <1>1, <1>2, <2>1, <2>3, AcquiringStepRefines
<1>4. CASE ~Resolved(item[r][i], i)
  <2>1. pc' = [pc EXCEPT ![w] = "claim"] /\ job' = [job EXCEPT ![w] = unresolved]
    BY <1>1, <1>4 DEF ResumeRun, Goto, TypeOK
  <2>2. unresolved.cutoff = c /\ unresolved.run = r
    BY <1>1 DEF Job
  <2> HIDE DEF unresolved
  <2>3. unresolved.cutoff # 0 => unresolved.cutoff = cutoff[unresolved.run].derived
    BY <2>2
  <2> QED BY <1>1, <1>2, <2>1, <2>3, AcquiringStepRefines
<1> QED BY <1>3, <1>4

\* The snapshot the request takes with it is that of its run, which no takeover
\* touches.
LEMMA RenewRunRefines ==
  ASSUME RefinementInv, FencingInv', NEW w \in Workers, RenewRun(w)
  PROVE  Simulated
<1> DEFINE r == job[w].run
           view == [i \in Items |-> Report(item[r][i])]
           j == [job[w] EXCEPT !.view = view]
<1>1. r \in Runs /\ job[w].now \in Nat /\ job[w] \in Job /\ pc[w] # "idle" /\ TypeOK
  BY WorkerKnown, FencingTyped DEF RenewRun, RefinementInv, FencingInv
<1>2. Acquire(r, job[w].now)
  BY DEF RenewRun
<1>3. DoneStands /\ cutoff' = cutoff
  BY <1>1, <1>2, AcquireStands, StandsDone DEF Acquire
<1>4. pc' = [pc EXCEPT ![w] = "finalize"] /\ job' = [job EXCEPT ![w] = j]
  BY <1>1 DEF RenewRun, Goto, TypeOK
<1>5. j.view = view /\ j.run = r /\ j.cutoff = job[w].cutoff
  BY <1>1 DEF Job
<1> HIDE DEF j
<1>6. /\ pc'[w] = "finalize" /\ job'[w] = j
      /\ \A v \in Workers : v # w => pc'[v] = pc[v] /\ job'[v] = job[v]
  BY <1>4, OthersWait, FencingTyped DEF RefinementInv
<1>7. SharedCutoff'
  BY <1>3 DEF RefinementInv, SharedCutoff
<1>8. ASSUME NEW v \in Workers PROVE CutoffRead(v)'
  <2>1. CutoffRead(v) /\ CutoffRead(w)
    BY DEF RefinementInv
  <2> QED BY <1>1, <1>3, <1>5, <1>6, <2>1 DEF CutoffRead
<1>9. ASSUME NEW v \in Workers PROVE ViewTrue(v)'
  <2>1. CASE v = w
    <3>1. ASSUME NEW i \in Items
          PROVE  /\ view[i] # "none"
                 /\ view[i] = "ok" => item'[r][i].status = "succeeded"
                 /\ view[i] = "skipped" => item'[r][i].status = "skipped"
      <4>1. /\ Report(item[r][i]) # "none"
            /\ Report(item[r][i]) = "ok" => item[r][i].status = "succeeded"
            /\ Report(item[r][i]) = "skipped" => item[r][i].status = "skipped"
        BY DEF Report
      <4> QED BY <1>1, <1>3, <4>1 DEF DoneStands, Done
    <3> HIDE DEF view
    <3> QED BY <1>5, <1>6, <2>1, <3>1 DEF ViewTrue
  <2>2. CASE v # w /\ pc[v] = "finalize"
    <3>1. job[v].run \in Runs /\ ViewTrue(v)
      BY <2>2, WorkerKnown, FencingTyped DEF RefinementInv
    <3> QED BY <1>3, <1>6, <2>2, <3>1 DEF ViewTrue, DoneStands, Done
  <2>3. CASE v # w /\ pc[v] # "finalize"
    BY <1>6, <2>3 DEF ViewTrue
  <2> QED BY <2>1, <2>2, <2>3
<1>10. RunningOwnsLease' /\ Daily!Next
  BY <1>1, <1>2, AcquireOwns, AcquireTakesOver
<1> QED BY <1>7, <1>8, <1>9, <1>10 DEF RefinementInv, Simulated

-----------------------------------------------------------------------------
(* The other steps of a request *)

\* A step that leaves runs, lease, cutoffs, data and result, and settles nothing.
LEMMA QuietStepRefines ==
  ASSUME RefinementInv, FencingInv', NEW w \in Workers, NEW s, NEW j,
         pc' = [pc EXCEPT ![w] = s], job' = [job EXCEPT ![w] = j], s # "finalize",
         s # "idle" /\ j.cutoff # 0 => j.cutoff = cutoff[j.run].derived,
         Stands, UNCHANGED <<lease, run, cutoff, result, written>>
  PROVE  Simulated
<1>1. DoneStands /\ settlement' = settlement
  BY StandsDone
<1>2. SharedCutoff' /\ \A v \in Workers : CutoffRead(v)' /\ ViewTrue(v)'
  BY <1>1, ReadsStand
<1>3. RunningOwnsLease'
  BY OwnerKept DEF RefinementInv
<1> QED BY <1>1, <1>2, <1>3 DEF RefinementInv, Simulated, Hidden

LEMMA RequestRefines ==
  ASSUME RefinementInv, FencingInv', NEW w \in Workers, Request(w)
  PROVE  Simulated
<1>1. PICK r \in Runs, i \in Items, s \in {"start", "resume", "renew"} : Begin(w, r, i, s)
  BY Constants DEF Request, BeginStart, BeginAdvance, BeginFinalize
<1> DEFINE j == [NoJob EXCEPT !.run = r, !.item = i, !.now = clock]
<1>2. /\ pc' = [pc EXCEPT ![w] = s] /\ job' = [job EXCEPT ![w] = j]
      /\ UNCHANGED <<lease, run, item, cutoff, result, written>>
  BY <1>1 DEF Begin, Goto, dbVars
<1>3. j.cutoff = 0
  BY DEF NoJob
<1> HIDE DEF j
<1> QED BY <1>2, <1>3, SameStands, QuietStepRefines

LEMMA StoppedRefines ==
  ASSUME RefinementInv, FencingInv', NEW w \in Workers, Return(w) \/ Crash(w)
  PROVE  Simulated
<1>1. /\ pc' = [pc EXCEPT ![w] = "idle"] /\ job' = [job EXCEPT ![w] = NoJob]
      /\ UNCHANGED <<lease, run, item, cutoff, result, written>>
  BY DEF Return, Crash, Stop, dbVars
<1> QED BY <1>1, SameStands, QuietStepRefines

LEMMA ClaimRefines ==
  ASSUME RefinementInv, FencingInv', NEW w \in Workers,
         ClaimGranted(w) \/ ClaimDeferred(w) \/ ClaimDenied(w)
  PROVE  Simulated
<1>1. Stands /\ UNCHANGED <<lease, run, cutoff, result, written>>
  BY ClaimStands DEF ClaimGranted, ClaimDeferred, ClaimDenied, RefinementInv
<1>2. CASE ClaimDeferred(w) \/ ClaimDenied(w)
  <2>1. pc' = [pc EXCEPT ![w] = "idle"] /\ job' = [job EXCEPT ![w] = NoJob]
    BY <1>2 DEF ClaimDeferred, ClaimDenied, Stop
  <2> QED BY <1>1, <2>1, QuietStepRefines
<1>3. CASE ClaimGranted(w)
  <2> DEFINE c == SweptRows(job[w].run, job[w].now)[job[w].item].attempt + 1
             j == [job[w] EXCEPT !.claim = c]
             s == IF Kind[job[w].item] \in {"derived", "macro"} /\ ~job[w].allFailed
                  THEN "prepare" ELSE "execute"
  <2>1. job[w] \in Job /\ pc[w] # "idle"
    BY <1>3, WorkerKnown, FencingTyped DEF ClaimGranted, MayClaim, RefinementInv
  <2>2. pc' = [pc EXCEPT ![w] = s] /\ job' = [job EXCEPT ![w] = j] /\ s # "finalize"
    BY <1>3 DEF ClaimGranted, Goto
  <2>3. j.cutoff = job[w].cutoff /\ j.run = job[w].run
    BY <2>1 DEF Job
  <2> HIDE DEF j, s
  <2>4. j.cutoff # 0 => j.cutoff = cutoff[j.run].derived
    BY <2>1, <2>3, KeptCutoff
  <2> QED BY <1>1, <2>2, <2>4, QuietStepRefines
<1> QED BY <1>2, <1>3

\* MarkAcquisition, and the steps after which the request holds no cutoff.
LEMMA TaskStepRefines ==
  ASSUME RefinementInv, FencingInv', NEW w \in Workers,
         MarkAcquisition(w) \/ TaskReturns(w) \/ TaskPostponed(w) \/ DeferClaim(w) \/ ReadBack(w)
  PROVE  Simulated
<1>1. pc[w] # "idle" /\ job[w] \in Job
  BY WorkerKnown, FencingTyped
     DEF MarkAcquisition, TaskReturns, TaskPostponed, DeferClaim, ReadBack, RefinementInv
<1>2. Stands /\ UNCHANGED <<lease, run, cutoff, result, written>>
  BY DeferStands, SameStands
     DEF MarkAcquisition, TaskReturns, TaskPostponed, DeferClaim, ReadBack, dbVars, RefinementInv
<1>3. PICK s, j : /\ pc' = [pc EXCEPT ![w] = s] /\ job' = [job EXCEPT ![w] = j]
                  /\ s # "finalize"
                  /\ \/ s = "idle"
                     \/ j.cutoff = 0
                     \/ j.cutoff = job[w].cutoff /\ j.run = job[w].run
  <2>1. CASE MarkAcquisition(w)
    <3>1. pc' = [pc EXCEPT ![w] = "execute"]
      BY <2>1 DEF MarkAcquisition, RefinementInv, FencingInv, TypeOK
    <3>2. job' = [job EXCEPT ![w] = [job[w] EXCEPT !.marked = TRUE]]
      BY <2>1 DEF MarkAcquisition, RefinementInv, FencingInv, TypeOK
    <3>3. /\ [job[w] EXCEPT !.marked = TRUE].cutoff = job[w].cutoff
          /\ [job[w] EXCEPT !.marked = TRUE].run = job[w].run
      BY <1>1 DEF Job
    <3> QED BY <3>1, <3>2, <3>3
  <2>2. CASE TaskReturns(w)
    <3>1. PICK o, b : Outcome(w, o, b, "complete")
      BY <2>2 DEF TaskReturns
    <3>2. [Settling(w) EXCEPT !.outcome = o, !.transient = b].cutoff = 0
      BY DEF Settling, NoJob
    <3> QED BY <3>1, <3>2 DEF Outcome, Goto
  <2>3. CASE TaskPostponed(w)
    <3>1. PICK t, b : job' = [job EXCEPT ![w] = [Settling(w) EXCEPT !.retryAt = t, !.transient = b]]
      BY <2>3 DEF TaskPostponed
    <3>2. [Settling(w) EXCEPT !.retryAt = t, !.transient = b].cutoff = 0
      BY DEF Settling, NoJob
    <3> QED BY <2>3, <3>1, <3>2 DEF TaskPostponed, Goto
  <2>4. CASE DeferClaim(w)
    BY <2>4 DEF DeferClaim, Stop
  <2>5. CASE ReadBack(w)
    <3>1. [Settling(w) EXCEPT !.item = 1, !.now = clock].cutoff = 0
      BY DEF Settling, NoJob
    <3> QED BY <2>5, <3>1 DEF ReadBack, Goto
  <2> QED BY <2>1, <2>2, <2>3, <2>4, <2>5
<1>4. s # "idle" /\ j.cutoff # 0 => j.cutoff = cutoff[j.run].derived
  BY <1>1, <1>3, KeptCutoff
<1> QED BY <1>2, <1>3, <1>4, QuietStepRefines

\* A cutoff is written where there is none, and then no phase has read one.
LEMMA PersistCutoffRefines ==
  ASSUME RefinementInv, FencingInv', NEW w \in Workers, PersistCutoff(w)
  PROVE  Simulated
<1> DEFINE r == job[w].run
           old == cutoff[r]
           new == cutoff'[r]
<1>1. /\ pc[w] = "prepare" /\ r \in Runs /\ run[r] = "running" /\ TypeOK
      /\ job[w].now \in Nat /\ job[w].cutoff \in Nat
  BY WorkerKnown, FencingTyped DEF PersistCutoff, MayPersist, RefinementInv, FencingInv, Job
<1>2. /\ UNCHANGED <<run, item, result, written, job>> /\ pc' = [pc EXCEPT ![w] = "execute"]
      /\ lease'.owner = lease.owner
  BY <1>1 DEF PersistCutoff, Goto, TypeOK
<1>3. CutoffRead(w) /\ SharedCutoff
  BY DEF RefinementInv
<1>4. /\ old \in [derived : Nat, macro : Nat]
      /\ \A q \in Runs : q # r => cutoff'[q] = cutoff[q]
      /\ \/ new.derived = old.derived /\ new.macro = old.macro
         \/ old.derived = 0 /\ new.derived # 0 /\ new.macro = old.macro
         \/ /\ old.macro = 0 /\ new.macro = old.derived
            /\ old.derived # 0 /\ new.derived = old.derived
      /\ cutoff' = [cutoff EXCEPT ![r] = new] /\ new \in [derived : Nat, macro : Nat]
  <2>1. CASE Kind[job[w].item] = "macro"
    <3> DEFINE val == [old EXCEPT !.macro = Persisted(old.macro, job[w].cutoff)]
    <3>1. cutoff' = [cutoff EXCEPT ![r] = val]
      BY <1>1, <2>1 DEF PersistCutoff, CutoffOf, TypeOK
    <3>2. job[w].cutoff = old.derived /\ old.derived # 0
      BY <1>1, <1>3, <2>1 DEF PersistCutoff, MayPersist, CutoffRead
    <3>3. old \in [derived : Nat, macro : Nat]
      BY <1>1 DEF TypeOK
    <3>4. /\ val \in [derived : Nat, macro : Nat] /\ val.derived = old.derived
          /\ val.macro = IF old.macro = 0 THEN old.derived ELSE old.macro
      BY <1>1, <3>2, <3>3 DEF Persisted
    <3> HIDE DEF val
    <3>5. new = val /\ \A q \in Runs : q # r => cutoff'[q] = cutoff[q]
      BY <1>1, <3>1 DEF TypeOK
    <3> QED BY <3>1, <3>2, <3>3, <3>4, <3>5
  <2>2. CASE Kind[job[w].item] # "macro"
    <3> DEFINE val == [old EXCEPT !.derived = Persisted(old.derived, job[w].now)]
    <3>1. cutoff' = [cutoff EXCEPT ![r] = val]
      BY <1>1, <2>2 DEF PersistCutoff, CutoffOf, TypeOK
    <3>2. old \in [derived : Nat, macro : Nat]
      BY <1>1 DEF TypeOK
    <3>3. /\ val \in [derived : Nat, macro : Nat] /\ val.macro = old.macro
          /\ val.derived = IF old.derived = 0 THEN job[w].now ELSE old.derived
      BY <1>1, <3>2 DEF Persisted
    <3> HIDE DEF val
    <3>4. new = val /\ \A q \in Runs : q # r => cutoff'[q] = cutoff[q]
      BY <1>1, <3>1 DEF TypeOK
    <3> QED BY <3>1, <3>2, <3>3, <3>4
  <2> QED BY <2>1, <2>2
<1>5. SharedCutoff'
  BY <1>3, <1>4 DEF SharedCutoff
<1>6. ASSUME NEW v \in Workers PROVE CutoffRead(v)' /\ ViewTrue(v)'
  <2>1. CutoffRead(v) /\ ViewTrue(v) /\ job'[v] = job[v]
    BY <1>2 DEF RefinementInv
  <2>2. pc'[v] = pc[v] \/ (v = w /\ pc'[v] = "execute")
    BY <1>1, <1>2 DEF TypeOK
  <2>3. ViewTrue(v)'
    BY <1>2, <2>1, <2>2 DEF ViewTrue
  <2>4. CutoffRead(v)'
    <3> SUFFICES ASSUME pc[v] # "idle", job[v].cutoff # 0
                 PROVE  job[v].cutoff = cutoff'[job[v].run].derived
      BY <1>1, <2>1, <2>2 DEF CutoffRead
    <3>1. job[v].run \in Runs /\ job[v].cutoff = cutoff[job[v].run].derived
      BY <2>1, WorkerKnown, FencingTyped DEF CutoffRead, RefinementInv
    <3> QED BY <1>4, <3>1
  <2> QED BY <2>3, <2>4
<1>7. RunningOwnsLease'
  BY <1>2, OwnerKept DEF RefinementInv
<1>8. settlement' = settlement
  BY <1>2, SameStands, StandsDone
<1>9. Daily!Next \/ Hidden
  <2>1. CASE new.derived = old.derived /\ new.macro = old.macro
    <3>1. new = old
      BY <1>4, <2>1
    <3>2. cutoff' = cutoff
      BY <1>1, <1>4, <3>1 DEF TypeOK
    <3> QED BY <1>2, <1>8, <3>2 DEF Hidden
  <2>2. CASE old.derived = 0 /\ new.derived # 0 /\ new.macro = old.macro
    <3>1. new = [old EXCEPT !.derived = new.derived]
      BY <1>4, <2>2
    <3>2. cutoff' = [cutoff EXCEPT ![r].derived = cutoff'[r].derived]
      BY <1>1, <1>4, <3>1 DEF TypeOK
    <3>3. Daily!Decide(r)
      BY <1>1, <1>2, <1>8, <2>2, <3>2 DEF Daily!Decide
    <3> QED BY <1>1, <3>3 DEF Daily!Next
  <2>3. CASE old.macro = 0 /\ new.macro = old.derived /\ old.derived # 0 /\ new.derived = old.derived
    <3>1. new = [old EXCEPT !.macro = old.derived]
      BY <1>4, <2>3
    <3>2. cutoff' = [cutoff EXCEPT ![r].macro = cutoff[r].derived]
      BY <1>1, <1>4, <3>1 DEF TypeOK
    <3>3. Daily!Decide(r)
      BY <1>1, <1>2, <1>8, <2>3, <3>2 DEF Daily!Decide
    <3> QED BY <1>1, <3>3 DEF Daily!Next
  <2> QED BY <1>4, <2>1, <2>2, <2>3
<1> QED BY <1>5, <1>6, <1>7, <1>9 DEF RefinementInv, Simulated

\* Data is written under a claim, hence to an open item of a running run.
LEMMA CommitDataRefines ==
  ASSUME RefinementInv, FencingInv', NEW w \in Workers, CommitData(w)
  PROVE  Simulated
<1> DEFINE r == job[w].run
           i == job[w].item
<1>1. /\ pc[w] = "execute" /\ r \in Runs /\ i \in Items /\ TypeOK /\ Fenced(w)
      /\ job[w].claim \in Nat
  BY WorkerKnown, FencingTyped DEF CommitData, RefinementInv, FencingInv
<1>2. /\ UNCHANGED <<lease, run, item, cutoff, result, pc, job>>
      /\ written' = [written EXCEPT ![r][i] = job[w].claim]
  BY DEF CommitData
<1>3. run[r] = "running" /\ item[r][i].status = "claimed" /\ written[r][i] <= job[w].claim
  BY <1>1 DEF Fenced, RefinementInv, FencingInv, ClaimsHeld, ClaimHeld, Claiming, WrittenByAClaim
<1>4. settlement[r][i] = "open" /\ settlement' = settlement
  BY <1>1, <1>2, <1>3, SameStands, StandsDone DEF settlement, Settlement, Done
<1>5. Daily!Write(r, i)
  BY <1>1, <1>2, <1>3, <1>4 DEF Daily!Write, TypeOK
<1>6. SharedCutoff' /\ \A v \in Workers : CutoffRead(v)' /\ ViewTrue(v)'
  BY <1>2, ReadsUntouched
<1>7. RunningOwnsLease'
  BY <1>2, OwnerKept DEF RefinementInv
<1> QED BY <1>1, <1>5, <1>6, <1>7 DEF Daily!Next, RefinementInv, Simulated

LEMMA CompleteClaimRefines ==
  ASSUME RefinementInv, FencingInv', NEW w \in Workers, CompleteClaim(w)
  PROVE  Simulated
<1> DEFINE r == job[w].run
           i == job[w].item
<1>1. pc[w] = "complete" /\ r \in Runs /\ i \in Items /\ TypeOK
  BY WorkerKnown, FencingTyped DEF CompleteClaim, RefinementInv, FencingInv
<1>2. /\ UNCHANGED <<lease, run, cutoff, result, written>>
      /\ pc' = [pc EXCEPT ![w] = "read"] /\ job' = [job EXCEPT ![w] = job[w]]
  BY <1>1 DEF CompleteClaim, Goto, TypeOK
<1>3. job[w].cutoff # 0 => job[w].cutoff = cutoff[job[w].run].derived
  BY <1>1 DEF RefinementInv, CutoffRead
<1>4. /\ DoneStands /\ run[r] = "running" /\ settlement[r][i] = "open"
      /\ \/ Stands
         \/ /\ job[w].outcome \in Done
            /\ settlement' = [settlement EXCEPT ![r][i] = job[w].outcome]
  BY CompleteSettles DEF RefinementInv
<1>5. SharedCutoff' /\ \A v \in Workers : CutoffRead(v)' /\ ViewTrue(v)'
  BY <1>2, <1>3, <1>4, ReadsStand
<1>6. RunningOwnsLease'
  BY <1>2, OwnerKept DEF RefinementInv
<1>7. Daily!Next \/ Hidden
  <2>1. CASE Stands
    BY <1>2, <2>1, StandsDone DEF Hidden
  <2>2. CASE ~Stands
    <3>1. Daily!Settle(r, i)
      BY <1>2, <1>4, <2>2 DEF Daily!Settle, Daily!Settled, Done
    <3> QED BY <1>1, <3>1 DEF Daily!Next
  <2> QED BY <2>1, <2>2
<1> QED BY <1>5, <1>6, <1>7 DEF RefinementInv, Simulated

\* finalize_refresh_run gives the run the verdict of a snapshot that is still
\* true of what it calls done.
LEMMA FinalizeRunRefines ==
  ASSUME RefinementInv, FencingInv', NEW w \in Workers, FinalizeRun(w)
  PROVE  Simulated
<1> DEFINE r == job[w].run
           view == job[w].view
<1>1. pc[w] = "finalize" /\ r \in Runs /\ TypeOK
  BY WorkerKnown, FencingTyped DEF FinalizeRun, RefinementInv, FencingInv
<1>2. /\ run' = [run EXCEPT ![r] = Verdict(view)]
      /\ result' = [result EXCEPT ![r] = view]
      /\ UNCHANGED <<item, cutoff, written>>
      /\ pc' = [pc EXCEPT ![w] = "idle"] /\ job' = [job EXCEPT ![w] = NoJob]
      /\ run[r] = "running" /\ lease.owner = r
  BY DEF FinalizeRun, Stop, CanFinalize, LeaseLive
<1>3. DoneStands /\ settlement' = settlement
  BY <1>2, SameStands, StandsDone
<1>4. SharedCutoff' /\ \A v \in Workers : CutoffRead(v)' /\ ViewTrue(v)'
  BY <1>2, <1>3, ReadsStand
<1>5. RunningOwnsLease'
  <2>1. Verdict(view) # "running"
    BY DEF Verdict
  <2> QED BY <1>1, <1>2, <2>1 DEF RunningOwnsLease, RefinementInv, TypeOK
<1>6. Daily!End(r)
  <2>1. result'[r] = view /\ Verdict(view) = Daily!Verdict(result'[r])
    BY <1>1, <1>2 DEF TypeOK, Verdict, Daily!Verdict
  <2>2. ASSUME NEW i \in Items
        PROVE  /\ view[i] # "none"
               /\ view[i] = "ok" => settlement[r][i] = "succeeded"
               /\ view[i] = "skipped" => settlement[r][i] = "skipped"
    <3>1. ViewTrue(w)
      BY DEF RefinementInv
    <3> QED BY <1>1, <3>1 DEF ViewTrue, settlement, Settlement, Done
  <2> QED BY <1>2, <1>3, <2>1, <2>2 DEF Daily!End
<1> QED BY <1>1, <1>4, <1>5, <1>6 DEF Daily!Next, RefinementInv, Simulated

\* Time, the publishers and POST /api/refresh touch no row that DailyRefresh shows.
LEMMA EnvironmentRefines ==
  ASSUME RefinementInv, FencingInv',
         \/ Tick
         \/ \E s \in Scopes : PublisherCools(s) \/ PublisherRecovers(s)
         \/ \E d \in Legacy : LegacyStep(d)
  PROVE  Simulated
<1>1. UNCHANGED <<run, item, cutoff, result, written, pc, job>>
  BY DEF Tick, PublisherCools, PublisherRecovers, LegacyStep, LegacyAcquire, LegacyHeartbeat,
         LegacyRelease, LegacyCrash, unchangedByLegacy, dbVars
<1>2. Legacy = {} => lease' = lease
  BY DEF Tick, PublisherCools, PublisherRecovers, dbVars
<1>3. SharedCutoff' /\ \A v \in Workers : CutoffRead(v)' /\ ViewTrue(v)'
  BY <1>1, ReadsUntouched
<1>4. RunningOwnsLease'
  BY <1>1, <1>2, OwnerKept DEF RefinementInv
<1>5. settlement' = settlement
  BY <1>1, SameStands, StandsDone
<1> QED BY <1>1, <1>3, <1>4, <1>5 DEF RefinementInv, Simulated, Hidden

-----------------------------------------------------------------------------
LEMMA RefinementStep ==
  RefinementInv /\ [Next]_vars => RefinementInv' /\ [Daily!Next]_(Daily!vars)
<1> SUFFICES ASSUME RefinementInv, [Next]_vars
             PROVE  RefinementInv' /\ (Daily!Next \/ UNCHANGED Daily!vars)
  OBVIOUS
<1>1. FencingInv'
  BY FencingStep DEF RefinementInv
<1>2. CASE UNCHANGED vars
  <2>1. UNCHANGED <<lease, run, item, cutoff, result, written, pc, job>>
    BY <1>2 DEF vars
  <2>2. SharedCutoff' /\ \A v \in Workers : CutoffRead(v)' /\ ViewTrue(v)'
    BY <2>1, ReadsUntouched
  <2>3. RunningOwnsLease'
    BY <2>1, OwnerKept DEF RefinementInv
  <2>4. UNCHANGED Daily!vars
    BY <2>1, SameStands, StandsDone DEF Daily!vars
  <2> QED BY <1>1, <2>2, <2>3, <2>4 DEF RefinementInv
<1>3. ASSUME NEW w \in Workers, Transaction(w) PROVE Simulated
  BY <1>1, <1>3, StartRunRefines, ResumeRunRefines, ClaimRefines, PersistCutoffRefines,
     TaskStepRefines, CommitDataRefines, CompleteClaimRefines, RenewRunRefines,
     FinalizeRunRefines, StoppedRefines
  DEF Transaction
<1>4. CASE Next
  BY <1>1, <1>3, <1>4, RequestRefines, EnvironmentRefines, HiddenStutters DEF Next, Simulated
<1> QED BY <1>2, <1>4

LEMMA InitRefines == Init => Daily!Init
BY DEF Init, Daily!Init, settlement, Settlement, FreshRow, Done

\* The tables of the resumable refresh move only as DailyRefresh says, whatever
\* the requests, crashes, expiries, publishers and legacy refreshes do.
THEOREM RefreshRunImplementsDaily == Spec => ImplementsDaily
<1>1. Spec => []RefinementInv
  BY RefinementInit, RefinementStep, PTL DEF Spec
<1>2. Spec => Daily!Init /\ [][Daily!Next]_(Daily!vars)
  BY <1>1, InitRefines, RefinementStep, PTL DEF Spec
<1> QED BY <1>2, PTL DEF ImplementsDaily, Daily!Spec

\* Where only resumable runs refresh, a running run owns the lease row.
THEOREM RunningRunOwnsLease == Spec => []RunningOwnsLease
<1>1. RefinementInv => RunningOwnsLease
  BY DEF RefinementInv
<1> QED BY <1>1, RefinementInit, RefinementStep, PTL DEF Spec

\* The macro score reads at the cutoff of the derived snapshots.
THEOREM PhasesShareCutoff == Spec => []SharedCutoff
<1>1. RefinementInv => SharedCutoff
  BY DEF RefinementInv
<1> QED BY <1>1, RefinementInit, RefinementStep, PTL DEF Spec

-----------------------------------------------------------------------------
(* A run ends settled *)

\* What a run that is not running keeps: everything.
Frozen(q) == run'[q] = run[q] /\ item'[q] = item[q] /\ result'[q] = result[q]

\* A step changes nothing of an ended run, and what a takeover ends has no result.
RunsEnd ==
  \A q \in Runs :
    \/ Frozen(q)
    \/ /\ run[q] \notin Terminal /\ run'[q] \notin Terminal
       /\ result'[q] = result[q]
    \/ /\ run[q] = "running" /\ run'[q] = "failed" /\ result'[q] = result[q]
       /\ \A i \in Items : item'[q][i].status \notin {"claimed", "pending"}
    \/ /\ run[q] = "running" /\ run'[q] # "running" /\ item'[q] = item[q]
       /\ CanFinalize(q, lease.expires - 1, run'[q])
       /\ run'[q] = Verdict(result'[q])
       /\ \E w \in Workers : pc[w] = "finalize" /\ job[w].run = q /\ result'[q] = job[w].view

LEMMA AcquireEnds ==
  ASSUME FencingInv, NEW r \in Runs, NEW n \in Nat, Acquire(r, n)
  PROVE  RunsEnd
<1> SUFFICES ASSUME NEW q \in Runs, ~Frozen(q)
             PROVE  \/ /\ run[q] \notin Terminal /\ run'[q] \notin Terminal
                       /\ result'[q] = result[q]
                    \/ /\ run[q] = "running" /\ run'[q] = "failed" /\ result'[q] = result[q]
                       /\ \A i \in Items : item'[q][i].status \notin {"claimed", "pending"}
  BY DEF RunsEnd
<1>1. CASE q = r
  BY <1>1 DEF Acquire, CanAcquire, Terminal
<1>2. CASE q # r
  <2>1. q \in Overdue(r, n)
    BY <1>2 DEF Acquire, Frozen, FencingInv, TypeOK
  <2>2. run[q] = "running" /\ run'[q] = "failed" /\ result'[q] = result[q]
    BY <2>1, <1>2 DEF Acquire, Overdue
  <2>3. ASSUME NEW i \in Items PROVE item'[q][i].status \notin {"claimed", "pending"}
    <3>1. item[q][i] \in ItemRow /\ item'[q][i] = Abandoned(item[q][i])
      BY <2>1, RowTypes DEF Acquire, FencingInv
    <3> QED BY <3>1 DEF Abandoned, ItemRow
  <2> QED BY <2>2, <2>3
<1> QED BY <1>1, <1>2

\* A request changes rows of its own run only, and only while that run runs.
LEMMA OwnRowsEnd ==
  ASSUME FencingInv, NEW r \in Runs, run[r] = "running", UNCHANGED <<run, result>>,
         \A q \in Runs \ {r} : item'[q] = item[q]
  PROVE  RunsEnd
BY DEF RunsEnd, Frozen, Terminal

LEMMA RequestEnds ==
  ASSUME FencingInv, NEW w \in Workers, Request(w) \/ Transaction(w), ~FinalizeRun(w)
  PROVE  RunsEnd
<1> DEFINE r == job[w].run
<1>1. CASE StartRun(w) \/ ResumeRun(w) \/ RenewRun(w)
  <2>1. r \in Runs /\ job[w].now \in Nat /\ Acquire(r, job[w].now)
    BY <1>1, WorkerKnown, FencingTyped DEF StartRun, ResumeRun, RenewRun
  <2> QED BY <2>1, AcquireEnds
<1>2. CASE \/ ClaimGranted(w) \/ ClaimDeferred(w) \/ ClaimDenied(w)
           \/ MarkAcquisition(w) \/ DeferClaim(w) \/ CompleteClaim(w)
  <2>1. r \in Runs /\ job[w].item \in Items
    BY <1>2, WorkerKnown, FencingTyped
       DEF ClaimGranted, ClaimDeferred, ClaimDenied, MayClaim, MarkAcquisition, DeferClaim,
           CompleteClaim
  <2>2. run[r] = "running"
    BY <1>2, <2>1 DEF ClaimGranted, ClaimDeferred, ClaimDenied, MayClaim, MarkAcquisition,
                      DeferClaim, CompleteClaim, Current, FencingInv, ClaimedIsRunning
  <2>3. UNCHANGED <<run, result>> /\ \A q \in Runs \ {r} : item'[q] = item[q]
    BY <1>2, <2>1 DEF ClaimGranted, ClaimDeferred, ClaimDenied, MarkAcquisition, DeferClaim,
                      CompleteClaim, FencingInv, TypeOK
  <2> QED BY <2>1, <2>2, <2>3, OwnRowsEnd
<1>3. CASE UNCHANGED <<run, item, result>>
  BY <1>3 DEF RunsEnd, Frozen
<1>4. CASE \/ Request(w) \/ PersistCutoff(w) \/ CommitData(w) \/ TaskReturns(w)
           \/ TaskPostponed(w) \/ ReadBack(w) \/ Return(w) \/ Crash(w)
  <2>1. UNCHANGED <<run, item, result>>
    BY <1>4 DEF Request, BeginStart, BeginAdvance, BeginFinalize, Begin, PersistCutoff,
                CommitData, TaskReturns, TaskPostponed, ReadBack, Return, Crash, dbVars
  <2> QED BY <1>3, <2>1
<1> QED BY <1>1, <1>2, <1>4 DEF Transaction

LEMMA FinalizeEnds ==
  ASSUME FencingInv, NEW w \in Workers, FinalizeRun(w)
  PROVE  RunsEnd
<1> DEFINE r == job[w].run
           verdict == Verdict(job[w].view)
<1>1. /\ pc[w] = "finalize" /\ r \in Runs /\ job[w].now \in Nat
      /\ CanFinalize(r, job[w].now, verdict)
  BY WorkerKnown, FencingTyped DEF FinalizeRun
<1>2. /\ run' = [run EXCEPT ![r] = verdict] /\ result' = [result EXCEPT ![r] = job[w].view]
      /\ item' = item
  BY DEF FinalizeRun
<1>3. run'[r] = verdict /\ result'[r] = job[w].view /\ verdict # "running"
  BY <1>1, <1>2 DEF FencingInv, TypeOK, Verdict
<1>4. CanFinalize(r, lease.expires - 1, verdict)
  BY <1>1, RegisterTypes DEF CanFinalize, LeaseLive, FencingInv
<1>5. \A q \in Runs \ {r} : Frozen(q)
  BY <1>2 DEF Frozen, FencingInv, TypeOK
<1> QED BY <1>1, <1>2, <1>3, <1>4, <1>5 DEF RunsEnd, CanFinalize

LEMMA EveryStepEnds == FencingInv /\ [Next]_vars => RunsEnd
<1> SUFFICES ASSUME FencingInv, [Next]_vars PROVE RunsEnd
  OBVIOUS
<1>1. CASE UNCHANGED <<run, item, result>>
  BY <1>1 DEF RunsEnd, Frozen
<1>2. CASE Next
  <2>1. ASSUME \/ Tick \/ (\E s \in Scopes : PublisherCools(s) \/ PublisherRecovers(s))
               \/ (\E d \in Legacy : LegacyStep(d))
        PROVE  UNCHANGED <<run, item, result>>
    BY <2>1 DEF Tick, PublisherCools, PublisherRecovers, LegacyStep, LegacyAcquire,
                LegacyHeartbeat, LegacyRelease, LegacyCrash, unchangedByLegacy, dbVars
  <2>2. ASSUME NEW w \in Workers, Request(w) \/ Transaction(w) PROVE RunsEnd
    BY <2>2, RequestEnds, FinalizeEnds
  <2> QED BY <1>1, <1>2, <2>1, <2>2 DEF Next
<1> QED BY <1>1, <1>2 DEF vars

\* EndsSettled, made inductive: a run that goes on has no result yet.
SettledInv ==
  /\ EndsSettled
  /\ \A r \in Runs, i \in Items : run[r] \notin Terminal => result[r][i] = "none"

LEMMA SettledInit == Init => SettledInv
BY DEF Init, SettledInv, EndsSettled, Terminal

LEMMA SettledStep ==
  FencingInv /\ FencingInv' /\ SettledInv /\ [Next]_vars => SettledInv'
<1> SUFFICES ASSUME FencingInv, FencingInv', SettledInv, RunsEnd,
                    NEW q \in Runs, NEW i \in Items
             PROVE  /\ run'[q] \notin Terminal => result'[q][i] = "none"
                    /\ run'[q] \in Terminal =>
                         /\ item'[q][i].status # "claimed"
                         /\ item'[q][i].status = "pending" => item'[q][i].deferred
                         /\ item'[q][i].status = "failed" /\ Retryable(item'[q][i], i) =>
                              result'[q][i] = "none"
                         /\ run'[q] = "succeeded" =>
                              item'[q][i].status = "succeeded" /\ result'[q][i] = "ok"
  BY EveryStepEnds DEF SettledInv, EndsSettled
<1>1. CASE Frozen(q)
  BY <1>1 DEF Frozen, SettledInv, EndsSettled
<1>2. CASE /\ run[q] \notin Terminal /\ run'[q] \notin Terminal
           /\ result'[q] = result[q]
  BY <1>2 DEF SettledInv
<1>3. CASE /\ run[q] = "running" /\ run'[q] = "failed" /\ result'[q] = result[q]
           /\ \A k \in Items : item'[q][k].status \notin {"claimed", "pending"}
  BY <1>3 DEF SettledInv, Terminal
<1>4. CASE /\ run[q] = "running" /\ run'[q] # "running" /\ item'[q] = item[q]
           /\ CanFinalize(q, lease.expires - 1, run'[q])
           /\ run'[q] = Verdict(result'[q])
  <2>1. run'[q] \in Terminal
    BY <1>4 DEF Verdict, Terminal
  <2>2. run'[q] = "succeeded" => result'[q][i] = "ok"
    BY <1>4 DEF Verdict
  <2> QED BY <1>4, <2>1, <2>2 DEF CanFinalize
<1> QED BY <1>1, <1>2, <1>3, <1>4 DEF RunsEnd

\* No run ends with an item in the air, and a run that says it succeeded did.
THEOREM RunsEndSettled == Spec => []EndsSettled
<1>1. Spec => []SettledInv
  BY FencingHolds, SettledInit, SettledStep, PTL DEF Spec
<1>2. SettledInv => EndsSettled
  BY DEF SettledInv
<1> QED BY <1>1, <1>2, PTL

-----------------------------------------------------------------------------
(* With one request at a time, the result says what the rows say *)

\* The snapshot a request is about to finalize with is the rows as they are.
ViewsCurrent ==
  \A w \in Workers : pc[w] = "finalize" =>
    job[w].run \in Runs /\ \A i \in Items : job[w].view[i] = Report(item[job[w].run][i])

ResultInv == SettledInv /\ ResultMatchesItems /\ ViewsCurrent

\* Only renewing the run leads to finalizing it.
LEMMA OnlyRenewFinalizes ==
  ASSUME TypeOK, NEW w \in Workers, Request(w) \/ Transaction(w), pc'[w] = "finalize"
  PROVE  RenewRun(w)
<1>1. pc \in [Workers -> Steps]
  BY DEF TypeOK
<1>2. ~(StartRun(w) \/ ClaimDenied(w) \/ DeferClaim(w) \/ FinalizeRun(w) \/ Return(w) \/ Crash(w))
  BY <1>1 DEF StartRun, ClaimDenied, DeferClaim, FinalizeRun, Return, Crash, Stop
<1>3. ~ClaimDeferred(w)
  <2>1. ClaimDeferred(w) => Stop(w)
    BY DEF ClaimDeferred
  <2> QED BY <1>1, <2>1 DEF Stop
<1>4. ~(ResumeRun(w) \/ PersistCutoff(w) \/ TaskPostponed(w) \/ CompleteClaim(w) \/ ReadBack(w))
  BY <1>1 DEF ResumeRun, PersistCutoff, TaskPostponed, CompleteClaim, ReadBack, Goto
<1>5. ~ClaimGranted(w)
  <2>1. ClaimGranted(w) => Goto(w, "prepare") \/ Goto(w, "execute")
    BY DEF ClaimGranted
  <2> QED BY <1>1, <2>1 DEF Goto
<1>6. ~TaskReturns(w)
  <2>1. TaskReturns(w) => Goto(w, "complete")
    BY DEF TaskReturns, Outcome
  <2> QED BY <1>1, <2>1 DEF Goto
<1>7. ~(MarkAcquisition(w) \/ CommitData(w))
  BY <1>1 DEF MarkAcquisition, CommitData
<1>8. ~Request(w)
  BY <1>1 DEF Request, BeginStart, BeginAdvance, BeginFinalize, Begin, Goto
<1> QED BY <1>2, <1>3, <1>4, <1>5, <1>6, <1>7, <1>8 DEF Transaction

LEMMA ViewsStayCurrent ==
  ASSUME \A v, w \in Workers : v = w, FencingInv, ViewsCurrent, [Next]_vars
  PROVE  ViewsCurrent'
<1>1. CASE UNCHANGED <<item, pc, job>>
  BY <1>1 DEF ViewsCurrent
<1>2. ASSUME NEW w \in Workers, Request(w) \/ Transaction(w) PROVE ViewsCurrent'
  <2> SUFFICES ASSUME pc'[w] = "finalize"
               PROVE  job'[w].run \in Runs /\
                      \A i \in Items : job'[w].view[i] = Report(item'[job'[w].run][i])
    BY DEF ViewsCurrent
  <2> DEFINE q == job[w].run
             view == [i \in Items |-> Report(item[q][i])]
  <2>1. RenewRun(w) /\ TypeOK
    BY <1>2, OnlyRenewFinalizes DEF FencingInv
  <2>2. q \in Runs /\ Acquire(q, job[w].now) /\ job' = [job EXCEPT ![w].view = view]
    BY <2>1, WorkerKnown, FencingTyped DEF RenewRun
  <2>3. item'[q] = item[q]
    BY <2>2 DEF Acquire, Overdue
  <2>4. job[w] \in Job /\ job' = [job EXCEPT ![w] = [job[w] EXCEPT !.view = view]]
    BY <2>1, <2>2 DEF TypeOK
  <2> HIDE DEF view
  <2>5. job'[w].run = q /\ job'[w].view = view
    BY <2>1, <2>4 DEF TypeOK, Job
  <2> QED BY <2>2, <2>3, <2>5 DEF view
<1>3. CASE Next
  <2>1. ASSUME \/ Tick \/ (\E s \in Scopes : PublisherCools(s) \/ PublisherRecovers(s))
               \/ (\E d \in Legacy : LegacyStep(d))
        PROVE  UNCHANGED <<item, pc, job>>
    BY <2>1 DEF Tick, PublisherCools, PublisherRecovers, LegacyStep, LegacyAcquire,
                LegacyHeartbeat, LegacyRelease, LegacyCrash, unchangedByLegacy, dbVars
  <2> QED BY <1>1, <1>2, <1>3, <2>1 DEF Next
<1> QED BY <1>1, <1>3 DEF vars

LEMMA ResultStep ==
  ASSUME \A v, w \in Workers : v = w, FencingInv, FencingInv', ResultInv, [Next]_vars
  PROVE  ResultInv'
<1>1. SettledInv' /\ RunsEnd /\ ViewsCurrent'
  BY SettledStep, EveryStepEnds, ViewsStayCurrent DEF ResultInv
<1> SUFFICES ASSUME NEW q \in Runs, NEW k \in Items, result'[q][k] # "none"
             PROVE  /\ result'[q][k] = "ok" <=> item'[q][k].status = "succeeded"
                    /\ result'[q][k] = "error" <=> item'[q][k].status = "failed"
                    /\ result'[q][k] = "skipped" <=> item'[q][k].status = "skipped"
                    /\ result'[q][k] = "partial" <=> item'[q][k].status \in {"partial", "pending"}
  BY <1>1 DEF ResultInv, ResultMatchesItems
<1>2. CASE Frozen(q)
  BY <1>2 DEF Frozen, ResultInv, ResultMatchesItems
<1>3. CASE run[q] \notin Terminal /\ result'[q] = result[q]
  BY <1>3 DEF ResultInv, SettledInv
<1>4. CASE /\ run[q] = "running" /\ run'[q] # "running" /\ item'[q] = item[q]
           /\ CanFinalize(q, lease.expires - 1, run'[q])
           /\ \E w \in Workers : pc[w] = "finalize" /\ job[w].run = q /\ result'[q] = job[w].view
  <2>1. result'[q][k] = Report(item[q][k])
    BY <1>4 DEF ResultInv, ViewsCurrent
  <2>2. item[q][k].status # "claimed" /\ (item[q][k].status = "pending" => item[q][k].deferred)
    BY <1>4 DEF CanFinalize
  <2>3. item[q][k] \in ItemRow
    BY RowTypes DEF FencingInv
  <2>4. item[q][k].status \in Statuses
    BY <2>3 DEF ItemRow
  <2> QED BY <1>4, <2>1, <2>2, <2>4 DEF Report, Statuses, Done
<1> QED BY <1>1, <1>2, <1>3, <1>4 DEF RunsEnd, Terminal

\* Where the requests of a run do not overlap, its result says of every item what
\* the row says, the deferred ones included, and leaves none out.
THEOREM ResultsTell ==
  ASSUME \A v, w \in Workers : v = w
  PROVE  Spec => []ResultMatchesItems
<1>1. Init => ResultInv
  BY SettledInit DEF Init, ResultInv, ResultMatchesItems, ViewsCurrent
<1>2. FencingInv /\ FencingInv' /\ ResultInv /\ [Next]_vars => ResultInv'
  BY ResultStep
<1>3. ResultInv => ResultMatchesItems
  BY DEF ResultInv
<1> QED BY <1>1, <1>2, <1>3, FencingHolds, PTL DEF Spec

-----------------------------------------------------------------------------
(* The status document, the client and the claim agree *)

\* Least chooses the least natural number of a set that has one.
LEMMA LeastChosen ==
  ASSUME NEW T \in SUBSET Nat, T # {}
  PROVE  Least(T) \in T /\ \A u \in T : Least(T) <= u
<1>1. PICK n \in T : TRUE
  OBVIOUS
<1>2. PICK S : S = 0 .. n
  OBVIOUS
<1> DEFINE F == {A \in SUBSET S : \E k \in T : k <= n /\ A = 0 .. k}
<1>3. F \in SUBSET (SUBSET S) /\ F # {}
  BY <1>2
<1> HIDE DEF F
<1>4. IsWellFoundedOn(StrictSubsetOrdering(S), SUBSET S)
  <2>1. IsFiniteSet(S)
    BY <1>2, FS_Interval
  <2> QED BY <2>1, FS_StrictSubsetOrderingWellFounded, FS_FiniteSubsetsOfFinite
<1>5. PICK A \in F : \A B \in F : <<B, A>> \notin StrictSubsetOrdering(S)
  BY <1>3, <1>4, WFMin, Zenon
<1>6. PICK m \in T : m <= n /\ A = 0 .. m
  BY DEF F
<1>7. ASSUME NEW k \in T, k < m PROVE FALSE
  <2>1. 0 .. k \in F /\ 0 .. k \subseteq A /\ m \in A /\ m \notin 0 .. k
    BY <1>2, <1>6, <1>7 DEF F
  <2> QED BY <1>3, <1>5, <2>1 DEF StrictSubsetOrdering
<1>8. m \in T /\ \A u \in T : m <= u
  BY <1>6, <1>7
<1>9. \E t \in T : \A u \in T : t <= u
  BY <1>8
<1> QED BY <1>9 DEF Least

\* _due_work_item_key offers an item that passes its tests, and only while no
\* row is claimed.
LEMMA DueIsOffered ==
  ASSUME NEW table, NEW n, DueItem(table, n) # 0
  PROVE  /\ DueItem(table, n) \in Items /\ Offered(table, DueItem(table, n), n)
         /\ \A j \in Items : table[j].status # "claimed"
<1> DEFINE offered == {i \in Items : Offered(table, i, n)}
<1>1. /\ offered # {} /\ \A j \in Items : table[j].status # "claimed"
      /\ DueItem(table, n) = Least(offered)
  BY DEF DueItem
<1>2. Least(offered) \in offered
  <2>1. offered \in SUBSET Nat
    BY Constants
  <2> HIDE DEF offered
  <2> QED BY <1>1, <2>1, LeastChosen
<1> QED BY <1>1, <1>2

\* _next_item finds an item whenever one passes its tests, the offered one first.
LEMMA NextIsFound ==
  ASSUME NEW snap, NEW n, NEW k \in Items, Candidate(snap.rows[k], k, n)
  PROVE  NextItem(snap, n) # 0 /\ (snap.due = k => NextItem(snap, n) = k)
<1> DEFINE found == {i \in Items : Candidate(snap.rows[i], i, n)}
<1>1. k \in found /\ found \in SUBSET Items /\ 0 \notin Items
  BY DEF Items
<1>2. NextItem(snap, n) = IF snap.due \in found THEN snap.due ELSE Least(found)
  BY <1>1 DEF NextItem
<1>3. Least(found) \in found
  <2>1. found \in SUBSET Nat /\ found # {}
    BY <1>1, Constants
  <2> HIDE DEF found
  <2> QED BY <2>1, LeastChosen
<1> QED BY <1>1, <1>2, <1>3

\* The sweep of a claim touches claimed rows only.
LEMMA SweptUnclaimed ==
  ASSUME TypeOK, NEW p \in Runs, \A j \in Items : item[p][j].status # "claimed"
  PROVE  SweptRows(p, clock) = item[p]
<1>1. \A j \in Items : Swept(item[p][j], clock) = item[p][j]
  BY DEF Swept
<1>2. item[p] \in [Items -> ItemRow]
  BY DEF TypeOK
<1> QED BY <1>1, <1>2 DEF SweptRows

LEMMA RulesAgree == TypeOK => OneRule
<1> SUFFICES ASSUME TypeOK, NEW p \in Runs, run[p] = "running"
             PROVE  LET snap == SnapshotOf(p, clock)
                        k == snap.due
                    IN /\ k # 0 => /\ NextItem(snap, clock) = k
                                   /\ (\A j \in 1 .. k - 1 : ~Spent(item[p][j], j)) => Claimable(p, k)
                       /\ NextItem(snap, clock) = 0 => \A j \in Items : ~Claimable(p, j)
  BY DEF OneRule
<1> DEFINE snap == SnapshotOf(p, clock)
           k == DueItem(item[p], clock)
<1>1. snap.rows = item[p] /\ snap.due = k
  BY DEF SnapshotOf
<1>2. \A j \in Items : item[p][j] \in ItemRow
  BY DEF TypeOK
<1> HIDE DEF snap, k
<1>3. ASSUME k # 0
      PROVE  NextItem(snap, clock) = k /\ ((\A j \in 1 .. k - 1 : ~Spent(item[p][j], j)) => Claimable(p, k))
  <2>1. k \in Items /\ Offered(item[p], k, clock) /\ \A j \in Items : item[p][j].status # "claimed"
    BY <1>3, DueIsOffered DEF k
  <2>2. Candidate(item[p][k], k, clock)
    BY <2>1 DEF Offered, Unsettled, Candidate
  <2>3. NextItem(snap, clock) = k
    BY <1>1, <2>1, <2>2, NextIsFound
  <2>4. ASSUME \A j \in 1 .. k - 1 : ~Spent(item[p][j], j) PROVE Claimable(p, k)
    <3>1. SweptRows(p, clock) = item[p]
      BY <2>1, SweptUnclaimed
    <3>2. NoActiveClaim(item[p], clock) /\ Due(item[p][k], k, clock) /\ Eligible(k, clock)
      BY <2>1 DEF NoActiveClaim, LiveClaim, Offered, Unsettled, Due
    <3>3. ASSUME NEW j \in 1 .. k - 1
          PROVE  ~Runnable(item[p], j, clock) /\ ~(IsPhase(k) /\ Waiting(item[p], j, clock))
      <4>1. j \in Items /\ item[p][j].acquisitions \in Nat /\ item[p][j].nextAttempt \in Nat
            /\ clock \in Nat /\ MaxAttempts \in Nat
        <5>1. j \in Items
          BY <2>1, <3>3, Constants DEF Items
        <5> QED BY <1>2, <5>1, Constants DEF ItemRow, TypeOK
      <4>2. CASE Resolved(item[p][j], j)
        BY <4>2 DEF Runnable, Waiting
      <4>3. CASE ~Resolved(item[p][j], j)
        <5>1. item[p][j].acquisitions < MaxAttempts
          BY <2>4, <3>3, <4>1, <4>3 DEF Spent
        <5>2. item[p][j].status \in {"pending", "failed"}
          BY <1>2, <2>1, <4>1, <4>3 DEF Resolved, ItemRow, Statuses
        <5>3. Unsettled(item[p][j], j)
          BY <4>3, <5>1, <5>2 DEF Unsettled, Resolved
        <5>4. ~Blocks(item[p], j, k, clock)
          BY <2>1, <3>3 DEF Offered
        <5> QED BY <4>1, <5>3, <5>4 DEF Blocks, Runnable, Waiting
      <4> QED BY <4>2, <4>3
    <3>4. Holding(item[p], k, clock) = {}
      BY <3>3 DEF Holding
    <3> QED BY <3>1, <3>2, <3>4 DEF Claimable
  <2> QED BY <2>3, <2>4
<1>4. ASSUME NEW j \in Items, Claimable(p, j) PROVE NextItem(snap, clock) # 0
  <2>1. Due(Swept(item[p][j], clock), j, clock)
    BY <1>4 DEF Claimable, SweptRows
  <2>2. Candidate(item[p][j], j, clock)
    BY <1>2, <2>1 DEF Due, Swept, Candidate, ItemRow, Retryable
  <2> QED BY <1>1, <2>2, NextIsFound
<1> QED BY <1>1, <1>3, <1>4 DEF snap

\* Whatever the rows: the item a status document offers is the one the client
\* picks and a claim would be granted, unless a spent item is before it; and a
\* client that finds no work leaves none that a claim would be granted.
THEOREM OneRuleForAll == Spec => []OneRule
BY TypeCorrect, RulesAgree, PTL

-----------------------------------------------------------------------------
(* What the client reports stands *)

\* What a step of the client, or an answer, makes of the client.
ClientMoves ==
  /\ client' \in ClientRow
  /\ client'.phase = "start" => client'.tries < 2
  /\ client'.snap \in {client.snap, NoSnapshot} \/ (UNCHANGED vars /\ client'.snap = Snapshot)
  /\ client'.phase = "done" =>
       \/ client.phase = "done"
       \/ UNCHANGED vars /\ client.snap.state \in {"succeeded", "partial"}

LEMMA ClientConstants ==
  /\ ClientRun \in Runs /\ Workers # {} /\ MaxOps \in Nat /\ 0 < MaxOps /\ WaitBudget \in Nat
  /\ MaxWait \in Nat /\ MaxClock \in Nat /\ Deadline \in Nat /\ Deadline <= MaxClock
BY ClientAssumption, Constants DEF Deadline

LEMMA FreshDocument == NoSnapshot \in Document /\ NoSnapshot.state \notin Terminal
BY DEF NoSnapshot, Document, RunStates, FreshRow, ItemRow, Statuses, Done, Terminal

\* _snapshot_document: the work due is an item of the run, or none.
LEMMA SnapshotTyped == TypeOK => Snapshot \in Document
<1> SUFFICES ASSUME TypeOK PROVE Snapshot \in Document
  OBVIOUS
<1>1. run[ClientRun] \in RunStates /\ item[ClientRun] \in [Items -> ItemRow]
  BY ClientConstants DEF TypeOK
<1>2. DueItem(item[ClientRun], clock) \in Items \cup {0}
  BY DueIsOffered
<1>3. NextDue(item[ClientRun], clock) \in Nat
  <2> DEFINE times == {Later(item[ClientRun][i].nextAttempt,
                             IF Eligible(i, clock) THEN 0 ELSE CoolUntil(i)) :
                         i \in {j \in Items : Unsettled(item[ClientRun][j], j)}} \ {0}
  <2>1. ASSUME NEW i \in Items
        PROVE  Later(item[ClientRun][i].nextAttempt, IF Eligible(i, clock) THEN 0 ELSE CoolUntil(i)) \in Nat
    <3>1. item[ClientRun][i].nextAttempt \in Nat
      BY <1>1 DEF ItemRow
    <3>2. CoolUntil(i) \in Nat
      BY Constants DEF CoolUntil, TypeOK
    <3> QED BY <3>1, <3>2 DEF Later
  <2>2. times \in SUBSET Nat
    BY <2>1
  <2>3. NextDue(item[ClientRun], clock) = IF times = {} THEN 0 ELSE Least(times)
    BY DEF NextDue
  <2> HIDE DEF times
  <2>4. times # {} => Least(times) \in times
    BY <2>2, LeastChosen
  <2>5. CASE times = {}
    BY <2>3, <2>5
  <2>6. CASE times # {}
    <3>1. NextDue(item[ClientRun], clock) = Least(times) /\ Least(times) \in times
      BY <2>3, <2>4, <2>6, Zenon
    <3> QED BY <2>2, <3>1
  <2> QED BY <2>5, <2>6
<1> QED BY <1>1, <1>2, <1>3 DEF Snapshot, SnapshotOf, Document

LEMMA RaisedTyped ==
  /\ Idle \in ClientRow /\ Raised \in ClientRow
  /\ Idle.phase = "start" /\ Idle.tries = 0 /\ Idle.snap = NoSnapshot
  /\ Raised.phase = "raised" /\ Raised.snap = NoSnapshot
  /\ [Idle EXCEPT !.phase = "done"] \in ClientRow
  /\ [Idle EXCEPT !.phase = "done"].phase = "done"
  /\ [Idle EXCEPT !.phase = "done"].snap = NoSnapshot
BY FreshDocument, ClientConstants DEF Raised, Idle, ClientRow, Phases, Reasons

LEMMA CalledTyped ==
  ASSUME client \in ClientRow, NEW w \in Workers \cup {None}, NEW why \in Reasons
  PROVE  /\ Called(w, why) \in ClientRow /\ Called(w, why).phase = "call"
         /\ Called(w, why).snap = NoSnapshot
         /\ Called(w, why).tries = client.tries /\ Called(w, why).ops = client.ops
BY FreshDocument DEF Called, ClientRow, Phases

LEMMA CountedTyped ==
  ASSUME NEW c \in ClientRow, c.ops < MaxOps
  PROVE  /\ Counted(c) \in ClientRow /\ Counted(c).phase = c.phase /\ Counted(c).snap = c.snap
BY ClientConstants DEF Counted, ClientRow

LEMMA FollowTyped ==
  ASSUME client \in ClientRow, NEW snap \in Document, NEW why \in Reasons
  PROVE  /\ Follow(snap, why) \in ClientRow /\ Follow(snap, why).phase \in {"look", "raised"}
         /\ Follow(snap, why).snap \in {snap, NoSnapshot}
<1>1. CASE Follow(snap, why) = Raised
  BY <1>1, RaisedTyped
<1>2. CASE Follow(snap, why) # Raised
  <2> DEFINE half == [client EXCEPT !.phase = "look", !.reason = "start", !.worker = None]
             most == [half EXCEPT !.answer = "none", !.tries = 0]
  <2>1. Follow(snap, why) = [most EXCEPT !.snap = snap]
    BY <1>2 DEF Follow
  <2>2. half \in ClientRow /\ half.phase = "look"
    BY DEF ClientRow, Phases, Reasons
  <2> HIDE DEF half
  <2>3. 0 \in 0 .. 2
    OBVIOUS
  <2>4. most \in ClientRow /\ most.phase = "look"
    BY <2>2, <2>3 DEF ClientRow
  <2> HIDE DEF most
  <2>5. /\ [most EXCEPT !.snap = snap] \in ClientRow
        /\ [most EXCEPT !.snap = snap].phase = "look"
        /\ [most EXCEPT !.snap = snap].snap = snap
    BY <2>4 DEF ClientRow
  <2> QED BY <2>1, <2>5
<1> QED BY <1>1, <1>2

LEMMA IdleWorkerServes == IdleWorker \in Workers
<1>1. \E w \in Workers : pc[w] = "idle" \/ \A v \in Workers : pc[v] # "idle"
  BY ClientConstants
<1> QED BY <1>1 DEF IdleWorker

LEMMA ChosenIsItem ==
  ASSUME NEW snap, NEW n, NextItem(snap, n) # 0
  PROVE  NextItem(snap, n) \in Items
<1> DEFINE found == {i \in Items : Candidate(snap.rows[i], i, n)}
<1>1. found # {} /\ NextItem(snap, n) = IF snap.due \in found THEN snap.due ELSE Least(found)
  BY DEF NextItem
<1>2. Least(found) \in found
  <2>1. found \in SUBSET Nat
    BY Constants
  <2> HIDE DEF found
  <2> QED BY <1>1, <2>1, LeastChosen
<1> QED BY <1>1, <1>2

LEMMA PostingMoves ==
  ASSUME ClientTypeOK, StartsLeft,
         PostStart(IdleWorker) \/ PostItem(IdleWorker) \/ PostFinalize(IdleWorker)
  PROVE  ClientMoves
<1>1. IdleWorker \in Workers /\ client \in ClientRow
  BY IdleWorkerServes DEF ClientTypeOK
<1>2. ASSUME client' = [Called(IdleWorker, "start") EXCEPT !.tries = @ + 1], client.phase = "start"
      PROVE  ClientMoves
  <2>1. client.tries \in 0 .. 2 /\ client.tries < 2
    BY <1>1, <1>2 DEF StartsLeft, ClientRow
  <2>2. /\ Called(IdleWorker, "start") \in ClientRow
        /\ Called(IdleWorker, "start").phase = "call"
        /\ Called(IdleWorker, "start").snap = NoSnapshot
        /\ Called(IdleWorker, "start").tries = client.tries
    BY <1>1, CalledTyped DEF Reasons
  <2> DEFINE c == Called(IdleWorker, "start")
  <2> HIDE DEF c
  <2>3. /\ client' = [c EXCEPT !.tries = c.tries + 1] /\ c \in ClientRow /\ c.phase = "call"
        /\ c.snap = NoSnapshot /\ c.tries = client.tries
    BY <1>2, <2>2 DEF c
  <2>4. client' \in ClientRow /\ client'.phase = "call" /\ client'.snap = NoSnapshot
    BY <2>1, <2>3 DEF ClientRow
  <2> QED BY <2>4 DEF ClientMoves
<1>3. ASSUME NEW c \in ClientRow, client' = Counted(c), c.phase = "call", c.snap = NoSnapshot,
             c.ops < MaxOps
      PROVE  ClientMoves
  BY <1>3, CountedTyped DEF ClientMoves
<1>4. CASE PostStart(IdleWorker)
  BY <1>2, <1>4 DEF PostStart
<1>5. CASE PostItem(IdleWorker)
  <2>1. client' = Counted(Called(IdleWorker, "advance")) /\ client.ops < MaxOps
    BY <1>5 DEF PostItem, Iterating
  <2> QED BY <1>1, <1>3, <2>1, CalledTyped DEF Reasons
<1>6. CASE PostFinalize(IdleWorker)
  <2>1. client.ops < MaxOps
    BY <1>6 DEF PostFinalize, Iterating
  <2>2. CASE client' = Counted(Called(IdleWorker, "finalize"))
    BY <1>1, <1>3, <2>1, <2>2, CalledTyped DEF Reasons
  <2>3. CASE client' = Counted([Called(None, "finalize") EXCEPT !.answer = "ok"])
    <3> DEFINE c == Called(None, "finalize")
               d == [c EXCEPT !.answer = "ok"]
    <3>1. c \in ClientRow /\ c.phase = "call" /\ c.snap = NoSnapshot /\ c.ops = client.ops
      BY <1>1, CalledTyped DEF Reasons
    <3> HIDE DEF c
    <3>2. d \in ClientRow /\ d.phase = "call" /\ d.snap = NoSnapshot /\ d.ops = client.ops
      BY <3>1 DEF ClientRow
    <3>3. client' = Counted(d)
      BY <2>3 DEF c
    <3> HIDE DEF d
    <3> QED BY <1>3, <2>1, <3>2, <3>3
  <2> QED BY <1>6, <2>2, <2>3 DEF PostFinalize
<1> QED BY <1>4, <1>5, <1>6

LEMMA WaitingMoves ==
  ASSUME ClientTypeOK, StartsLeft, WaitForDue \/ WaitForClaim
  PROVE  ClientMoves
<1>1. client \in ClientRow /\ client.ops < MaxOps /\ clock \in Nat /\ client.snap \in Document
  BY DEF ClientTypeOK, ClientRow, TypeOK, WaitForDue, WaitForClaim, Iterating
<1>2. CASE WaitForDue
  <2> DEFINE n == client.snap.next
             waited == client.waited + (n - clock)
             half == [client EXCEPT !.phase = "sleep", !.reason = "due", !.until = n]
             most == [half EXCEPT !.snap = NoSnapshot]
             whole == [most EXCEPT !.waited = waited]
  <2>1. n \in Nat /\ n > clock /\ n <= Deadline /\ waited <= WaitBudget /\ client.waited \in Nat
    BY <1>1, <1>2 DEF WaitForDue, Waits, Document, ClientRow
  <2>2. n \in 0 .. MaxClock /\ waited \in 0 .. WaitBudget
    BY <1>1, <2>1, ClientConstants
  <2>3. client' = Counted(whole)
    <3>1. client' = Counted([client EXCEPT !.phase = "sleep", !.reason = "due", !.until = n,
                                           !.snap = NoSnapshot, !.waited = waited])
      BY <1>1, <1>2 DEF WaitForDue, ClientRow
    <3> QED BY <3>1
  <2> HIDE DEF n, waited
  <2>4. half \in ClientRow /\ half.phase = "sleep" /\ half.ops = client.ops
    BY <1>1, <2>2 DEF ClientRow, Phases, Reasons
  <2> HIDE DEF half
  <2>5. most \in ClientRow /\ most.phase = "sleep" /\ most.ops = client.ops /\ most.snap = NoSnapshot
    BY <2>4, FreshDocument DEF ClientRow
  <2> HIDE DEF most
  <2>6. /\ whole \in ClientRow /\ whole.phase = "sleep" /\ whole.ops = client.ops
        /\ whole.snap = NoSnapshot
    BY <2>2, <2>5 DEF ClientRow
  <2> HIDE DEF whole
  <2>7. /\ Counted(whole) \in ClientRow /\ Counted(whole).phase = "sleep"
        /\ Counted(whole).snap = NoSnapshot
    BY <1>1, <2>6, CountedTyped
  <2> QED BY <2>3, <2>7 DEF ClientMoves
<1>3. CASE WaitForClaim
  <2>1. CASE clock >= Deadline
    BY <1>3, <2>1, RaisedTyped DEF WaitForClaim, ClientMoves
  <2>2. CASE ~(clock >= Deadline)
    <3> DEFINE c == [client EXCEPT !.phase = "sleep", !.reason = "claimed", !.until = clock + 1]
    <3>1. clock + 1 \in 0 .. MaxClock
      BY <1>1, <2>2, ClientConstants
    <3>2. /\ c \in ClientRow /\ c.phase = "sleep" /\ c.ops = client.ops /\ c.snap = client.snap
      BY <1>1, <3>1 DEF ClientRow, Phases, Reasons
    <3>3. client' = Counted(c)
      BY <1>3, <2>2 DEF WaitForClaim
    <3> HIDE DEF c
    <3>4. Counted(c) \in ClientRow /\ Counted(c).phase = "sleep" /\ Counted(c).snap = client.snap
      BY <1>1, <3>2, CountedTyped
    <3> QED BY <3>3, <3>4 DEF ClientMoves
  <2> QED BY <2>1, <2>2
<1> QED BY <1>2, <1>3

LEMMA ReadingMoves ==
  ASSUME ClientTypeOK, StartsLeft,
         \/ Wake \/ Hear \/ GiveUp \/ StatusMissing \/ StatusRead \/ StatusUnavailable
         \/ Conclude \/ OutOfOperations
  PROVE  ClientMoves
<1>1. client \in ClientRow /\ client.snap \in Document /\ client.reason \in Reasons
  BY DEF ClientTypeOK, ClientRow
<1>2. Snapshot \in Document
  BY SnapshotTyped DEF ClientTypeOK
<1>3. UNCHANGED vars
  BY DEF Wake, Hear, GiveUp, StatusMissing, StatusRead, StatusUnavailable, Conclude,
         OutOfOperations
<1>4. CASE client' = Raised
  BY <1>4, RaisedTyped DEF ClientMoves
<1>5. CASE Wake
  <2>1. client' = [client EXCEPT !.phase = "status", !.until = 0] /\ 0 \in 0 .. MaxClock
    BY <1>5, ClientConstants DEF Wake
  <2>2. client' \in ClientRow /\ client'.phase = "status" /\ client'.snap = client.snap
    BY <1>1, <2>1 DEF ClientRow, Phases
  <2> QED BY <2>2 DEF ClientMoves
<1>6. CASE GiveUp
  <2>1. client' = [client EXCEPT !.phase = "status", !.worker = None]
    BY <1>6 DEF GiveUp
  <2>2. client' \in ClientRow /\ client'.phase = "status" /\ client'.snap = client.snap
    BY <1>1, <2>1 DEF ClientRow, Phases
  <2> QED BY <2>2 DEF ClientMoves
<1>7. ASSUME NEW snap \in Document, NEW why \in Reasons, client' = Follow(snap, why),
             snap \in {client.snap, Snapshot}
      PROVE  ClientMoves
  BY <1>1, <1>3, <1>7, FollowTyped DEF ClientMoves
<1>8. CASE StatusMissing
  <2>1. CASE client' = [client EXCEPT !.phase = "start", !.answer = "none"] /\ client.tries < 2
    <3>1. /\ client' \in ClientRow /\ client'.phase = "start" /\ client'.snap = client.snap
          /\ client'.tries = client.tries
      BY <1>1, <2>1 DEF ClientRow, Phases
    <3> QED BY <2>1, <3>1 DEF ClientMoves
  <2> QED BY <1>4, <1>8, <2>1 DEF StatusMissing
<1>9. CASE Conclude
  <2>1. CASE client' = [Idle EXCEPT !.phase = "done"]
    <3>1. client.snap.state \in {"succeeded", "partial"}
      <4>1. client.snap.state \in Terminal
        BY <1>9 DEF Conclude, Ends
      <4>2. client.snap.state # "failed"
        BY <1>9, <2>1, RaisedTyped DEF Conclude
      <4> QED BY <4>1, <4>2 DEF Terminal
    <3> QED BY <1>3, <2>1, <3>1, RaisedTyped DEF ClientMoves
  <2> QED BY <1>4, <1>9, <2>1 DEF Conclude
<1>10. CASE Hear \/ StatusRead
  BY <1>1, <1>2, <1>7, <1>10 DEF Hear, StatusRead
<1> QED BY <1>4, <1>5, <1>6, <1>8, <1>9, <1>10 DEF StatusUnavailable, OutOfOperations

LEMMA AnswerMoves ==
  ASSUME ClientTypeOK, StartsLeft, NEW w, NEW answer \in {"none", "ok", "conflict"},
         Answers(w, answer)
  PROVE  ClientMoves
<1>1. client \in ClientRow
  BY DEF ClientTypeOK
<1>2. CASE client' = client
  BY <1>1, <1>2 DEF ClientMoves, StartsLeft
<1>3. CASE client' = [client EXCEPT !.answer = answer]
  <2>1. /\ client' \in ClientRow /\ client'.phase = client.phase /\ client'.snap = client.snap
        /\ client'.tries = client.tries
    BY <1>1, <1>3 DEF ClientRow
  <2> QED BY <2>1 DEF ClientMoves, StartsLeft
<1> QED BY <1>2, <1>3 DEF Answers

\* Every step of the composition moves the client as ClientMoves says, and the
\* server as RefreshRun does.
LEMMA EveryStepMoves ==
  ASSUME ClientTypeOK, StartsLeft, [ClientNext]_clientVars
  PROVE  ClientMoves /\ [Next]_vars
<1>1. CASE UNCHANGED clientVars \/ Surroundings
  <2>1. client' = client /\ [Next]_vars
    BY <1>1 DEF clientVars, Surroundings, Next
  <2> QED BY <2>1 DEF ClientTypeOK, StartsLeft, ClientMoves
<1>2. ASSUME NEW w \in Workers, Serve(w) PROVE ClientMoves /\ [Next]_vars
  <2>1. ClientMoves
    BY <1>2, AnswerMoves DEF Serve
  <2>2. Transaction(w)
    BY <1>2 DEF Serve, Working, Transaction
  <2> QED BY <2>1, <2>2 DEF Next
<1>3. CASE PostStart(IdleWorker) \/ PostItem(IdleWorker) \/ PostFinalize(IdleWorker)
  <2>1. ClientMoves
    BY <1>3, PostingMoves
  <2>2. IdleWorker \in Workers
    BY IdleWorkerServes
  <2>3. Request(IdleWorker) \/ UNCHANGED vars
    <3>1. ASSUME PostItem(IdleWorker) PROVE Chosen \in Items
      <4>1. Chosen # 0
        BY <3>1 DEF PostItem
      <4> QED BY <4>1, ChosenIsItem DEF Chosen
    <3> QED BY <1>3, <3>1, ClientConstants DEF PostStart, PostItem, PostFinalize, Request
  <2> QED BY <2>1, <2>2, <2>3 DEF Next
<1>4. CASE \/ WaitForDue \/ WaitForClaim \/ Wake \/ Hear \/ GiveUp
           \/ StatusMissing \/ StatusRead \/ StatusUnavailable
           \/ Conclude \/ OutOfOperations
  <2>1. ClientMoves
    BY <1>4, WaitingMoves, ReadingMoves
  <2>2. UNCHANGED vars
    BY <1>4 DEF WaitForDue, WaitForClaim, Wake, Hear, GiveUp, StatusMissing, StatusRead,
                StatusUnavailable, Conclude, OutOfOperations
  <2> QED BY <2>1, <2>2
<1> QED BY <1>1, <1>2, <1>3, <1>4 DEF ClientNext, ClientStep

\* A transaction serves one request, and that request stays with its run.
LEMMA RequestStays ==
  ASSUME TypeOK, NEW w \in Workers, Transaction(w)
  PROVE  /\ pc'[w] = "idle" \/ (pc[w] # "idle" /\ job'[w].run = job[w].run)
         /\ \A v \in Workers \ {w} : pc'[v] = pc[v] /\ job'[v] = job[v]
<1>1. pc \in [Workers -> Steps] /\ job \in [Workers -> Job] /\ job[w] \in Job
  BY DEF TypeOK
<1>2. ASSUME Stop(w) PROVE pc'[w] = "idle" /\ \A v \in Workers \ {w} : pc'[v] = pc[v] /\ job'[v] = job[v]
  BY <1>1, <1>2 DEF Stop
<1>3. ASSUME NEW s, Goto(w, s) PROVE \A v \in Workers \ {w} : pc'[v] = pc[v]
  BY <1>1, <1>3 DEF Goto
<1>4. CASE \/ StartRun(w) \/ ClaimDeferred(w) \/ ClaimDenied(w) \/ DeferClaim(w) \/ FinalizeRun(w)
           \/ Return(w) \/ Crash(w)
  <2>1. Stop(w)
    BY <1>4 DEF StartRun, ClaimDeferred, ClaimDenied, DeferClaim, FinalizeRun, Return, Crash
  <2> QED BY <1>2, <2>1
<1>5. CASE PersistCutoff(w) \/ CompleteClaim(w) \/ CommitData(w)
  BY <1>1, <1>5 DEF PersistCutoff, CompleteClaim, CommitData, Goto
<1>6. CASE ResumeRun(w)
  <2>1. /\ pc[w] = "resume"
        /\ \/ Goto(w, "renew") /\ job' = [job EXCEPT ![w].item = 1]
           \/ /\ Goto(w, "claim")
              /\ \E c, b : job' = [job EXCEPT ![w].cutoff = c, ![w].allFailed = b]
    BY <1>6 DEF ResumeRun
  <2>2. ASSUME NEW c, NEW b, job' = [job EXCEPT ![w].cutoff = c, ![w].allFailed = b]
        PROVE  job'[w].run = job[w].run /\ \A v \in Workers \ {w} : job'[v] = job[v]
    <3> DEFINE half == [job EXCEPT ![w] = [job[w] EXCEPT !.cutoff = c]]
    <3>1. half \in [Workers -> {half[v] : v \in Workers}] /\ half[w].run = job[w].run
          /\ \A v \in Workers \ {w} : half[v] = job[v]
      BY <1>1 DEF Job
    <3>2. job' = [half EXCEPT ![w] = [half[w] EXCEPT !.allFailed = b]]
      BY <2>2
    <3>3. half[w] = [job[w] EXCEPT !.cutoff = c]
      BY <1>1
    <3>4. DOMAIN half = Workers
      BY <1>1
    <3>5. job'[w] = [half[w] EXCEPT !.allFailed = b]
      BY <3>2, <3>4
    <3>6. job'[w].run = half[w].run
      BY <1>1, <3>3, <3>5 DEF Job
    <3>7. \A v \in Workers \ {w} : job'[v] = half[v]
      BY <3>2, <3>4
    <3> QED BY <3>1, <3>6, <3>7
  <2>3. ASSUME job' = [job EXCEPT ![w].item = 1]
        PROVE  job'[w].run = job[w].run /\ \A v \in Workers \ {w} : job'[v] = job[v]
    BY <1>1, <2>3 DEF Job
  <2> QED BY <1>3, <2>1, <2>2, <2>3
<1>7. CASE ClaimGranted(w)
  <2>1. /\ pc[w] = "claim" /\ \E s : Goto(w, s)
        /\ \E c : job' = [job EXCEPT ![w].claim = c]
    BY <1>7 DEF ClaimGranted, MayClaim
  <2> QED BY <1>1, <1>3, <2>1 DEF Job
<1>8. CASE MarkAcquisition(w)
  <2>1. pc[w] = "execute" /\ pc' = pc /\ job' = [job EXCEPT ![w].marked = TRUE]
    BY <1>8 DEF MarkAcquisition
  <2> QED BY <1>1, <2>1 DEF Job
<1>9. CASE RenewRun(w)
  <2>1. /\ pc[w] = "renew" /\ Goto(w, "finalize")
        /\ \E c : job' = [job EXCEPT ![w].view = c]
    BY <1>9 DEF RenewRun
  <2> QED BY <1>1, <1>3, <2>1 DEF Job
<1>10. Settling(w).run = job[w].run /\ DOMAIN Settling(w) = DOMAIN NoJob
  BY DEF Settling, NoJob
<1>11. CASE TaskReturns(w)
  <2>1. /\ pc[w] = "execute" /\ Goto(w, "complete")
        /\ \E s, t : job' = [job EXCEPT ![w] = [Settling(w) EXCEPT !.outcome = s, !.transient = t]]
    BY <1>11 DEF TaskReturns, Outcome
  <2> QED BY <1>1, <1>3, <1>10, <2>1 DEF Settling, NoJob
<1>12. CASE TaskPostponed(w)
  <2>1. /\ pc[w] = "execute" /\ Goto(w, "defer")
        /\ \E t, b : job' = [job EXCEPT ![w] = [Settling(w) EXCEPT !.retryAt = t, !.transient = b]]
    BY <1>12 DEF TaskPostponed
  <2> QED BY <1>1, <1>3, <1>10, <2>1 DEF Settling, NoJob
<1>13. CASE ReadBack(w)
  <2>1. /\ pc[w] = "read" /\ Goto(w, "renew")
        /\ job' = [job EXCEPT ![w] = [Settling(w) EXCEPT !.item = 1, !.now = clock]]
    BY <1>13 DEF ReadBack
  <2> QED BY <1>1, <1>3, <1>10, <2>1 DEF Settling, NoJob
<1> QED BY <1>4, <1>5, <1>6, <1>7, <1>8, <1>9, <1>11, <1>12, <1>13 DEF Transaction

\* The lease of a run that ends goes with it, and nobody takes it for that run.
LEMMA LeaseGivenBack ==
  ASSUME FencingInv, EndedHoldNoLease, [Next]_vars
  PROVE  EndedHoldNoLease'
<1>1. ASSUME run' = run, lease'.owner = lease.owner \/ lease'.owner \notin Runs
      PROVE  EndedHoldNoLease'
  BY <1>1 DEF EndedHoldNoLease
<1>2. ASSUME NEW r \in Runs, NEW n, Acquire(r, n) PROVE EndedHoldNoLease'
  <2>1. lease'.owner = r /\ run'[r] = "running"
    BY <1>2 DEF Acquire
  <2> QED BY <2>1 DEF EndedHoldNoLease, Terminal
<1>3. None \notin Runs /\ Legacy \cap Runs = {}
  BY Constants
<1>4. ASSUME NEW w \in Workers, Request(w) \/ Transaction(w) PROVE EndedHoldNoLease'
  <2>1. CASE StartRun(w) \/ ResumeRun(w) \/ RenewRun(w)
    <3>1. job[w].run \in Runs /\ Acquire(job[w].run, job[w].now)
      BY <2>1, WorkerKnown, FencingTyped DEF StartRun, ResumeRun, RenewRun
    <3> QED BY <1>2, <3>1
  <2>2. CASE FinalizeRun(w)
    <3>1. lease'.owner = None
      BY <2>2 DEF FinalizeRun
    <3> QED BY <1>3, <3>1 DEF EndedHoldNoLease
  <2>3. CASE PersistCutoff(w)
    <3>1. run' = run /\ lease'.owner = lease.owner
      BY <2>3 DEF PersistCutoff, FencingInv, TypeOK
    <3> QED BY <1>1, <3>1
  <2>4. CASE \/ Request(w) \/ ClaimGranted(w) \/ ClaimDeferred(w) \/ ClaimDenied(w)
             \/ MarkAcquisition(w) \/ CommitData(w) \/ TaskReturns(w) \/ TaskPostponed(w)
             \/ DeferClaim(w) \/ CompleteClaim(w) \/ ReadBack(w) \/ Return(w) \/ Crash(w)
    <3>1. run' = run /\ lease' = lease
      BY <2>4 DEF Request, BeginStart, BeginAdvance, BeginFinalize, Begin, ClaimGranted,
                  ClaimDeferred, ClaimDenied, MarkAcquisition, CommitData, TaskReturns,
                  TaskPostponed, DeferClaim, CompleteClaim, ReadBack, Return, Crash, dbVars
    <3> QED BY <1>1, <3>1
  <2> QED BY <1>4, <2>1, <2>2, <2>3, <2>4 DEF Transaction
<1>5. ASSUME NEW d \in Legacy, LegacyStep(d) PROVE EndedHoldNoLease'
  <2>1. /\ run' = run
        /\ lease'.owner = lease.owner \/ lease'.owner \in {d, None}
    BY <1>5 DEF LegacyStep, LegacyAcquire, LegacyHeartbeat, LegacyRelease, LegacyCrash,
                unchangedByLegacy, FencingInv, TypeOK
  <2> QED BY <1>1, <1>3, <2>1
<1>6. CASE \/ Tick \/ (\E s \in Scopes : PublisherCools(s) \/ PublisherRecovers(s))
           \/ UNCHANGED vars
  <2>1. run' = run /\ lease' = lease
    BY <1>6 DEF Tick, PublisherCools, PublisherRecovers, dbVars, vars
  <2> QED BY <1>1, <2>1
<1> QED BY <1>4, <1>5, <1>6 DEF Next

LEMMA ClientStarts == ClientInit => FencingInv /\ ClientInv
<1> SUFFICES ASSUME ClientInit PROVE FencingInv /\ ClientInv
  OBVIOUS
<1>1. FencingInv /\ TypeOK
  BY FencingInit DEF ClientInit, FencingInv
<1>2. client \in ClientRow /\ client.phase = "start" /\ client.tries = 0 /\ client.snap = NoSnapshot
  BY RaisedTyped DEF ClientInit
<1>3. OwnRequests /\ EndedHoldNoLease
  BY DEF ClientInit, Init, OwnRequests, EndedHoldNoLease, Terminal
<1>4. ToldOfTheEnd /\ StartsLeft
  BY <1>2, FreshDocument DEF ToldOfTheEnd, StartsLeft
<1> QED BY <1>1, <1>2, <1>3, <1>4 DEF ClientInv, ClientTypeOK

LEMMA OwnRequestsStep ==
  ASSUME FencingInv, OwnRequests, [ClientNext]_clientVars
  PROVE  OwnRequests'
<1>1. TypeOK /\ pc \in [Workers -> Steps] /\ job \in [Workers -> Job]
  BY DEF FencingInv, TypeOK
<1>2. CASE UNCHANGED <<pc, job>>
  BY <1>2 DEF OwnRequests
<1>3. ASSUME NEW w \in Workers, Serve(w) PROVE OwnRequests'
  <2>1. Transaction(w)
    BY <1>3 DEF Serve, Working, Transaction
  <2> QED BY <1>1, <2>1, RequestStays DEF OwnRequests
<1>4. ASSUME NEW w \in Workers, NEW k \in Items, NEW s, Begin(w, ClientRun, k, s)
      PROVE  OwnRequests'
  <2>1. /\ pc' = [pc EXCEPT ![w] = s]
        /\ job' = [job EXCEPT ![w] = [NoJob EXCEPT !.run = ClientRun, !.item = k, !.now = clock]]
    BY <1>4 DEF Begin, Goto
  <2>2. job'[w].run = ClientRun /\ \A v \in Workers \ {w} : pc'[v] = pc[v] /\ job'[v] = job[v]
    BY <1>1, <2>1 DEF NoJob
  <2> QED BY <2>2 DEF OwnRequests
<1>5. CASE PostStart(IdleWorker) \/ PostItem(IdleWorker) \/ PostFinalize(IdleWorker)
  <2>1. IdleWorker \in Workers /\ 1 \in Items
    BY IdleWorkerServes, Constants
  <2>2. ASSUME PostItem(IdleWorker) PROVE Chosen \in Items
    <3>1. Chosen # 0
      BY <2>2 DEF PostItem
    <3> QED BY <3>1, ChosenIsItem DEF Chosen
  <2>3. CASE UNCHANGED vars
    BY <1>2, <2>3 DEF vars
  <2>4. \/ UNCHANGED vars
        \/ \E k \in Items, s \in Steps : Begin(IdleWorker, ClientRun, k, s)
    BY <1>5, <2>1, <2>2 DEF PostStart, PostItem, PostFinalize, BeginStart, BeginAdvance,
                            BeginFinalize, Steps
  <2> QED BY <1>4, <2>1, <2>3, <2>4
<1>6. CASE \/ WaitForDue \/ WaitForClaim \/ Wake \/ Hear \/ GiveUp
           \/ StatusMissing \/ StatusRead \/ StatusUnavailable
           \/ Conclude \/ OutOfOperations \/ Surroundings \/ UNCHANGED clientVars
  BY <1>2, <1>6 DEF WaitForDue, WaitForClaim, Wake, Hear, GiveUp, StatusMissing, StatusRead,
       StatusUnavailable, Conclude, OutOfOperations, Surroundings, Tick, clientVars, vars
<1> QED BY <1>3, <1>5, <1>6 DEF ClientNext, ClientStep

LEMMA ClientInvStep ==
  FencingInv /\ ClientInv /\ [ClientNext]_clientVars => FencingInv' /\ ClientInv'
<1> SUFFICES ASSUME FencingInv, ClientInv, [ClientNext]_clientVars
             PROVE  FencingInv' /\ ClientInv'
  OBVIOUS
<1>1. ClientMoves /\ [Next]_vars
  BY EveryStepMoves DEF ClientInv
<1>2. FencingInv' /\ RunsEnd
  BY <1>1, FencingStep, EveryStepEnds
<1>3. ClientTypeOK' /\ StartsLeft'
  BY <1>1, <1>2 DEF ClientMoves, ClientTypeOK, StartsLeft, FencingInv
<1>4. OwnRequests' /\ EndedHoldNoLease'
  BY <1>1, OwnRequestsStep, LeaseGivenBack DEF ClientInv
<1>5. run[ClientRun] \in Terminal => run'[ClientRun] = run[ClientRun]
  BY <1>2, ClientConstants DEF RunsEnd, Frozen, Terminal
<1>6. client'.snap.state \in Terminal => run'[ClientRun] = client'.snap.state
  <2>1. CASE client'.snap = client.snap
    BY <1>5, <2>1 DEF ClientInv, ToldOfTheEnd
  <2>2. CASE client'.snap = NoSnapshot
    BY <2>2, FreshDocument
  <2>3. CASE UNCHANGED vars /\ client'.snap = Snapshot
    BY <2>3 DEF Snapshot, SnapshotOf, vars
  <2> QED BY <1>1, <2>1, <2>2, <2>3 DEF ClientMoves
<1>7. client'.phase = "done" => run'[ClientRun] \in {"succeeded", "partial"}
  <2>1. CASE client.phase = "done"
    BY <1>5, <2>1 DEF ClientInv, ToldOfTheEnd, Terminal
  <2>2. CASE UNCHANGED vars /\ client.snap.state \in {"succeeded", "partial"}
    BY <2>2 DEF ClientInv, ToldOfTheEnd, Terminal, vars
  <2> QED BY <1>1, <2>1, <2>2 DEF ClientMoves
<1> QED BY <1>2, <1>3, <1>4, <1>6, <1>7 DEF ClientInv, ToldOfTheEnd

\* What run_resumable_refresh returns is the end of its run: whatever answers
\* were lost, the run is over, its lease is given back, and no request the client
\* gave up on can still write data of that run.
THEOREM ReportsStand == ClientSpec => []ResultStands
<1>1. ClientSpec => [](FencingInv /\ ClientInv)
  BY ClientStarts, ClientInvStep, PTL DEF ClientSpec
<1>2. FencingInv /\ ClientInv => ResultStands
  <2> SUFFICES ASSUME FencingInv, ClientInv, client.phase = "done"
               PROVE  /\ run[ClientRun] \in {"succeeded", "partial"}
                      /\ lease.owner # ClientRun
                      /\ \A w \in Workers : pc[w] \in {"prepare", "execute"} => ~Fenced(w)
    BY DEF ResultStands
  <2>1. run[ClientRun] \in {"succeeded", "partial"} /\ run[ClientRun] \in Terminal
    BY DEF ClientInv, ToldOfTheEnd, Terminal
  <2>2. lease.owner # ClientRun
    BY <2>1, ClientConstants DEF ClientInv, EndedHoldNoLease
  <2>3. ASSUME NEW w \in Workers, pc[w] \in {"prepare", "execute"} PROVE ~Fenced(w)
    BY <2>1, <2>3 DEF ClientInv, OwnRequests, Fenced
  <2> QED BY <2>1, <2>2, <2>3
<1> QED BY <1>1, <1>2, PTL
=============================================================================
