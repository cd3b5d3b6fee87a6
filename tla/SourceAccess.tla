---------------------------- MODULE SourceAccess ----------------------------
(***************************************************************************)
(* The circuit breaker of one publisher: the row of source_access_state    *)
(* (src/backend/db/store.py) and the audited operations that share it      *)
(* (src/backend/source_ingestion.py), each with its retry budget           *)
(* (ingestion_policy.py) and its bounded requests (provider_http.py).      *)
(*                                                                         *)
(* An operation asks for admission once, at its first request; it sends    *)
(* requests, retries some, and records what it learned of the publisher.   *)
(* A task of several indicators runs them under one budget and one         *)
(* admission: its operations are the parts of one operation here.          *)
(*                                                                         *)
(* The time a statement is given is read on the line before it, and is     *)
(* the clock of the step; the time of a receipt's success is that of the   *)
(* validated payload, perhaps long past.  Time 0 stands for NULL.          *)
(*                                                                         *)
(* An operator named X_Y above X is X with the mistake Y, as in RefreshRun. *)
(***************************************************************************)
EXTENDS Integers

CONSTANTS
  Operations,     \* concurrent operations on the publisher
  Threshold,      \* failures that open the circuit
  CoolTime,       \* least time an open circuit stays shut
  Deadline,       \* RetryProfile.deadline_seconds
  Margin,         \* what the lease of a probe adds to the deadline
  MaxRequests,    \* RetryProfile.max_requests
  Contracts,      \* what distinguishes the publishers, see Contract
  TextTimes,      \* timestamps are read as text (SQLite) or as datetimes (Postgres)
  MaxAdvice,      \* bound on a publisher's Retry-After
  MaxGeneration,  \* bound on the admissions
  MaxClock        \* bound on the modelled time

ASSUME NumbersAssumption ==
  /\ Threshold \in Nat \ {0} /\ MaxRequests \in Nat \ {0}
  /\ Deadline \in Nat \ {0} /\ Margin \in Nat /\ CoolTime \in Nat
  /\ Deadline <= CoolTime       \* 240 s at most, 300 s
  /\ MaxAdvice \in Nat \ {0} /\ MaxGeneration \in Nat /\ MaxClock \in Nat \ {0}
  /\ TextTimes \in BOOLEAN

\* Of a publisher: whether its source validates payloads into receipts (bcb_sgs,
\* tesouro), whether an operation asks several windows or days (bcb_sgs, b3), how
\* many operations share one budget and how often a request is attempted.
Contract ==
  [receipts : BOOLEAN, windows : BOOLEAN, parts : Nat \ {0}, attempts : Nat \ {0}]

ASSUME ContractsAssumption == Contracts \subseteq Contract

VARIABLES
  contract,   \* of the publisher, which does not change
  clock,
  access,     \* the row of source_access_state
  pc,         \* where each operation is
  op,         \* its budget and its locals
  probes,     \* history: the probes admitted since the circuit was last closed
  overtaken   \* history: operations with an admission or a failure after theirs

vars == <<contract, clock, access, pc, op, probes, overtaken>>

Receipts == contract.receipts
Windows  == contract.windows
Parts    == contract.parts
MaxAttempts == contract.attempts

States  == {"closed", "open", "half_open"}
Steps   == {"idle", "ready", "sent", "validated", "finishing", "failed", "ended"}
Results == {"none", "transient", "limited", "other"}

\* generation -1: there is no row yet; its first INSERT takes the default 0.
Row ==
  [state : States, failures : Nat, openedUntil : Nat, retryNotBefore : Nat,
   probeUntil : Nat, generation : Nat \cup {-1}]

Budget ==
  [started : Nat, generation : Nat \cup {-1}, gated : BOOLEAN, probe : BOOLEAN,
   requests : Nat, since : Nat, attempt : Nat, limit : Nat, advice : Nat,
   ack : Nat, result : Results, part : Nat]

NoBudget ==
  [started |-> 0, generation |-> -1, gated |-> FALSE, probe |-> FALSE,
   requests |-> 0, since |-> 0, attempt |-> 0, limit |-> 0, advice |-> 0,
   ack |-> 0, result |-> "none", part |-> 0]

Latest(s, t) == IF s < t THEN t ELSE s
Least(s, t)  == IF s < t THEN s ELSE t

\* A helper reads half_open_probe when its loop begins, the gate comes later;
\* those of b3 and ibge_sidra do not read it.
AttemptLimit(budget) == IF Receipts /\ budget.probe THEN 1 ELSE MaxAttempts

\* request_count: the requests of this part.
Sent(w) == op[w].requests - op[w].since

\* The deadline of the operation has not elapsed: it may still send requests.
InTime(w) == clock < op[w].started + Deadline
-----------------------------------------------------------------------------
(* The row *)

\* claim_source_access_probe, its WHERE.
Admissible(n) ==
  \/ access.state = "closed"
  \/ /\ access.state = "open"
     /\ access.openedUntil <= n /\ access.retryNotBefore <= n /\ access.probeUntil <= n
  \/ access.state = "half_open" /\ access.probeUntil <= n

\* claim_source_access_probe, its UPDATE: an admission that is not to a closed
\* circuit is its probe.
AdmittedRow(n) ==
  IF access.state = "closed"
  THEN [access EXCEPT !.generation = @ + 1]
  ELSE [access EXCEPT !.state = "half_open", !.probeUntil = n + Deadline + Margin,
                      !.generation = @ + 1]

\* record_source_access_failure: what opens the circuit.
Opens(limited, count, advice) ==
  \/ limited \/ advice # 0
  \/ access.failures + count >= Threshold

FailedRow_NoLeastWait(limited, count, advice, n) ==
  LET opens == Opens(limited, count, advice)
  IN [state          |-> IF opens THEN "open" ELSE "closed",
      failures       |-> IF limited THEN access.failures ELSE access.failures + count,
      openedUntil    |-> IF opens THEN Latest(n, advice) ELSE 0,
      retryNotBefore |-> IF advice # 0 THEN advice ELSE access.retryNotBefore,
      probeUntil     |-> 0,
      generation     |-> access.generation + 1]

\* record_source_access_failure; it looks at no generation, and a failure that
\* does not open the circuit closes it.
FailedRow(limited, count, advice, n) ==
  LET opens == Opens(limited, count, advice)
  IN [state          |-> IF opens THEN "open" ELSE "closed",
      failures       |-> IF limited THEN access.failures ELSE access.failures + count,
      openedUntil    |-> IF opens THEN Latest(n + CoolTime, advice) ELSE 0,
      retryNotBefore |-> IF advice # 0 THEN advice ELSE access.retryNotBefore,
      probeUntil     |-> 0,
      generation     |-> access.generation + 1]

\* record_source_access_success: advice still ahead of the success keeps the
\* circuit open.
SucceededRow(ack) ==
  LET ahead == access.retryNotBefore > ack
  IN [access EXCEPT !.failures = 0, !.probeUntil = 0,
                    !.state = IF ahead THEN "open" ELSE "closed",
                    !.openedUntil = IF ahead THEN @ ELSE 0,
                    !.retryNotBefore = IF ahead THEN @ ELSE 0]

\* The WHERE of that UPDATE.
Acknowledges_AnyGeneration(w) == op[w].generation # -1
Acknowledges(w) == op[w].generation # -1 /\ op[w].generation = access.generation

\* provider_eligibility: the scheduler's look at the row before it claims an
\* item. A timestamp that is not text is taken for none.
Seen(t) == IF TextTimes THEN t ELSE 0
PeekEligible(n) ==
  \/ access.state = "closed"
  \/ /\ Seen(access.probeUntil) <= n
     /\ Latest(Seen(access.retryNotBefore), Seen(access.openedUntil)) <= n
-----------------------------------------------------------------------------
(* An operation *)

Goto(w, step) == pc' = [pc EXCEPT ![w] = step]

\* A part that has its result; what its loop counted is not read again.
Concluded(budget, result) == [budget EXCEPT !.result = result, !.attempt = 0, !.limit = 0]

\* The loop of the next window.
NextLoop(budget, result) ==
  [budget EXCEPT !.result = result, !.attempt = 0, !.limit = AttemptLimit(budget)]

\* A window fails. The others are asked all the same, and the part fails with
\* its first failure; unless it fails at once.
Fails(w, budget, result) ==
  LET first == IF budget.result = "none" THEN result ELSE budget.result
  IN \/ Goto(w, "failed") /\ op' = [op EXCEPT ![w] = Concluded(budget, first)]
     \/ Windows /\ Goto(w, "ready") /\ op' = [op EXCEPT ![w] = NextLoop(budget, first)]

\* A part that is over.
Closed(w) == op' = [op EXCEPT ![w].result = "none", ![w].ack = 0]

\* _run or source_retry_scope: a budget of its own.
Begin(w) ==
  /\ pc[w] = "idle" /\ Goto(w, "ready")
  /\ op' = [op EXCEPT ![w] = [NoBudget EXCEPT !.started = clock, !.part = 1,
                                              !.limit = AttemptLimit(NoBudget)]]
  /\ probes' = probes \ {w}
  /\ UNCHANGED <<clock, access, overtaken>>

\* reserve_request, its first: the gate admits the operation and the request goes
\* out, or the circuit is open.
MayReserve(w) == pc[w] = "ready" /\ InTime(w) /\ op[w].requests < MaxRequests

Admit(w) ==
  /\ MayReserve(w) /\ ~op[w].gated
  /\ access.generation < MaxGeneration
  /\ Admissible(clock)
  /\ access' = AdmittedRow(clock)
  /\ op' = [op EXCEPT ![w].gated = TRUE, ![w].requests = @ + 1,
                      ![w].generation = AdmittedRow(clock).generation,
                      ![w].probe = @ \/ access.state # "closed"]
  /\ Goto(w, "sent")
  /\ probes' = IF access.state = "closed" THEN probes ELSE probes \cup {w}
  /\ overtaken' = Operations \ {w}
  /\ UNCHANGED clock

\* CircuitOpen: no request was sent, so there is nothing to record.
Refuse(w) ==
  /\ MayReserve(w) /\ ~op[w].gated /\ ~Admissible(clock)
  /\ Fails(w, [op[w] EXCEPT !.generation = -1], "other")
  /\ UNCHANGED <<clock, access, probes, overtaken>>

\* reserve_request, once admitted.
Send(w) ==
  /\ MayReserve(w) /\ op[w].gated
  /\ op' = [op EXCEPT ![w].requests = @ + 1]
  /\ Goto(w, "sent")
  /\ UNCHANGED <<clock, access, probes, overtaken>>

\* RetryBudgetExceeded, or the failure it would have retried.
Exhaust(w) ==
  /\ pc[w] = "ready" /\ ~(InTime(w) /\ op[w].requests < MaxRequests)
  /\ \E result \in {"other"} \cup (IF op[w].attempt > 0 THEN {"transient"} ELSE {}) :
       Fails(w, op[w], result)
  /\ UNCHANGED <<clock, access, probes, overtaken>>

\* The complete payload passed its validator.
Validate(w) ==
  /\ pc[w] = "sent" /\ op[w].result = "none" /\ Goto(w, "validated")
  /\ op' = [op EXCEPT ![w] = [Concluded(@, "none") EXCEPT !.ack = IF Receipts THEN clock ELSE 0]]
  /\ UNCHANGED <<clock, access, probes, overtaken>>

\* The answer was one window of several.
NextWindow(w) ==
  /\ pc[w] = "sent" /\ Windows /\ Goto(w, "ready")
  /\ op' = [op EXCEPT ![w] = NextLoop(@, op[w].result)]
  /\ UNCHANGED <<clock, access, probes, overtaken>>

\* The last window was answered, an earlier one had failed.
EndIncomplete(w) ==
  /\ pc[w] = "sent" /\ op[w].result # "none" /\ Goto(w, "failed")
  /\ op' = [op EXCEPT ![w] = Concluded(@, op[w].result)]
  /\ UNCHANGED <<clock, access, probes, overtaken>>

\* A 4xx, a forbidden host, an invalid payload, which ends the operation at
\* once: no evidence on the publisher.
Reject(w) ==
  /\ pc[w] = "sent"
  /\ \/ Fails(w, op[w], "other")
     \/ Goto(w, "failed") /\ op' = [op EXCEPT ![w] = Concluded(@, "other")]
  /\ UNCHANGED <<clock, access, probes, overtaken>>

\* A timeout, a reset or a 5xx, perhaps with a Retry-After: retried while
\* attempts remain, unless the wait is too long.
MayRetry(w) == op[w].attempt + 1 < op[w].limit

Disturb(w) ==
  /\ pc[w] = "sent"
  /\ \E advice \in {0} \cup {clock + a : a \in 1 .. MaxAdvice} :
       LET told == [op[w] EXCEPT !.advice = IF advice = 0 THEN @ ELSE Latest(@, advice)]
       IN \/ /\ MayRetry(w) /\ Goto(w, "ready")
             /\ op' = [op EXCEPT ![w] = [told EXCEPT !.attempt = @ + 1]]
          \/ Fails(w, told, "transient")
  /\ UNCHANGED <<clock, access, probes, overtaken>>

\* 429: the publisher's Retry-After, or five minutes; never retried.
Limit(w) ==
  /\ pc[w] = "sent"
  /\ \E a \in 1 .. MaxAdvice :
       LET told == [op[w] EXCEPT !.advice = Latest(@, clock + a)]
       IN Fails(w, told, "limited")
  /\ UNCHANGED <<clock, access, probes, overtaken>>

\* _record_breaker_success. A source with receipts records it whatever becomes
\* of the data, the others when the operation returned in time.
Acknowledge(w) ==
  /\ LET ack == IF Receipts THEN op[w].ack ELSE clock
     IN access' = IF Acknowledges(w) THEN SucceededRow(ack) ELSE access
  /\ probes' = IF access'.state = "closed" THEN {} ELSE probes
  /\ UNCHANGED <<clock, overtaken>>

RecordSuccess(w) ==
  /\ pc[w] = "validated" /\ (Receipts \/ InTime(w))
  /\ Goto(w, "finishing") /\ op' = op
  /\ Acknowledge(w)

\* The data could not be stored, or not in time, and there is no receipt.
DropSuccess(w) ==
  /\ pc[w] = "validated" /\ ~Receipts
  /\ Goto(w, "ended") /\ Closed(w)
  /\ UNCHANGED <<clock, access, probes, overtaken>>

\* finish_source_extraction; when it fails, the receipt is acknowledged again.
Finish(w) ==
  /\ pc[w] = "finishing" /\ Goto(w, "ended") /\ Closed(w)
  /\ UNCHANGED <<clock, access, probes, overtaken>>

FinishFails(w) ==
  /\ pc[w] = "finishing" /\ Receipts
  /\ Goto(w, "ended") /\ Closed(w)
  /\ Acknowledge(w)

\* _record_breaker_outcome.
Recorded(w) == Sent(w) > 0 /\ op[w].result \in {"transient", "limited"}

RecordFailure(w) ==
  /\ pc[w] = "failed" /\ Recorded(w)
  /\ LET limited == op[w].result = "limited"
         count   == IF limited THEN 0 ELSE Least(Sent(w), 3)
     IN access' = FailedRow(limited, count, op[w].advice, clock)
  /\ Goto(w, "ended") /\ Closed(w)
  /\ probes' = IF access'.state = "closed" THEN {} ELSE probes
  /\ overtaken' = Operations
  /\ UNCHANGED clock

RecordNothing(w) ==
  /\ pc[w] = "failed" /\ ~Recorded(w)
  /\ Goto(w, "ended") /\ Closed(w)
  /\ UNCHANGED <<clock, access, probes, overtaken>>

\* The next indicator of the task inherits the budget.
NextPart(w) ==
  /\ pc[w] = "ended" /\ op[w].part < Parts
  /\ Goto(w, "ready")
  /\ op' = [op EXCEPT ![w].part = @ + 1, ![w].since = op[w].requests,
                      ![w].limit = AttemptLimit(op[w])]
  /\ UNCHANGED <<clock, access, probes, overtaken>>

\* The budget ends with its last part, or with its process.
Leave(w) ==
  /\ pc[w] # "idle" /\ Goto(w, "idle")
  /\ op' = [op EXCEPT ![w] = NoBudget]
  /\ UNCHANGED <<clock, access, probes, overtaken>>

Tick ==
  /\ clock < MaxClock /\ clock' = clock + 1
  /\ UNCHANGED <<access, pc, op, probes, overtaken>>
-----------------------------------------------------------------------------
Init ==
  /\ contract \in Contracts
  /\ clock = 1
  /\ access = [state |-> "closed", failures |-> 0, openedUntil |-> 0,
               retryNotBefore |-> 0, probeUntil |-> 0, generation |-> -1]
  /\ pc = [w \in Operations |-> "idle"]
  /\ op = [w \in Operations |-> NoBudget]
  /\ probes = {} /\ overtaken = {}

Requesting(w) == Admit(w) \/ Refuse(w) \/ Send(w) \/ Exhaust(w)
Answered(w) ==
  Validate(w) \/ NextWindow(w) \/ EndIncomplete(w) \/ Reject(w) \/ Disturb(w) \/ Limit(w)
Recording(w) ==
  RecordSuccess(w) \/ DropSuccess(w) \/ Finish(w) \/ FinishFails(w)
    \/ RecordFailure(w) \/ RecordNothing(w)

Next ==
  /\ \/ \E w \in Operations :
          Begin(w) \/ Requesting(w) \/ Answered(w) \/ Recording(w) \/ NextPart(w) \/ Leave(w)
     \/ Tick
  /\ UNCHANGED contract

Spec == Init /\ [][Next]_vars

TypeOK ==
  /\ contract \in Contracts
  /\ clock \in Nat
  /\ access \in Row
  /\ pc \in [Operations -> Steps]
  /\ op \in [Operations -> Budget]
  /\ probes \subseteq Operations /\ overtaken \subseteq Operations
=============================================================================
