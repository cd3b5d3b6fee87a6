---------------------------- MODULE ProviderFetch ----------------------------
(* How the fetchers of one process reach the publishers and store what they   *)
(* get.  A fetch works through its units (date windows, trade days, datasets, *)
(* one file) with one or two threads.  A thread waits for one of a host's     *)
(* slots, has the request counted by the fetch's budget while it holds the    *)
(* slot, and gives the slot back before it looks at the answer: a redirect    *)
(* waits for the next host's slot, some answers are asked again, the rest end *)
(* the unit.  Units are stored one by one, sheet by sheet, or all at the end; *)
(* a fetch that keeps a freshness mark sets it after its rows.               *)
(*                                                                          *)
(* A deadline is an event (Elapse) after which waits and counts fail; the     *)
(* deadlines of single units are left out.  Of the circuit breaker only its   *)
(* refusal is here (Denied); it and the half-open probe are in SourceAccess.  *)
EXTENDS Integers, FiniteSets, FiniteSetsExt

CONSTANTS Fetches, Hosts, None,
          Slots,         \* MAX_HOST_CONCURRENCY
          MaxRedirects,
          Ops,           \* fetch -> how it works, see OpType
          Scenarios,     \* sets of fetches that run in one process
          Rounds         \* bound: fetch -> how often it is run

\* What a request may come to.  "rejected": another host, or too large.
Answers == {"ok", "empty", "invalid", "redirect", "rejected", "deferred",
            "transport", "server", "refused", "garbled", "encoding"}

(* Of a fetch: its units, its threads, its publisher's host, the attempts at  *)
(* a unit, the cap of a unit's requests, whether it goes through the          *)
(* asynchronous path and whether its attempts stay where a redirect led, the  *)
(* answers it meets and those it asks again after, the failures that do not   *)
(* stop it, when it stores ("unit" or "end"), in how many transactions a unit *)
(* is stored, whether it leaves out stored units, whether it keeps a mark     *)
(* ("no", "unit" or "whole") and whether each unit is an operation of its own *)
(* to the audit.                                                             *)
OpType ==
  [units : SUBSET Nat, threads : 1..2, host : Hosts, attempts : Nat \ {0},
   unitCap : Nat \ {0}, async : BOOLEAN, stays : BOOLEAN,
   answers : SUBSET Answers, retried : SUBSET Answers, tolerates : SUBSET STRING,
   stores : {"unit", "end"}, parts : Nat \ {0}, skipsStored : BOOLEAN,
   marks : {"no", "unit", "whole"}, auditsUnits : BOOLEAN]

\* No loop asks for a unit more often than the unit may be asked for.
ASSUME FetchAssumption ==
  /\ {Slots, MaxRedirects} \subseteq Nat \ {0} /\ Rounds \in [Fetches -> Nat]
  /\ IsFiniteSet(Fetches) /\ Scenarios \subseteq SUBSET Fetches
  /\ None \notin {"ok", "partial", "error", "unknown"}
  /\ Ops \in [Fetches -> OpType]
  /\ \A f \in Fetches :
       /\ 0 \notin Ops[f].units /\ IsFiniteSet(Ops[f].units)
       /\ Ops[f].attempts <= Ops[f].unitCap /\ Ops[f].retried \subseteq Ops[f].answers

VARIABLES free,    \* host -> slots its semaphore has left
          lost,    \* host -> slots granted to a request that was cancelled
          op,      \* fetch -> its current run
          thread,  \* fetch -> thread -> what it does
          stored,  \* fetch -> units whose rows are in the database
          fresh   \* fetch -> units with a mark younger than 23 hours

vars == <<free, lost, op, thread, stored, fresh>>
slots == <<free, lost>>
database == <<stored, fresh>>

Threads(f) == 1..Ops[f].threads
Idle == [pc |-> "idle", unit |-> 0, host |-> None, hops |-> 0, attempt |-> 0]

\* A run: whether the breaker admitted it, the state of its units, the requests
\* counted, of them those a unit counted, the transactions of the unit at hand,
\* whether it set its mark and how it ended.
NewRun(f, plan, round) ==
  [state |-> "running", round |-> round, late |-> FALSE, admitted |-> FALSE, plan |-> plan,
   work |-> [u \in Ops[f].units |-> IF u \in plan THEN "todo" ELSE "left"],
   requests |-> 0, counted |-> [u \in Ops[f].units |-> 0], parts |-> 0,
   marked |-> FALSE, result |-> None]

Init ==
  /\ free = [h \in Hosts |-> Slots] /\ lost = [h \in Hosts |-> 0]
  /\ \E active \in Scenarios :
       op = [f \in Fetches |-> [NewRun(f, {}, IF f \in active THEN 0 ELSE Rounds[f])
                                  EXCEPT !.state = "ended"]]
  /\ thread = [f \in Fetches |-> [i \in Threads(f) |-> Idle]]
  /\ stored = [f \in Fetches |-> {}] /\ fresh = [f \in Fetches |-> {}]

----------------------------------------------------------------------------
Pending == {"left", "todo", "busy", "ok"}
Answered == {"saved", "empty"}
Failed(f, u) == op[f].work[u] \notin Pending \cup Answered \cup {"cancelled"}
Fatal(f, u) == Failed(f, u) /\ op[f].work[u] \notin Ops[f].tolerates
Stopped(f) == \E u \in op[f].plan : Fatal(f, u)
NoneLeft(f) == \A u \in op[f].plan : op[f].work[u] \notin {"todo", "busy"}

SetThread(f, i, t) == thread' = [thread EXCEPT ![f][i] = t]

\* The thread leaves its unit in a state of the unit's work.
Settle(f, i, status) ==
  /\ SetThread(f, i, Idle)
  /\ op' = [op EXCEPT ![f].work[thread[f][i].unit] = status]

----------------------------------------------------------------------------
\* What a run has to fetch: with the cache, not what is marked fresh.
Plan(f, cached) ==
  Ops[f].units \ ((IF cached THEN fresh[f] ELSE {})
                    \cup (IF Ops[f].skipsStored THEN stored[f] ELSE {}))

Begin(f, cached) ==
  /\ op[f].state = "ended" /\ op[f].round < Rounds[f]
  /\ op' = [op EXCEPT ![f] = NewRun(f, Plan(f, cached), op[f].round + 1)]
  /\ UNCHANGED <<slots, thread, database>>

Elapse(f) ==
  /\ op[f].state = "running" /\ ~op[f].late
  /\ op' = [op EXCEPT ![f].late = TRUE]
  /\ UNCHANGED <<slots, thread, database>>

\* Twenty-three hours pass.
Age(f) ==
  /\ op[f].state = "ended" /\ fresh[f] # {}
  /\ fresh' = [fresh EXCEPT ![f] = {}]
  /\ UNCHANGED <<slots, op, thread, stored>>

\* A thread takes the first unit left; a fetch of one thread stops at a failure
\* it does not tolerate.
Take(f, i) ==
  /\ op[f].state = "running" /\ thread[f][i] = Idle
  /\ Ops[f].threads > 1 \/ ~Stopped(f)
  /\ LET todo == {u \in op[f].plan : op[f].work[u] = "todo"}
     IN  /\ todo # {}
         /\ SetThread(f, i, [pc |-> "wait", unit |-> Min(todo), host |-> Ops[f].host,
                             hops |-> 0, attempt |-> 1])
         /\ op' = [op EXCEPT ![f].work[Min(todo)] = "busy"]
  /\ UNCHANGED <<slots, database>>

\* Two threads' results are read in order: the first failure cancels what no
\* thread has taken, once all the results before it are there.
Cancel(f) ==
  /\ op[f].state = "running" /\ Ops[f].threads > 1
  /\ \E u \in op[f].plan :
       /\ Fatal(f, u)
       /\ \A v \in op[f].plan : v < u => op[f].work[v] \in Answered
  /\ \E u \in op[f].plan : op[f].work[u] = "todo"
  /\ op' = [op EXCEPT ![f].work = [u \in Ops[f].units |->
              IF op[f].work[u] = "todo" THEN "cancelled" ELSE op[f].work[u]]]
  /\ UNCHANGED <<slots, thread, database>>

----------------------------------------------------------------------------
\* The asynchronous path has a helper thread wait for the slot.
Grant(f, i) ==
  LET t == thread[f][i]
  IN  /\ Ops[f].async /\ t.pc = "wait" /\ free[t.host] > 0
      /\ free' = [free EXCEPT ![t.host] = @ - 1]
      /\ SetThread(f, i, [t EXCEPT !.pc = "granted"])
      /\ UNCHANGED <<lost, op, database>>

GiveUp_Untimed(f, i) == FALSE /\ UNCHANGED vars

GiveUp(f, i) ==
  /\ thread[f][i].pc = "wait" /\ op[f].late
  /\ Settle(f, i, "deadline")
  /\ UNCHANGED <<slots, database>>

\* The deadline cancels the request after the helper got the slot and before the
\* request took it over: nobody gives it back.
CancelGranted(f, i) ==
  LET t == thread[f][i]
  IN  /\ t.pc = "granted" /\ op[f].late
      /\ lost' = [lost EXCEPT ![t.host] = @ + 1]
      /\ Settle(f, i, "deadline")
      /\ UNCHANGED <<free, database>>

HasSlot(f, t) == IF Ops[f].async THEN t.pc = "granted" ELSE t.pc = "wait" /\ free[t.host] > 0

Exhausted_UnitCap(f, t) == op[f].requests >= Ops[f].unitCap

\* The cap of the whole is that of its units together: of all, or, where a fetch
\* leaves out what it has stored, of those it planned.
RootCap(f) ==
  Ops[f].unitCap * Cardinality(IF Ops[f].skipsStored THEN op[f].plan ELSE Ops[f].units)

\* Redirects count against the whole and not against the unit.
Exhausted(f, t) ==
  \/ op[f].requests >= RootCap(f)
  \/ t.hops = 0 /\ op[f].counted[t.unit] >= Ops[f].unitCap

Dispatch(f, i) ==
  LET t == thread[f][i]
  IN  /\ HasSlot(f, t) /\ ~op[f].late /\ ~Exhausted(f, t)
      /\ op' = [op EXCEPT ![f].admitted = TRUE, ![f].requests = @ + 1,
                          ![f].counted[t.unit] = IF t.hops = 0 THEN @ + 1 ELSE @]
      /\ free' = IF Ops[f].async THEN free ELSE [free EXCEPT ![t.host] = @ - 1]
      /\ SetThread(f, i, [t EXCEPT !.pc = "sent"])
      /\ UNCHANGED <<lost, database>>

\* A request the budget or the breaker refuses gives its slot back; a redirect
\* the budget refuses leaves its unit stranded.
Refuse(f, i) ==
  LET t == thread[f][i]
  IN  /\ HasSlot(f, t)
      /\ \/ op[f].late /\ Settle(f, i, "deadline")
         \/ ~op[f].late /\ Exhausted(f, t)
            /\ Settle(f, i, IF t.hops = 0 THEN "exhausted" ELSE "stranded")
         \/ ~op[f].late /\ ~Exhausted(f, t) /\ ~op[f].admitted /\ Settle(f, i, "denied")
      /\ free' = IF Ops[f].async THEN [free EXCEPT ![t.host] = @ + 1] ELSE free
      /\ UNCHANGED <<lost, database>>

----------------------------------------------------------------------------
Release_SameHost(t) == free' = IF t.hops > 0 THEN free ELSE [free EXCEPT ![t.host] = @ + 1]
Release(t) == free' = [free EXCEPT ![t.host] = @ + 1]

Redirect(f, i, h) ==
  LET t == thread[f][i]
  IN  /\ t.pc = "sent" /\ "redirect" \in Ops[f].answers
      /\ Release(t)
      /\ IF t.hops = MaxRedirects THEN Settle(f, i, "redirects")
         ELSE /\ SetThread(f, i, [t EXCEPT !.pc = "wait", !.host = h, !.hops = @ + 1])
              /\ UNCHANGED op
      /\ UNCHANGED <<lost, database>>

\* Asked again, from the start unless the attempts stay where a redirect led.
AskAgain(f, i, a) ==
  LET t == thread[f][i]
  IN  /\ t.pc = "sent" /\ a \in Ops[f].retried /\ t.attempt < Ops[f].attempts
      /\ ~(Ops[f].async /\ op[f].late)
      /\ Release(t)
      /\ SetThread(f, i, [t EXCEPT !.pc = "wait", !.hops = 0, !.attempt = @ + 1,
                                   !.host = IF Ops[f].stays THEN @ ELSE Ops[f].host])
      /\ UNCHANGED <<lost, op, database>>

AnswerFails(f, i, a) ==
  LET t == thread[f][i]
  IN  /\ t.pc = "sent" /\ a \in Ops[f].answers \ {"ok", "empty", "redirect"}
      /\ a \in Ops[f].retried => t.attempt = Ops[f].attempts
      /\ Release(t)
      /\ Settle(f, i, a)
      /\ UNCHANGED <<lost, database>>

AnswerLate(f, i) ==
  LET t == thread[f][i]
  IN  /\ t.pc = "sent" /\ Ops[f].async /\ op[f].late
      /\ Release(t)
      /\ Settle(f, i, "deadline")
      /\ UNCHANGED <<lost, database>>

\* A valid answer: its rows are stored by the thread, or kept for the end.
AnswerServes(f, i, a) ==
  LET t == thread[f][i]
  IN  /\ t.pc = "sent" /\ a \in Ops[f].answers \cap {"ok", "empty"}
      /\ ~(Ops[f].async /\ op[f].late)
      /\ Release(t)
      /\ CASE a = "empty" -> Settle(f, i, "empty")
           [] a = "ok" /\ Ops[f].stores = "end" -> Settle(f, i, "ok")
           [] a = "ok" /\ Ops[f].stores = "unit" ->
                /\ SetThread(f, i, [t EXCEPT !.pc = "parsed"])
                /\ UNCHANGED op
      /\ UNCHANGED <<lost, database>>

----------------------------------------------------------------------------
\* One transaction of a unit; the last of them makes the unit stored.
StorePart(f, i) ==
  LET u == thread[f][i].unit
      last == op[f].parts + 1 = Ops[f].parts
  IN  /\ thread[f][i].pc = "parsed"
      /\ op' = [op EXCEPT ![f].parts = IF last THEN 0 ELSE @ + 1]
      /\ stored' = IF last THEN [stored EXCEPT ![f] = @ \cup {u}] ELSE stored
      /\ SetThread(f, i, IF last THEN [thread[f][i] EXCEPT !.pc = "stored"] ELSE thread[f][i])
      /\ UNCHANGED <<slots, fresh>>

\* After its rows the unit's mark.  An audited unit over its deadline has failed
\* although its rows are there.
MarkUnit(f, i) ==
  LET u == thread[f][i].unit
  IN  /\ thread[f][i].pc = "stored"
      /\ Settle(f, i, IF Ops[f].auditsUnits /\ op[f].late THEN "overdue" ELSE "saved")
      /\ fresh' = IF Ops[f].marks = "no" THEN fresh ELSE [fresh EXCEPT ![f] = @ \cup {u}]
      /\ UNCHANGED <<slots, stored>>

\* The database refuses the rows or the mark.
StoreFails(f, i) ==
  /\ \/ thread[f][i].pc = "parsed" /\ Settle(f, i, "persistence")
     \/ thread[f][i].pc = "stored" /\ Ops[f].marks # "no" /\ Settle(f, i, "freshness")
  /\ UNCHANGED <<slots, database>>

\* What one transaction stores at the end: what was not answered is left out.
Kept(f) == {u \in op[f].plan : op[f].work[u] = "ok"}

Storing(f) ==
  op[f].state = "running" /\ Ops[f].stores = "end" /\ NoneLeft(f) /\ ~Stopped(f) /\ Kept(f) # {}

StoreAll(f) ==
  /\ Storing(f) /\ ~op[f].late
  /\ op' = [op EXCEPT ![f].work =
              [u \in Ops[f].units |-> IF u \in Kept(f) THEN "saved" ELSE @[u]]]
  /\ stored' = [stored EXCEPT ![f] = @ \cup Kept(f)]
  /\ UNCHANGED <<slots, thread, fresh>>

StoreAllFails(f) ==
  /\ Storing(f)
  /\ op' = [op EXCEPT ![f].work =
              [u \in Ops[f].units |-> IF u \in Kept(f) THEN "persistence" ELSE @[u]]]
  /\ UNCHANGED <<slots, thread, database>>

\* One mark for all the windows: none of them failed and one had rows.
MarkDue(f) ==
  /\ op[f].state = "running" /\ Ops[f].marks = "whole" /\ ~op[f].marked
  /\ \E u \in op[f].plan : op[f].work[u] = "saved"
  /\ \A u \in op[f].plan : op[f].work[u] \in Answered

MarkAll(f) ==
  /\ MarkDue(f)
  /\ op' = [op EXCEPT ![f].marked = TRUE]
  /\ fresh' = [fresh EXCEPT ![f] = op[f].plan]
  /\ UNCHANGED <<slots, thread, stored>>

MarkAllFails(f) ==
  /\ MarkDue(f)
  /\ op' = [op EXCEPT ![f].marked = TRUE, ![f].state = "ended", ![f].result = "error"]
  /\ UNCHANGED <<slots, thread, database>>

----------------------------------------------------------------------------
AnyFailed(f) == \E u \in op[f].plan : Failed(f, u)

\* What the fetch returns rows of.
Served(f) ==
  IF Ops[f].auditsUnits THEN {u \in Ops[f].units : op[f].work[u] \in {"saved", "left"}}
  ELSE stored[f]

Overdue(f) == ~Ops[f].auditsUnits /\ op[f].late /\ op[f].requests > 0

Result_AnyRows(f) ==
  IF Stopped(f) \/ Overdue(f) \/ Served(f) = {} THEN "error"
  ELSE IF AnyFailed(f) /\ Ops[f].auditsUnits THEN "partial" ELSE "ok"

\* The result of the task: an error raised or nothing to show; a gap; all of it.
Result(f) ==
  IF \/ Stopped(f) \/ Overdue(f) \/ Served(f) = {}
     \/ AnyFailed(f) /\ ~Ops[f].auditsUnits
  THEN "error"
  ELSE IF AnyFailed(f) THEN "partial" ELSE "ok"

\* The pool waits for its threads before the fetch ends.
End(f) ==
  /\ op[f].state = "running"
  /\ NoneLeft(f) \/ (Ops[f].threads = 1 /\ Stopped(f))
  /\ Kept(f) = {} \/ Stopped(f)
  /\ ~MarkDue(f)
  /\ op' = [op EXCEPT ![f].state = "ended", ![f].result = Result(f)]
  /\ UNCHANGED <<slots, thread, database>>

\* The process dies with its semaphores, budgets and threads.
Crash ==
  /\ \E f \in Fetches : op[f].state = "running"
  /\ free' = [h \in Hosts |-> Slots] /\ lost' = [h \in Hosts |-> 0]
  /\ thread' = [f \in Fetches |-> [i \in Threads(f) |-> Idle]]
  /\ op' = [f \in Fetches |-> IF op[f].state = "running"
                              THEN [op[f] EXCEPT !.state = "ended", !.result = "unknown"]
                              ELSE op[f]]
  /\ UNCHANGED database

ThreadStep(f, i) ==
  \/ Take(f, i) \/ Grant(f, i) \/ GiveUp(f, i) \/ CancelGranted(f, i)
  \/ Dispatch(f, i) \/ Refuse(f, i)
  \/ \E h \in Hosts : Redirect(f, i, h)
  \/ \E a \in Ops[f].answers : AskAgain(f, i, a) \/ AnswerFails(f, i, a) \/ AnswerServes(f, i, a)
  \/ AnswerLate(f, i)
  \/ StorePart(f, i) \/ MarkUnit(f, i) \/ StoreFails(f, i)

FetchStep(f) ==
  \/ Cancel(f) \/ StoreAll(f) \/ StoreAllFails(f)
  \/ MarkAll(f) \/ MarkAllFails(f) \/ End(f)

Next ==
  \/ \E f \in Fetches : \/ \E cached \in BOOLEAN : Begin(f, cached)
                        \/ Elapse(f) \/ Age(f) \/ FetchStep(f)
                        \/ \E i \in Threads(f) : ThreadStep(f, i)
  \/ Crash

(* A publisher's answer or the client's own timeout ends every request, the   *)
(* operating system runs the threads and time passes: while something can go  *)
(* on, something does.  Nothing is assumed of the order.                     *)
Progress ==
  \E f \in Fetches : \/ Elapse(f) \/ FetchStep(f)
                    \/ \E i \in Threads(f) : ThreadStep(f, i)

Spec == Init /\ [][Next]_vars /\ WF_vars(Progress)

----------------------------------------------------------------------------
Holds(f, i, h) == thread[f][i].host = h /\ thread[f][i].pc \in {"granted", "sent"}
Tasks == UNION {{<<f, i>> : i \in Threads(f)} : f \in {g \in Fetches : op[g].state # "ended"}}

(* Every slot of a host is free, with one request of a fetch that has not     *)
(* ended, or was lost to a cancelled one: redirects, retries, refusals, late  *)
(* answers and failures give it back to the host it came from, before the     *)
(* caller settles the task (provider_http: limiter.release in finally).       *)
SlotsComeBack ==
  \A h \in Hosts :
    free[h] + lost[h] + Cardinality({t \in Tasks : Holds(t[1], t[2], h)}) = Slots

\* The requests that units counted, as pairs of a unit and a number.
UnitRequests(f) == UNION {{<<u, n>> : n \in 1..op[f].counted[u]} : u \in Ops[f].units}

(* A planned unit finds its fetch's budget spent only when redirects spent    *)
(* it: retries of the units before it, with one thread or two, cannot (bcb_   *)
(* sgs: set_request_limit(len(windows) * 3); b3_di: len(to_download) * 2).    *)
PlannedServed ==
  \A f \in Fetches : \A u \in op[f].plan :
    op[f].work[u] = "exhausted" => op[f].requests > Cardinality(UnitRequests(f))

(* A task that says it is ok has an answer for every unit it planned, and its *)
(* rows in the database, whatever failed, was cancelled or came late.         *)
OkIsWhole ==
  \A f \in Fetches : op[f].result = "ok" =>
    \A u \in op[f].plan : \/ op[f].work[u] = "empty"
                          \/ op[f].work[u] = "saved" /\ u \in stored[f]

(* The fetches end, though answers are redirected, retried, late or lost and a *)
(* slot may never come back: again and again there is none that runs.         *)
FetchesEnd == []<>(\A f \in Fetches : op[f].state = "ended")

=============================================================================
