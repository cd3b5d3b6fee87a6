---------------------------- MODULE CanaryLedger ----------------------------
(***************************************************************************)
(* Write canaries: POST /api/source-candidates/canary                      *)
(* (src/backend/routes/source_candidates.py) acquires a window of a series *)
(* from the primary and from the candidate endpoint, compares the two, and *)
(* commits the candidate's batch under a caller-chosen operation id        *)
(* (src/backend/canary_executor.py).  The refresh of the same series works *)
(* beside it (CandidateSelection).                                         *)
(*                                                                         *)
(* A caller may repeat an operation id, with the same or with another      *)
(* date; a process may die between any two steps; a commit may succeed and *)
(* its reply be lost with the connection.                                  *)
(***************************************************************************)
EXTENDS CandidateSelection

CONSTANTS
  Requests,  \* workers, each of which serves one canary request after another
  Ops        \* operation ids the callers choose from

ASSUME CanaryAssumption ==
  /\ IsFiniteSet(Requests) /\ IsFiniteSet(Ops)
  /\ Ids = Ops \cup Windows /\ Ops \cap Windows = {}

VARIABLES
  bindings,     \* source_canary_bindings: operation -> the date of its request, or 0
  extractions,  \* source_extractions: the operation ids that have a row
  request       \* the canary requests

canaries == <<bindings, extractions, request>>
vars == <<source, published, deployed, ledger, selection, canaries>>

AsOfs == Dates

-----------------------------------------------------------------------------
(* The canary request *)

Idle == [pc |-> "idle", op |-> "none", as_of |-> 0, batch |-> NoBatch, inserted |-> {}]

Working == {"start", "candidate", "compare", "prior", "persist"}
Holds(q, o) == request[q].op = o /\ request[q].pc \in Working

To(q, step) == request' = [request EXCEPT ![q] = [@ EXCEPT !.pc = step]]

\* The answer, whatever it is, and the end of the lock.  One that failed after a
\* commit reads binding and receipt, and writes nothing (execute_canary_commit).
Replies(q) == request' = [request EXCEPT ![q] = Idle]

Bound(o) == bindings[o] # 0

\* canary_operation_lock: one request per operation id, across workers.
Unlocked(o) == \A q \in Requests : ~Holds(q, o)

Enter(q) ==
  /\ request[q].pc = "idle" /\ Confirmed(deployed)
  /\ \E o \in Ops :
       /\ Unlocked(o)
       /\ request' = [request EXCEPT ![q] = [Idle EXCEPT !.pc = "start", !.op = o]]
  /\ UNCHANGED <<ledger, bindings, extractions>>

\* source_extractions has the operation id as its primary key: an id that
\* started an extraction once never starts another.
Startable(o) == o \notin extractions

\* A binding under the id is replayed, if it is of this request, and the request
\* refused if not: no endpoint is asked.  Otherwise its extraction starts, of the
\* date it asks for.
Start(q) ==
  /\ request[q].pc = "start"
  /\ LET o == request[q].op
     IN \/ /\ ~Bound(o) /\ Startable(o)
           /\ extractions' = extractions \cup {o}
           /\ \E a \in AsOfs :
                request' = [request EXCEPT ![q] = [@ EXCEPT !.pc = "candidate", !.as_of = a]]
        \/ (Bound(o) \/ ~Startable(o)) /\ Replies(q) /\ UNCHANGED extractions
  /\ UNCHANGED <<ledger, bindings>>

\* acquire_sgs_canary asks the window that ends on the date; acquire_sidra_canary
\* the latest period up to it, and the candidate for that same period.
Cohort(b) == [d \in Dates |-> IF d = Latest(b) THEN b[d] ELSE 0]
FromPrimary(q) ==
  IF source = "bcb_sgs" THEN Answered(request[q].as_of)
  ELSE Cohort(Answered(request[q].as_of))
FromCandidate(q) ==
  IF source = "bcb_sgs" THEN Answered(request[q].as_of)
  ELSE [d \in Dates |-> IF d \in Rows(request[q].batch) THEN published[d] ELSE 0]

AcquirePrimary(q) ==
  /\ request[q].pc = "candidate"
  /\ \/ request' = [request EXCEPT ![q] =
                     [@ EXCEPT !.pc = "compare", !.batch = FromPrimary(q)]]
     \/ Replies(q)
  /\ UNCHANGED <<ledger, bindings, extractions>>

\* The two must be nonempty and equal.
AcquireCandidate(q) ==
  /\ request[q].pc = "compare"
  /\ \/ /\ Rows(request[q].batch) # {} /\ FromCandidate(q) = request[q].batch
        /\ To(q, "prior")
     \/ Replies(q)
  /\ UNCHANGED <<ledger, bindings, extractions>>

\* _business_changes: rows that are new; a changed one ends the canary.
Conflicts_Ignored(batch) == FALSE
Conflicts(batch) == Revises(batch, current)
Inserted(batch) == {d \in Rows(batch) : current[d] = 0}

ReadPrior(q) ==
  /\ request[q].pc = "prior"
  /\ LET batch == request[q].batch
     IN \/ Conflicts(batch) /\ Replies(q)
        \/ /\ ~Conflicts(batch)
           /\ request' = [request EXCEPT ![q] =
                            [@ EXCEPT !.pc = "persist", !.inserted = Inserted(batch)]]
  /\ UNCHANGED <<ledger, bindings, extractions>>

\* _claim_canary_binding, before the receipt: a row of the same operation fails
\* the whole transaction.
Bindable(o) == ~Bound(o) /\ Receiptless(o)

Binds_Nothing(q) == UNCHANGED bindings
Binds(q) == bindings' = [bindings EXCEPT ![request[q].op] = request[q].as_of]

\* _persist_candidate_unit: of a bcb_sgs series only the new rows are written.
Changed(q) ==
  IF source = "bcb_sgs" THEN request[q].inserted ELSE Rows(request[q].batch)

\* The transaction may fail, or its reply be lost; the answer is then what the
\* binding says.
Persist(q) ==
  /\ request[q].pc = "persist" /\ Replies(q)
  /\ \/ /\ Bindable(request[q].op)
        /\ Committed(request[q].op, "candidate", request[q].batch, Changed(q))
        /\ Binds(q)
     \/ UNCHANGED <<ledger, bindings>>
  /\ UNCHANGED extractions

\* The worker dies; its lock goes with its session or descriptor.
Die(q) ==
  /\ request[q].pc \in Working /\ Replies(q)
  /\ UNCHANGED <<ledger, bindings, extractions>>

-----------------------------------------------------------------------------
Init ==
  /\ InitSelection
  /\ bindings = [o \in Ops |-> 0]
  /\ extractions = {}
  /\ request = [q \in Requests |-> Idle]

Canary(q) ==
  /\ \/ Enter(q) \/ Start(q) \/ AcquirePrimary(q) \/ AcquireCandidate(q)
     \/ ReadPrior(q) \/ Persist(q) \/ Die(q)
  /\ UNCHANGED <<source, published, deployed, selection>>

Publish == Published /\ UNCHANGED <<source, deployed, ledger, selection, canaries>>

Next ==
  \/ \E q \in Requests : Canary(q)
  \/ Refresh /\ UNCHANGED canaries
  \/ Publish

Spec == Init /\ [][Next]_vars

-----------------------------------------------------------------------------
(* Properties *)

\* A canary's binding, its receipt and the origins of every row of its batch are
\* there together or not at all (_persist_current_and_vintages), whatever
\* request, retry or crash left them.
AllOrNothing ==
  /\ \A o \in Ops : Bound(o) <=> ~Receiptless(o)
  /\ \A i \in Ids : origins[i] = {<<d, receipts[i].batch[d]>> : d \in Rows(receipts[i].batch)}

\* Every current value, and every value an origin attests, is among the vintages
\* of its date: the canary writes vintages for new rows only.
ValuesHaveVintages ==
  /\ \A d \in Rows(current) : current[d] \in vintages[d]
  /\ \A i \in Ids : \A p \in origins[i] : p[2] \in vintages[p[1]]

\* The attempts tell what happened (select_and_persist): a candidate was asked
\* only after its primary's failure was on record, and that failure said nothing
\* of the data and was no quota's; a candidate's attempt is a success only if the
\* window's receipt names the candidate, and a window counts as saved only with a
\* receipt of the route that did answer, whatever failed or died after the commit.
Truthful(w) ==
  LET row == attempts[w]
  IN /\ row["candidate"] # "none" => row["primary"] = "failed"
     /\ row["candidate"] = "success" => receipts[w].route = "candidate"
     /\ receipts[w].route = "candidate" => row["candidate"] # "persistence_error"
     /\ receipts[w].route = "primary" => row["primary"] = "success" /\ row["candidate"] = "none"
     /\ window[w].pc = "saved" /\ row["primary"] # "none" =>
          \E r \in Routes : receipts[w].route = r /\ row[r] = "success"
AttemptsTrue == \A w \in Windows : Truthful(w)

\* "candidate changed a previously stored reference without publication
\* ordering" is refused: the commit of a candidate changes a value only if another
\* commit put it there after the candidate's batch was compared with the rows.
CandidateKeeps ==
  [][\A w \in Windows, d \in Dates :
       /\ receipts[w] = NoReceipt /\ receipts'[w].route = "candidate"
       /\ current[d] # 0 /\ current'[d] # current[d]
       => current[d] # window[w].seen[d]]_vars

\* The candidate's breaker lets out one probe: from the time its circuit opens
\* until it closes, no two windows ask it at once, although a denied window
\* releases a lease it does not hold (release_source_access_probe).
OneCandidateProbe == \A v, w \in Windows : Probing(v) /\ Probing(w) => v = w

-----------------------------------------------------------------------------
(* The inductive invariant *)

WindowType ==
  [pc : {"idle", "primary", "claim", "asking", "check", "persist", "unsure", "stored"} \cup Over,
   route : Routes \cup {"none"}, batch : Batches, seen : Batches,
   latest : BOOLEAN, probe : BOOLEAN]
RequestType ==
  [pc : {"idle"} \cup Working, op : Ops \cup {"none"}, as_of : 0 .. LastDay,
   batch : Batches, inserted : SUBSET Dates]

TypeOK ==
  /\ source \in Sources /\ deployed \in Catalog
  /\ published \in Batches /\ current \in Batches
  /\ vintages \in [Dates -> SUBSET Values]
  /\ receipts \in [Ids -> [route : Routes \cup {"none"}, batch : Batches]]
  /\ origins \in [Ids -> SUBSET (Dates \X Values)]
  /\ breaker \in Breaker
  /\ attempts \in [Windows -> [Routes -> Statuses]]
  /\ window \in [Windows -> WindowType]
  /\ bindings \in [Ops -> 0 .. LastDay] /\ extractions \in SUBSET Ops
  /\ request \in [Requests -> RequestType]

\* A worker's request has an operation and, once it has started, a date; what it
\* read of the rows holds until it writes: the vintages only grow.
RequestSound(q) ==
  LET r == request[q]
  IN /\ r.pc # "idle" => r.op \in Ops
     /\ r.pc \in Working \ {"start"} => r.as_of \in Dates
     /\ r.pc = "persist" =>
          /\ r.inserted \subseteq Rows(r.batch)
          /\ \A d \in Rows(r.batch) \ r.inserted : r.batch[d] \in vintages[d]
RequestsSound == \A q \in Requests : RequestSound(q)

\* Where a window is, what its attempts and its receipt say.
Asked(w, primary, candidate) ==
  attempts[w]["primary"] = primary /\ attempts[w]["candidate"] = candidate
ByRoute(w) ==
  \/ window[w].route = "primary" /\ Asked(w, "success", "none")
  \/ window[w].route = "candidate" /\ Asked(w, "failed", "running")
WindowSound(w) ==
  LET x == window[w]
  IN /\ x.pc = "idle" => Receiptless(w) /\ Asked(w, "none", "none")
     /\ x.pc = "primary" => Receiptless(w) /\ Asked(w, "running", "none")
     /\ x.pc \in {"claim", "asking"} => Receiptless(w) /\ Asked(w, "failed", "running")
     /\ x.pc = "check" => Receiptless(w) /\ ByRoute(w) /\ x.route = "candidate"
     /\ x.pc = "persist" =>
          /\ Receiptless(w) /\ ByRoute(w)
          /\ x.route = "candidate" => ~Revises(x.batch, x.seen)
     /\ x.pc = "unsure" => ByRoute(w) /\ (Receiptless(w) \/ Receipted(w))
     /\ x.pc = "stored" => ByRoute(w) /\ Receipted(w)
WindowsSound == \A w \in Windows : WindowSound(w)

\* While a probe asks, the row lets nobody else out.
ProbeGuarded ==
  \A w \in Windows : Probing(w) =>
    \/ breaker.state = "half_open" /\ breaker.holder = w
    \/ breaker.state = "open" /\ breaker.waits

LedgerInv ==
  /\ TypeOK /\ RequestsSound /\ WindowsSound /\ ProbeGuarded
  /\ AllOrNothing /\ ValuesHaveVintages /\ AttemptsTrue /\ OneCandidateProbe

=============================================================================
