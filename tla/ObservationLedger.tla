-------------------------- MODULE ObservationLedger --------------------------
(***************************************************************************)
(* What one series of observations leaves in the database: its current     *)
(* rows, the vintages ever stored, and, of a batch with provenance, the    *)
(* receipt and the origins of its rows (src/backend/db/store.py,           *)
(* db/sidra_store.py).  A series of Banco Central (bcb_sgs) overwrites its *)
(* rows; one of IBGE (ibge_sidra) appends, and its current value is the    *)
(* one captured last.                                                      *)
(*                                                                         *)
(* A value is the number of its publication: the publisher revises a date  *)
(* upwards, so that of two batches the one captured later has no smaller   *)
(* value on any date.                                                      *)
(***************************************************************************)
EXTENDS Integers, FiniteSets, FiniteSetsExt

CONSTANTS
  Sources,     \* of the series: "bcb_sgs" or "ibge_sidra"
  Ids,         \* extraction ids
  LastDay,     \* reference dates are 1 .. LastDay
  MaxRevision  \* publications of one date

ASSUME LedgerAssumption ==
  /\ Sources \subseteq {"bcb_sgs", "ibge_sidra"}
  /\ IsFiniteSet(Ids)
  /\ LastDay \in Nat \ {0} /\ MaxRevision \in Nat \ {0}

VARIABLES
  source,     \* of the series, which does not change
  published,  \* what the publisher answers: date -> value, 0 before the first
  current,    \* sgs or query_sidra_current: date -> value, 0 for no row
  vintages,   \* date -> values ever stored
  receipts,   \* source_acquisition_commits: extraction -> route and batch
  origins     \* source_observation_origins: extraction -> {<<date, value>>}

ledger == <<current, vintages, receipts, origins>>

Dates == 1 .. LastDay
Values == 1 .. MaxRevision
Batches == [Dates -> 0 .. MaxRevision]
Routes == {"primary", "candidate"}

NoBatch == [d \in Dates |-> 0]
NoReceipt == [route |-> "none", batch |-> NoBatch]
Rows(b) == {d \in Dates : b[d] # 0}
Latest(b) == IF Rows(b) = {} THEN 0 ELSE Max(Rows(b))
Upto(b, as_of) == [d \in Dates |-> IF d <= as_of THEN b[d] ELSE 0]

\* What an endpoint answers to a request of the window that ends on a date.
Answered(as_of) == Upto(published, as_of)

\* Rows of a batch that differ from those of `rows`.
Revises(batch, rows) == \E d \in Rows(batch) : rows[d] \notin {0, batch[d]}

\* _claim_commit_receipt: a claim that meets a receipt of its extraction, which
\* is no exact replay (captured_at differs), fails the transaction.
Receiptless(id) == receipts[id] = NoReceipt

\* The rows of `changed` are written.
Stored(batch, changed) ==
  [d \in Dates |->
     IF d \notin changed THEN current[d]
     ELSE IF source = "bcb_sgs" THEN batch[d]
     ELSE Max({current[d], batch[d]})]

Appended(batch, changed) ==
  [d \in Dates |-> IF d \in changed THEN vintages[d] \cup {batch[d]} ELSE vintages[d]]

\* The legacy write, without provenance.
Upserted(batch) ==
  /\ vintages' = Appended(batch, Rows(batch)) /\ current' = Stored(batch, Rows(batch))
  /\ UNCHANGED <<receipts, origins>>

\* _persist_current_and_vintages, execute_transaction: one transaction; origins
\* cover the whole batch.
Committed(id, route, batch, changed) ==
  /\ vintages' = Appended(batch, changed) /\ current' = Stored(batch, changed)
  /\ origins' = [origins EXCEPT ![id] = {<<d, batch[d]>> : d \in Rows(batch)}]
  /\ receipts' = [receipts EXCEPT ![id] = [route |-> route, batch |-> batch]]

\* The publisher adds the next date, or revises one.
Published ==
  \E d \in Dates :
    /\ \A e \in 1 .. d - 1 : published[e] # 0
    /\ published[d] < MaxRevision
    /\ published' = [published EXCEPT ![d] = @ + 1]

InitLedger ==
  /\ source \in Sources
  /\ published = NoBatch /\ current = NoBatch
  /\ vintages = [d \in Dates |-> {}]
  /\ receipts = [i \in Ids |-> NoReceipt]
  /\ origins = [i \in Ids |-> {}]

=============================================================================
