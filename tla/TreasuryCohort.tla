--------------------------- MODULE TreasuryCohort ---------------------------
(***************************************************************************)
(* The Treasury table holds one complete cohort: the rows of one downloaded *)
(* CSV.  A refresh replaces all of it in one transaction, with a receipt    *)
(* and the freshness mark (src/backend/db/store.py, commit_treasury_cohort; *)
(* src/backend/datafetchers/tesouro_direto.py).                            *)
(*                                                                         *)
(* The transactions are those of PostgreSQL at READ COMMITTED, statement by *)
(* statement: a statement sees what was committed when it started, waits    *)
(* for rows that an open transaction deleted or inserted, and then sees     *)
(* what became of them.  SQLite's BEGIN IMMEDIATE is the case where one     *)
(* transaction runs at a time.                                             *)
(*                                                                         *)
(* The attempts of a run's Treasury item are fenced; the legacy refresh is  *)
(* not.  `holder` is the claim or lease that is live.                      *)
(***************************************************************************)
EXTENDS Integers, FiniteSets

CONSTANTS
  MaxAttempts,  \* attempts of the run's item (MAX_WORK_ITEM_ATTEMPTS)
  Legacies,     \* legacy refreshes
  MaxVersion,   \* CSV files the publisher offers, one after the other
  Keys,         \* version -> the (bond_code, base_date) keys of its rows
  First,        \* the extraction of the cohort stored at first
  NoId          \* nobody

Attempts == 1 .. MaxAttempts
Versions == 1 .. MaxVersion
Ids == Attempts \cup Legacies     \* extraction ids

ASSUME TreasuryAssumption ==
  /\ MaxAttempts \in Nat \ {0} /\ MaxVersion \in Nat \ {0}
  /\ IsFiniteSet(Legacies) /\ Legacies \cap Attempts = {}
  /\ First \notin Ids /\ NoId \notin Ids \cup {First}
  /\ DOMAIN Keys = Versions
  \* a CSV is a full history: any two have a row in common
  /\ \A v, w \in Versions : Keys[v] \cap Keys[w] # {}

VARIABLES
  published,  \* the version the publisher offers
  table,      \* committed rows <<key, extraction that inserted it>>
  commits,    \* treasury_cohort_commits: extraction -> version, 0 for none
  freshest,   \* the extraction whose capture td_last_refresh names
  holder,     \* the attempt or legacy refresh whose claim or lease is live
  claimed,    \* attempts made so far
  refresh     \* extraction -> its refresh

tables == <<table, commits, freshest>>
vars == <<published, tables, holder, claimed, refresh>>

Nothing == [pc |-> "idle", version |-> 0, seen |-> {}, deleted |-> {}, inserted |-> {}]

InTransaction == {"delete", "deleting", "insert", "commit"}
Open(i) == refresh[i].pc \in InTransaction
Others(i) == {j \in Ids \ {i} : Open(j)}
KeysOf(rows) == {r[1] : r \in rows}
Cohort(id, v) == {<<k, id>> : k \in Keys[v]}
Stored(id, v) == IF v = 0 THEN {} ELSE Cohort(id, v)

At(i, step) == refresh' = [refresh EXCEPT ![i] = [@ EXCEPT !.pc = step]]
RolledBack(i, step) == refresh' = [refresh EXCEPT ![i] = [Nothing EXCEPT !.pc = step]]

-----------------------------------------------------------------------------
(* Claims and leases *)

\* The row locks of an open fenced transaction keep the claim and the lease
\* where they are; time does not wait for them.
Replaceable == holder = NoId /\ \A g \in Attempts : ~ Open(g)

Claim ==
  /\ Replaceable /\ claimed < MaxAttempts
  /\ \A g \in Attempts : refresh[g].pc \notin {"settled"}
  /\ claimed' = claimed + 1 /\ holder' = claimed + 1
  /\ At(claimed + 1, "lookup")
  /\ UNCHANGED <<published, tables>>

LegacyStart(l) ==
  /\ Replaceable /\ refresh[l].pc = "idle"
  /\ holder' = l
  /\ At(l, "download")
  /\ UNCHANGED <<published, tables, claimed>>

Expire ==
  /\ holder # NoId
  /\ holder' = NoId
  /\ UNCHANGED <<published, tables, claimed, refresh>>

\* An attempt with a result settles its item while its claim is live, and the
\* claim ends; a failed one releases it.
Settle(i) ==
  /\ holder = i
  /\ refresh[i].pc \in {"saved", "replayed", "failed"}
  /\ holder' = NoId
  /\ At(i, IF refresh[i].pc = "failed" THEN "over" ELSE "settled")
  /\ UNCHANGED <<published, tables, claimed>>

-----------------------------------------------------------------------------
(* _refresh_treasury_data *)

\* treasury_cohort_commit_for_intent: the run's receipt, of whatever attempt.
Receipts == {g \in Attempts : commits[g] # 0}

\* active_treasury_cohort_fingerprint against the receipt: the rows themselves.
Content(rows) == {<<r[1], commits[r[2]]>> : r \in rows}
Active(g) == Content(table) = {<<k, commits[g]>> : k \in Keys[commits[g]]}

\* A retry replays the receipt of the run without a download, if the cohort it
\* names is still the stored one; otherwise it fails for an operator to look at.
Lookup(g) ==
  /\ refresh[g].pc = "lookup"
  /\ At(g, IF Receipts = {} THEN "download"
           ELSE IF Cardinality(Receipts) = 1 /\ \E h \in Receipts : Active(h)
           THEN "replayed" ELSE "failed")
  /\ UNCHANGED <<published, tables, holder, claimed>>

Download(i) ==
  /\ refresh[i].pc = "download"
  /\ \/ refresh' = [refresh EXCEPT ![i] = [@ EXCEPT !.pc = "begin", !.version = published]]
     \/ At(i, "failed")
  /\ UNCHANGED <<published, tables, holder, claimed>>

-----------------------------------------------------------------------------
(* _commit_treasury_cohort_postgres *)

\* assert_current_refresh_attempt; the legacy refresh has no claim to assert.
Fenced(i) == i \in Attempts => holder = i

\* An error of a statement, a timeout of a lock or of the deadline: everything
\* is rolled back, and without a receipt of its own the refresh failed.
Abort(i) ==
  /\ refresh[i].pc = "begin" \/ Open(i)
  /\ RolledBack(i, "unsure")
  /\ UNCHANGED <<published, tables, holder, claimed>>

Begin(i) ==
  /\ refresh[i].pc = "begin" /\ Fenced(i)
  /\ At(i, "delete")
  /\ UNCHANGED <<published, tables, holder, claimed>>

\* DELETE FROM treasury sees the rows committed when it starts.
DeleteStart(i) ==
  /\ refresh[i].pc = "delete"
  /\ refresh' = [refresh EXCEPT ![i] = [@ EXCEPT !.pc = "deleting", !.seen = table]]
  /\ UNCHANGED <<published, tables, holder, claimed>>

\* It waits for the transactions that deleted some of them, and passes over the
\* rows that are gone.
Delete(i) == refresh[i].seen \cap table

DeleteEnd(i) ==
  /\ refresh[i].pc = "deleting"
  /\ \A j \in Others(i) : refresh[j].deleted \cap refresh[i].seen = {}
  /\ refresh' = [refresh EXCEPT ![i] =
       [@ EXCEPT !.pc = "insert", !.seen = {}, !.deleted = Delete(i)]]
  /\ UNCHANGED <<published, tables, holder, claimed>>

\* The primary key (bond_code, base_date): an insert waits for open transactions
\* that inserted or deleted one of its keys, and fails if one is there.
Occupied_Upserts(i) == {}
Occupied(i) == KeysOf(table \ refresh[i].deleted) \cap Keys[refresh[i].version]

Insert(i) ==
  /\ refresh[i].pc = "insert"
  /\ \A j \in Others(i) :
       KeysOf(refresh[j].inserted \cup refresh[j].deleted) \cap Keys[refresh[i].version] = {}
  /\ Occupied(i) = {}
  /\ refresh' = [refresh EXCEPT ![i] =
       [@ EXCEPT !.pc = "commit", !.inserted = Cohort(i, refresh[i].version)]]
  /\ UNCHANGED <<published, tables, holder, claimed>>

\* Receipt and freshness mark, the fence once more, and the commit, whose reply
\* may be lost.
Fresh(i) == i

Commit(i) ==
  /\ refresh[i].pc = "commit" /\ Fenced(i)
  /\ table' = (table \ refresh[i].deleted) \cup refresh[i].inserted
  /\ commits' = [commits EXCEPT ![i] = refresh[i].version]
  /\ freshest' = Fresh(i)
  /\ \E step \in {"saved", "unsure"} : RolledBack(i, step)
  /\ UNCHANGED <<published, holder, claimed>>

\* commit_treasury_cohort: after any exception the receipt decides, read on a
\* new connection; that read may fail too.
Outcome_Optimistic(i) == "saved"
Outcome(i) == IF commits[i] # 0 THEN "saved" ELSE "failed"

Reconcile(i) ==
  /\ refresh[i].pc = "unsure"
  /\ At(i, Outcome(i)) \/ At(i, "unknown")
  /\ UNCHANGED <<published, tables, holder, claimed>>

\* The process dies; the database rolls its open transaction back.
Die(i) ==
  /\ refresh[i].pc \notin {"idle", "settled", "over", "dead"}
  /\ RolledBack(i, "dead")
  /\ UNCHANGED <<published, tables, holder, claimed>>

Publish ==
  /\ published < MaxVersion
  /\ published' = published + 1
  /\ UNCHANGED <<tables, holder, claimed, refresh>>

-----------------------------------------------------------------------------
Init ==
  /\ published = 1
  /\ \E before \in {0, 1} :   \* an empty table or a cohort
       /\ commits = [i \in Ids \cup {First} |-> IF i = First THEN before ELSE 0]
       /\ table = Stored(First, before)
  /\ freshest = First
  /\ holder = NoId /\ claimed = 0
  /\ refresh = [i \in Ids |-> Nothing]

Step(i) ==
  \/ Settle(i) \/ Download(i) \/ Abort(i) \/ Begin(i) \/ DeleteStart(i) \/ DeleteEnd(i)
  \/ Insert(i) \/ Commit(i) \/ Reconcile(i) \/ Die(i)

Next ==
  \/ Claim \/ Expire \/ Publish
  \/ \E l \in Legacies : LegacyStart(l)
  \/ \E g \in Attempts : Lookup(g)
  \/ \E i \in Ids : Step(i)

Spec == Init /\ [][Next]_vars

-----------------------------------------------------------------------------
(* Properties *)

\* Readers always find one complete cohort: the rows of the CSV the freshness
\* mark names, all of them and no others, whatever transactions raced to
\* replace it (refresh-recovery-design.md: "replacement, receipt, and freshness
\* metadata are committed atomically").
CohortWhole ==
  table = Stored(freshest, commits[freshest])

\* A run commits its Treasury intent once, over all its attempts: the lookup by
\* intent would refuse two receipts for ever (treasury_cohort_commit_for_intent).
IntentOnce == \A g, h \in Receipts : g = h

\* What a refresh reports is so: a saved one has its receipt, a failed one none,
\* and a settled attempt leaves its run with a receipt.
OutcomeTrue(i) ==
  /\ refresh[i].pc = "saved" => commits[i] # 0
  /\ refresh[i].pc \in {"failed", "over"} => commits[i] = 0
  /\ (i \in Attempts /\ refresh[i].pc \in {"settled", "replayed"}) => Receipts # {}
OutcomesTrue == \A i \in Ids : OutcomeTrue(i)

-----------------------------------------------------------------------------
(* The inductive invariant *)

AllRows == (UNION {Keys[v] : v \in Versions}) \X (Ids \cup {First})
RefreshType ==
  [pc : {"idle", "lookup", "download", "begin", "unsure", "saved", "replayed", "failed",
         "unknown", "settled", "over", "dead"} \cup InTransaction,
   version : 0 .. MaxVersion,
   seen : SUBSET AllRows, deleted : SUBSET AllRows, inserted : SUBSET AllRows]

TypeOK ==
  /\ published \in Versions
  /\ table \in SUBSET AllRows
  /\ commits \in [Ids \cup {First} -> 0 .. MaxVersion]
  /\ freshest \in Ids \cup {First}
  /\ holder \in Ids \cup {NoId} /\ claimed \in 0 .. MaxAttempts
  /\ refresh \in [Ids -> RefreshType]

\* A transaction deletes the whole table or, when another one came first,
\* nothing of it; then it can insert only if there was nothing to delete.
Uncommitted == {"idle", "lookup", "download", "begin"} \cup InTransaction
TransactionSound(i) ==
  LET x == refresh[i]
  IN /\ x.pc \in Uncommitted => commits[i] = 0
     /\ x.pc \in {"begin"} \cup InTransaction => x.version \in Versions
     /\ x.pc = "deleting" =>
          /\ x.seen = table \/ x.seen \cap table = {}
          /\ \A row \in x.seen : commits[row[2]] # 0
     /\ x.pc \in {"insert", "commit"} => x.deleted = table \/ x.deleted = {}
     /\ x.pc = "commit" => x.deleted = table /\ x.inserted = Cohort(i, x.version)
TransactionsSound == \A i \in Ids : TransactionSound(i)

\* Two transactions have not both deleted something, nor both inserted.
Deleted(i) == refresh[i].pc \in {"insert", "commit"} /\ refresh[i].deleted # {}
Inserted(i) == refresh[i].pc = "commit"
LocksHeld ==
  \A i, j \in Ids : (Deleted(i) /\ Deleted(j)) \/ (Inserted(i) /\ Inserted(j)) => i = j

UnclaimedIdle == \A g \in Attempts : g > claimed => refresh[g].pc = "idle"

\* The live claim's attempt works only while its run has no receipt.
BeforeCommit == {"download", "begin"} \cup InTransaction
IntentOpen ==
  \A g \in Attempts : holder = g /\ refresh[g].pc \in BeforeCommit => Receipts = {}

CohortInv ==
  /\ TypeOK /\ TransactionsSound /\ LocksHeld /\ UnclaimedIdle /\ IntentOpen
  /\ CohortWhole /\ OutcomesTrue /\ IntentOnce

=============================================================================
