-------------------------- MODULE ObservationProofs --------------------------
(***************************************************************************)
(* Proofs about observations, on both sides of the store.  The Treasury    *)
(* cohort: whatever transactions of attempts and of legacy refreshes race, *)
(* the table is one cohort, for any number of them and any files of the    *)
(* publisher that have rows in common.  The calculations: what a cycle     *)
(* computes again at its cutoff is what it computed, but for the late rows *)
(* that a cutoff does not keep out; nothing is foreseen, no curve is       *)
(* repriced, no withdrawn value comes back, and a score reads one revision *)
(* of the current account.  The two specifications share no variable.      *)
(***************************************************************************)
EXTENDS TreasuryCohort, PointInTimeProperties, FiniteSetTheorems, WellFoundedInduction, TLAPS

(* The rows of one extraction's file.                                      *)
LEMMA CohortRows ==
  ASSUME NEW i \in Ids \cup {First}, NEW v \in Versions
  PROVE /\ Cohort(i, v) \in SUBSET AllRows /\ Cohort(i, v) # {}
        /\ KeysOf(Cohort(i, v)) = Keys[v]
        /\ \A row \in Cohort(i, v) : row[2] = i
<1>1. Keys[v] # {}
  BY TreasuryAssumption
<1>2. Cohort(i, v) \in SUBSET AllRows
  BY DEF Cohort, AllRows
<1>3. \A row \in Cohort(i, v) : row[1] \in Keys[v] /\ row[2] = i
  BY DEF Cohort
<1>4. ASSUME NEW k \in Keys[v] PROVE <<k, i>> \in Cohort(i, v) /\ k \in KeysOf(Cohort(i, v))
  <2>1. <<k, i>> \in Cohort(i, v) /\ <<k, i>>[1] = k
    BY DEF Cohort
  <2> QED BY <2>1 DEF KeysOf
<1>5. KeysOf(Cohort(i, v)) \subseteq Keys[v]
  BY <1>3 DEF KeysOf
<1> QED BY <1>1, <1>2, <1>3, <1>4, <1>5

(* The stored cohort: nothing, or the rows of one committed extraction.    *)
LEMMA TableRows ==
  ASSUME CohortInv
  PROVE /\ table = {} <=> commits[freshest] = 0
        /\ commits[freshest] # 0 =>
             commits[freshest] \in Versions /\ table = Cohort(freshest, commits[freshest])
        /\ \A row \in table : row[2] = freshest /\ commits[row[2]] # 0
<1>1. freshest \in Ids \cup {First} /\ commits[freshest] \in 0 .. MaxVersion
  BY DEF CohortInv, TypeOK
<1>2. table = IF commits[freshest] = 0 THEN {} ELSE Cohort(freshest, commits[freshest])
  BY DEF CohortInv, CohortWhole, Stored
<1>3. commits[freshest] # 0 => commits[freshest] \in Versions
  BY <1>1, TreasuryAssumption DEF Versions
<1> QED BY <1>1, <1>2, <1>3, CohortRows

LEMMA Facts ==
  ASSUME CohortInv, NEW i \in Ids
  PROVE /\ TypeOK /\ TransactionSound(i) /\ OutcomeTrue(i)
        /\ refresh \in [Ids -> RefreshType] /\ refresh[i] \in RefreshType
        /\ commits[i] \in 0 .. MaxVersion
BY DEF CohortInv, TypeOK, TransactionsSound, OutcomesTrue

(* A step of one refresh that writes no table and neither has deleted nor  *)
(* inserted anything.                                                      *)
LEMMA Quietly ==
  ASSUME CohortInv, NEW i \in Ids, NEW x \in RefreshType,
         refresh' = [refresh EXCEPT ![i] = x],
         x.pc \notin {"insert", "commit"},
         UNCHANGED <<published, table, commits, freshest, claimed>>,
         holder' \in Ids \cup {NoId}, holder' \in Attempts => holder' = holder,
         refresh[i].pc # "idle" \/ i \notin Attempts,
         x.pc \in BeforeCommit => refresh[i].pc \in BeforeCommit \/ i \notin Attempts \/ Receipts = {},
         TransactionSound(i)', OutcomeTrue(i)'
  PROVE CohortInv'
<1>1. /\ refresh' \in [Ids -> RefreshType] /\ refresh'[i] = x
      /\ \A j \in Ids \ {i} : refresh'[j] = refresh[j]
  BY Facts
<1>2. TypeOK'
  BY <1>1, Facts DEF TypeOK
<1>3. TransactionsSound'
  BY <1>1, Facts DEF TransactionsSound, TransactionSound
<1>4. LocksHeld'
  BY <1>1 DEF CohortInv, LocksHeld, Deleted, Inserted
<1>5. UnclaimedIdle'
  BY <1>1 DEF CohortInv, UnclaimedIdle, Ids
<1>6. IntentOpen' /\ IntentOnce'
  BY <1>1 DEF CohortInv, IntentOpen, IntentOnce, Receipts, Ids
<1>7. CohortWhole' /\ OutcomesTrue'
  BY <1>1, Facts DEF CohortInv, CohortWhole, OutcomesTrue, OutcomeTrue, Receipts
<1> QED BY <1>2, <1>3, <1>4, <1>5, <1>6, <1>7 DEF CohortInv

-----------------------------------------------------------------------------
(* Each step *)

LEMMA ClaimKeeps == ASSUME CohortInv, Claim PROVE CohortInv'
<1> DEFINE g == claimed + 1
<1>1. g \in Attempts /\ g \in Ids /\ claimed' \in 0 .. MaxAttempts /\ claimed \in Nat
  BY TreasuryAssumption DEF CohortInv, TypeOK, Claim, Attempts, Ids
<1>2. refresh[g].pc = "idle" /\ commits[g] = 0
  BY <1>1, Facts DEF CohortInv, UnclaimedIdle, TransactionSound, Uncommitted, Attempts
<1>3. /\ refresh' = [refresh EXCEPT ![g] = [@ EXCEPT !.pc = "lookup"]]
      /\ holder' = g /\ claimed' = g
      /\ UNCHANGED <<published, table, commits, freshest>>
  BY DEF Claim, At, tables
<1> HIDE DEF g
<1>4. /\ refresh' \in [Ids -> RefreshType] /\ refresh'[g].pc = "lookup"
      /\ \A j \in Ids \ {g} : refresh'[j] = refresh[j]
  BY <1>1, <1>3, Facts DEF RefreshType
<1>5. TypeOK'
  BY <1>1, <1>3, <1>4 DEF CohortInv, TypeOK
<1>6. TransactionsSound'
  BY <1>2, <1>3, <1>4, Facts DEF TransactionsSound, TransactionSound, InTransaction
<1>7. LocksHeld'
  BY <1>4 DEF CohortInv, LocksHeld, Deleted, Inserted
<1>8. UnclaimedIdle'
  BY <1>1, <1>3, <1>4 DEF CohortInv, UnclaimedIdle, Attempts, Ids, g
<1>9. IntentOpen' /\ IntentOnce'
  BY <1>3, <1>4 DEF CohortInv, IntentOpen, IntentOnce, Receipts, BeforeCommit, InTransaction
<1>10. CohortWhole' /\ OutcomesTrue'
  BY <1>3, <1>4, Facts DEF CohortInv, CohortWhole, OutcomesTrue, OutcomeTrue, Receipts
<1> QED BY <1>5, <1>6, <1>7, <1>8, <1>9, <1>10 DEF CohortInv

LEMMA LegacyStartKeeps == ASSUME CohortInv, NEW l \in Legacies, LegacyStart(l) PROVE CohortInv'
<1> DEFINE x == [refresh[l] EXCEPT !.pc = "download"]
<1>1. l \in Ids /\ l \notin Attempts
  BY TreasuryAssumption DEF Ids
<1>2. x \in RefreshType /\ x.pc = "download"
  BY <1>1, Facts DEF RefreshType
<1>3. /\ refresh' = [refresh EXCEPT ![l] = x] /\ holder' = l
      /\ UNCHANGED <<published, table, commits, freshest, claimed>>
  BY DEF LegacyStart, At, tables
<1> HIDE DEF x
<1>4. refresh'[l] = x
  BY <1>1, <1>3, Facts
<1>5. TransactionSound(l)' /\ OutcomeTrue(l)'
  BY <1>1, <1>2, <1>3, <1>4, Facts
     DEF LegacyStart, TransactionSound, OutcomeTrue, Uncommitted, InTransaction
<1> QED BY <1>1, <1>2, <1>3, <1>5, Quietly

LEMMA ExpireKeeps == ASSUME CohortInv, Expire PROVE CohortInv'
<1>1. /\ holder' = NoId
      /\ UNCHANGED <<published, table, commits, freshest, claimed, refresh>>
  BY DEF Expire, tables
<1>2. NoId \notin Attempts
  BY TreasuryAssumption DEF Ids
<1>3. IntentOpen'
  BY <1>1, <1>2 DEF IntentOpen
<1> QED BY <1>1, <1>3 DEF CohortInv, TypeOK, TransactionsSound, TransactionSound, LocksHeld, Deleted,
       Inserted, UnclaimedIdle, CohortWhole, OutcomesTrue, OutcomeTrue, IntentOnce, Receipts

LEMMA PublishKeeps == ASSUME CohortInv, Publish PROVE CohortInv'
<1>1. /\ published' \in Versions
      /\ UNCHANGED <<table, commits, freshest, holder, claimed, refresh>>
  BY TreasuryAssumption DEF Publish, tables, CohortInv, TypeOK, Versions
<1> QED BY <1>1 DEF CohortInv, TypeOK, TransactionsSound, TransactionSound, LocksHeld, Deleted,
       Inserted, UnclaimedIdle, CohortWhole, OutcomesTrue, OutcomeTrue, IntentOnce, IntentOpen,
       Receipts

(* The steps that change the refresh's place only.                         *)
LEMMA MovesKeeps ==
  ASSUME CohortInv, NEW i \in Ids, NEW step, At(i, step),
         step \in {"download", "delete", "saved", "replayed", "failed", "unknown", "settled", "over"},
         UNCHANGED <<published, tables, claimed>>, holder' \in {holder, NoId},
         refresh[i].pc # "idle",
         step = "download" => refresh[i].pc = "lookup" /\ Receipts = {},
         step = "delete" => refresh[i].pc = "begin",
         step = "saved" => commits[i] # 0,
         step \in {"failed", "over"} => commits[i] = 0,
         step \in {"settled", "replayed"} /\ i \in Attempts => Receipts # {}
  PROVE CohortInv'
<1> DEFINE x == [refresh[i] EXCEPT !.pc = step]
<1>1. x \in RefreshType /\ x.pc = step /\ x.version = refresh[i].version
  BY Facts DEF RefreshType, InTransaction
<1>2. /\ refresh' = [refresh EXCEPT ![i] = x]
      /\ UNCHANGED <<published, table, commits, freshest, claimed>>
  BY DEF At, tables
<1>3. holder' \in Ids \cup {NoId} /\ (holder' \in Attempts => holder' = holder)
  BY TreasuryAssumption DEF CohortInv, TypeOK, Ids
<1> HIDE DEF x
<1>4. refresh'[i] = x
  BY <1>2, Facts
<1>5. TransactionSound(i)'
  BY <1>1, <1>2, <1>4, Facts DEF TransactionSound, Uncommitted, InTransaction
<1>6. OutcomeTrue(i)'
  BY <1>1, <1>2, <1>4 DEF OutcomeTrue, Receipts
<1>7. x.pc \in BeforeCommit => refresh[i].pc \in BeforeCommit \/ Receipts = {}
  BY <1>1 DEF BeforeCommit, InTransaction
<1> QED BY <1>1, <1>2, <1>3, <1>5, <1>6, <1>7, Quietly

LEMMA SettleKeeps == ASSUME CohortInv, NEW i \in Ids, Settle(i) PROVE CohortInv'
<1>1. OutcomeTrue(i) /\ (i \in Attempts /\ commits[i] # 0 => Receipts # {})
  BY Facts DEF Receipts
<1> QED BY <1>1, MovesKeeps DEF Settle, OutcomeTrue

LEMMA LookupKeeps == ASSUME CohortInv, NEW g \in Attempts, Lookup(g) PROVE CohortInv'
<1>1. g \in Ids /\ commits[g] = 0
  BY Facts DEF Ids, Lookup, TransactionSound, Uncommitted
<1> QED BY <1>1, MovesKeeps DEF Lookup

LEMMA DownloadKeeps == ASSUME CohortInv, NEW i \in Ids, Download(i) PROVE CohortInv'
<1>1. commits[i] = 0
  BY Facts DEF Download, TransactionSound, Uncommitted
<1>2. CASE At(i, "failed")
  BY <1>1, <1>2, MovesKeeps DEF Download
<1>3. CASE refresh' = [refresh EXCEPT ![i] = [@ EXCEPT !.pc = "begin", !.version = published]]
  <2> DEFINE x == [refresh[i] EXCEPT !.pc = "begin", !.version = published]
  <2>1. published \in Versions /\ published \in 0 .. MaxVersion
    BY TreasuryAssumption DEF CohortInv, TypeOK, Versions
  <2>2. x \in RefreshType /\ x.pc = "begin" /\ x.version = published
    BY <2>1, Facts DEF RefreshType
  <2>3. /\ refresh' = [refresh EXCEPT ![i] = x]
        /\ UNCHANGED <<published, table, commits, freshest, claimed, holder>>
    BY <1>3 DEF Download, tables
  <2> HIDE DEF x
  <2>4. refresh'[i] = x
    BY <2>3, Facts
  <2>5. TransactionSound(i)' /\ OutcomeTrue(i)'
    BY <1>1, <2>1, <2>2, <2>3, <2>4 DEF TransactionSound, OutcomeTrue
  <2> QED BY <2>2, <2>3, <2>5, Facts, Quietly DEF Download, BeforeCommit, TypeOK
<1> QED BY <1>2, <1>3 DEF Download

(* A refresh that is rolled back holds nothing.                            *)
LEMMA RolledBackKeeps ==
  ASSUME CohortInv, NEW i \in Ids, NEW step \in {"unsure", "dead"}, RolledBack(i, step),
         UNCHANGED <<published, tables, claimed, holder>>, refresh[i].pc # "idle"
  PROVE CohortInv'
<1> DEFINE x == [Nothing EXCEPT !.pc = step]
<1>1. x \in RefreshType /\ x.pc = step
  BY TreasuryAssumption DEF RefreshType, Nothing
<1>2. /\ refresh' = [refresh EXCEPT ![i] = x]
      /\ UNCHANGED <<published, table, commits, freshest, claimed, holder>>
  BY DEF RolledBack, tables
<1> HIDE DEF x
<1>3. refresh'[i] = x
  BY <1>2, Facts
<1>4. TransactionSound(i)' /\ OutcomeTrue(i)'
  BY <1>1, <1>3 DEF TransactionSound, OutcomeTrue, Uncommitted, InTransaction
<1> QED BY <1>1, <1>2, <1>4, Facts, Quietly DEF BeforeCommit, InTransaction, TypeOK

LEMMA BeginKeeps == ASSUME CohortInv, NEW i \in Ids, Begin(i) PROVE CohortInv'
BY MovesKeeps DEF Begin

LEMMA DeleteStartKeeps == ASSUME CohortInv, NEW i \in Ids, DeleteStart(i) PROVE CohortInv'
<1> DEFINE x == [refresh[i] EXCEPT !.pc = "deleting", !.seen = table]
<1>1. x \in RefreshType /\ x.pc = "deleting" /\ x.seen = table /\ x.version = refresh[i].version
  BY Facts DEF RefreshType, TypeOK, InTransaction
<1>2. /\ refresh' = [refresh EXCEPT ![i] = x]
      /\ UNCHANGED <<published, table, commits, freshest, claimed, holder>>
  BY DEF DeleteStart, tables
<1> HIDE DEF x
<1>3. refresh'[i] = x
  BY <1>2, Facts
<1>4. TransactionSound(i)'
  BY <1>1, <1>2, <1>3, Facts, TableRows DEF DeleteStart, TransactionSound, Uncommitted, InTransaction
<1>5. OutcomeTrue(i)'
  BY <1>1, <1>3 DEF OutcomeTrue
<1> QED BY <1>1, <1>2, <1>4, <1>5, Facts, Quietly DEF DeleteStart, BeforeCommit, InTransaction, TypeOK

(* What was seen is the table or nothing of it, and what another deleted it *)
(* waits for: of two transactions one deletes nothing.                     *)
LEMMA DeleteEndKeeps == ASSUME CohortInv, NEW i \in Ids, DeleteEnd(i) PROVE CohortInv'
<1> DEFINE x == [refresh[i] EXCEPT !.pc = "insert", !.seen = {}, !.deleted = Delete(i)]
<1>1. /\ Delete(i) \in SUBSET AllRows /\ (Delete(i) = table \/ Delete(i) = {})
      /\ Delete(i) \subseteq refresh[i].seen
  BY Facts DEF Delete, TypeOK, DeleteEnd, TransactionSound
<1>2. /\ x \in RefreshType /\ x.pc = "insert" /\ x.deleted = Delete(i)
      /\ x.version = refresh[i].version
  BY <1>1, Facts DEF RefreshType, InTransaction
<1>3. /\ refresh' = [refresh EXCEPT ![i] = x]
      /\ UNCHANGED <<published, table, commits, freshest, claimed, holder>>
  BY DEF DeleteEnd, tables
<1> HIDE DEF x
<1>4. /\ refresh' \in [Ids -> RefreshType] /\ refresh'[i] = x
      /\ \A j \in Ids \ {i} : refresh'[j] = refresh[j]
  BY <1>2, <1>3, Facts
<1>5. TypeOK'
  BY <1>3, <1>4, Facts DEF TypeOK
<1>6. TransactionsSound'
  <2>1. TransactionSound(i)'
    BY <1>1, <1>2, <1>3, <1>4, Facts DEF DeleteEnd, TransactionSound, Uncommitted, InTransaction
  <2>2. ASSUME NEW j \in Ids \ {i} PROVE TransactionSound(j)'
    BY <1>3, <1>4, Facts DEF TransactionSound
  <2> QED BY <2>1, <2>2 DEF TransactionsSound
<1>7. LocksHeld'
  <2>1. ASSUME NEW j \in Ids \ {i}, Deleted(j)', Deleted(i)' PROVE FALSE
    <3>1. Deleted(j) /\ refresh[j].deleted = table
      BY <1>4, <2>1, Facts DEF Deleted, TransactionSound
    <3>2. j \in Others(i)
      BY <3>1 DEF Deleted, Others, Open, InTransaction
    <3>3. table \cap refresh[i].seen = {}
      BY <3>1, <3>2 DEF DeleteEnd
    <3>4. Delete(i) = table /\ table # {}
      BY <1>1, <1>2, <1>4, <2>1 DEF Deleted
    <3> QED BY <1>1, <3>3, <3>4
  <2>2. ~Inserted(i)'
    BY <1>2, <1>4 DEF Inserted
  <2>3. \A j \in Ids \ {i} : (Deleted(j)' <=> Deleted(j)) /\ (Inserted(j)' <=> Inserted(j))
    BY <1>4 DEF Deleted, Inserted
  <2> QED BY <2>1, <2>2, <2>3 DEF CohortInv, LocksHeld
<1>8. UnclaimedIdle'
  BY <1>3, <1>4 DEF CohortInv, UnclaimedIdle, DeleteEnd, Ids
<1>9. IntentOpen' /\ IntentOnce'
  BY <1>3, <1>4 DEF CohortInv, IntentOpen, IntentOnce, Receipts, Ids, DeleteEnd, BeforeCommit,
     InTransaction
<1>10. CohortWhole' /\ OutcomesTrue'
  BY <1>2, <1>3, <1>4, Facts DEF CohortInv, CohortWhole, OutcomesTrue, OutcomeTrue, Receipts
<1> QED BY <1>5, <1>6, <1>7, <1>8, <1>9, <1>10 DEF CohortInv

(* Who inserts has deleted the table: the stored rows and those of any other *)
(* file have a key in common.                                              *)
LEMMA InsertsAfterDelete ==
  ASSUME CohortInv, NEW i \in Ids, Insert(i)
  PROVE /\ refresh[i].deleted = table /\ refresh[i].version \in Versions
        /\ \A j \in Ids \ {i} : ~Inserted(j)
<1>1. /\ refresh[i].version \in Versions
      /\ refresh[i].deleted = table \/ refresh[i].deleted = {}
  BY Facts DEF Insert, TransactionSound, InTransaction
<1>2. ASSUME refresh[i].deleted = {}, table # {} PROVE FALSE
  <2>1. commits[freshest] \in Versions /\ table = Cohort(freshest, commits[freshest])
    BY <1>2, TableRows
  <2>2. KeysOf(table) = Keys[commits[freshest]]
    BY <2>1, CohortRows DEF CohortInv, TypeOK
  <2>3. KeysOf(table \ refresh[i].deleted) = KeysOf(table)
    BY <1>2
  <2> QED BY <1>1, <2>1, <2>2, <2>3, TreasuryAssumption DEF Insert, Occupied
<1>3. ASSUME NEW j \in Ids \ {i}, Inserted(j) PROVE FALSE
  <2>1. /\ refresh[j].inserted = Cohort(j, refresh[j].version)
        /\ refresh[j].version \in Versions /\ j \in Others(i)
    BY <1>3, Facts DEF Inserted, TransactionSound, Others, Open, InTransaction
  <2>2. Keys[refresh[j].version] \subseteq KeysOf(refresh[j].inserted \cup refresh[j].deleted)
    <3>1. KeysOf(refresh[j].inserted) = Keys[refresh[j].version]
      BY <2>1, CohortRows
    <3> QED BY <3>1 DEF KeysOf
  <2> QED BY <1>1, <2>1, <2>2, TreasuryAssumption DEF Insert
<1> QED BY <1>1, <1>2, <1>3

LEMMA InsertKeeps == ASSUME CohortInv, NEW i \in Ids, Insert(i) PROVE CohortInv'
<1> DEFINE rows == Cohort(i, refresh[i].version)
           x == [refresh[i] EXCEPT !.pc = "commit", !.inserted = rows]
<1>1. /\ refresh[i].deleted = table /\ refresh[i].version \in Versions
      /\ \A j \in Ids \ {i} : ~Inserted(j)
  BY InsertsAfterDelete
<1>2. rows \in SUBSET AllRows
  BY <1>1, CohortRows
<1>3. /\ x \in RefreshType /\ x.pc = "commit" /\ x.deleted = table
      /\ x.version = refresh[i].version /\ x.inserted = Cohort(i, x.version)
  BY <1>1, <1>2, Facts DEF RefreshType, InTransaction
<1>4. /\ refresh' = [refresh EXCEPT ![i] = x]
      /\ UNCHANGED <<published, table, commits, freshest, claimed, holder>>
  BY DEF Insert, tables
<1> HIDE DEF x
<1>5. /\ refresh' \in [Ids -> RefreshType] /\ refresh'[i] = x
      /\ \A j \in Ids \ {i} : refresh'[j] = refresh[j]
  BY <1>3, <1>4, Facts
<1>6. TypeOK'
  BY <1>4, <1>5, Facts DEF TypeOK
<1>7. TransactionsSound'
  <2>1. TransactionSound(i)'
    BY <1>1, <1>3, <1>4, <1>5, Facts DEF Insert, TransactionSound, Uncommitted, InTransaction, Cohort
  <2>2. ASSUME NEW j \in Ids \ {i} PROVE TransactionSound(j)'
    BY <1>4, <1>5, Facts DEF TransactionSound
  <2> QED BY <2>1, <2>2 DEF TransactionsSound
<1>8. LocksHeld'
  <2>1. Deleted(i)' <=> Deleted(i)
    BY <1>1, <1>3, <1>5 DEF Deleted, Insert
  <2>2. \A j \in Ids \ {i} : (Deleted(j)' <=> Deleted(j)) /\ ~Inserted(j)'
    BY <1>1, <1>5 DEF Deleted, Inserted
  <2> QED BY <2>1, <2>2 DEF CohortInv, LocksHeld
<1>9. UnclaimedIdle'
  BY <1>4, <1>5 DEF CohortInv, UnclaimedIdle, Insert, Ids
<1>10. IntentOpen' /\ IntentOnce'
  BY <1>4, <1>5 DEF CohortInv, IntentOpen, IntentOnce, Receipts, Ids, Insert, BeforeCommit,
     InTransaction
<1>11. CohortWhole' /\ OutcomesTrue'
  BY <1>3, <1>4, <1>5, Facts DEF CohortInv, CohortWhole, OutcomesTrue, OutcomeTrue, Receipts
<1> QED BY <1>6, <1>7, <1>8, <1>9, <1>10, <1>11 DEF CohortInv

LEMMA CommitKeeps == ASSUME CohortInv, NEW i \in Ids, Commit(i) PROVE CohortInv'
<1>1. /\ refresh[i].deleted = table /\ refresh[i].inserted = Cohort(i, refresh[i].version)
      /\ refresh[i].version \in Versions /\ commits[i] = 0
  BY Facts DEF Commit, TransactionSound, Uncommitted, InTransaction
<1>2. /\ commits' = [commits EXCEPT ![i] = refresh[i].version] /\ freshest' = i
      /\ table' = Cohort(i, refresh[i].version)
      /\ UNCHANGED <<published, holder, claimed>>
  BY <1>1 DEF Commit, Fresh
<1>3. PICK step \in {"saved", "unsure"} : refresh' = [refresh EXCEPT ![i] = [Nothing EXCEPT !.pc = step]]
  BY DEF Commit, RolledBack
<1>4. /\ refresh' \in [Ids -> RefreshType] /\ refresh'[i].pc = step
      /\ \A j \in Ids \ {i} : refresh'[j] = refresh[j]
  <2> DEFINE x == [Nothing EXCEPT !.pc = step]
  <2>1. x \in RefreshType /\ x.pc = step
    BY TreasuryAssumption DEF RefreshType, Nothing
  <2> HIDE DEF x
  <2> QED BY <1>3, <2>1, Facts DEF x
<1>5. /\ commits' \in [Ids \cup {First} -> 0 .. MaxVersion]
      /\ commits'[i] = refresh[i].version /\ commits'[i] # 0
      /\ \A j \in (Ids \cup {First}) \ {i} : commits'[j] = commits[j]
  BY <1>1, <1>2, TreasuryAssumption DEF CohortInv, TypeOK, Versions
<1>6. /\ table' \in SUBSET AllRows
      /\ \A row \in table' : row[2] = i
  BY <1>1, <1>2, CohortRows
<1>7. TypeOK'
  BY <1>2, <1>4, <1>5, <1>6 DEF CohortInv, TypeOK
<1>8. TransactionsSound'
  <2>1. TransactionSound(i)'
    BY <1>4 DEF TransactionSound, Uncommitted, InTransaction
  <2>2. ASSUME NEW j \in Ids \ {i} PROVE TransactionSound(j)'
    <3>1. TransactionSound(j) /\ refresh'[j] = refresh[j] /\ commits'[j] = commits[j]
      BY <1>4, <1>5, Facts
    <3>2. ~Inserted(j) /\ (Deleted(j) => table = {})
      BY <1>1 DEF CohortInv, LocksHeld, Inserted, Deleted, Commit
    <3>3. ASSUME refresh[j].pc = "deleting"
          PROVE /\ refresh[j].seen \cap table' = {}
                /\ \A row \in refresh[j].seen : commits'[row[2]] # 0
      <4>1. \A row \in refresh[j].seen : row[2] \in Ids \cup {First} /\ commits[row[2]] # 0
        BY <3>1, <3>3, Facts DEF TransactionSound, RefreshType, AllRows
      <4> QED BY <1>1, <1>5, <1>6, <4>1
    <3>4. ASSUME refresh[j].pc \in {"insert", "commit"} PROVE refresh[j].deleted = {}
      BY <3>1, <3>2, <3>4 DEF TransactionSound, Deleted
    <3> QED BY <3>1, <3>2, <3>3, <3>4 DEF TransactionSound, Inserted
  <2> QED BY <2>1, <2>2 DEF TransactionsSound
<1>9. LocksHeld'
  <2>1. ~Deleted(i)' /\ ~Inserted(i)'
    BY <1>4 DEF Deleted, Inserted
  <2>2. \A j \in Ids \ {i} : (Deleted(j)' <=> Deleted(j)) /\ (Inserted(j)' <=> Inserted(j))
    BY <1>4 DEF Deleted, Inserted
  <2> QED BY <2>1, <2>2 DEF CohortInv, LocksHeld
<1>10. UnclaimedIdle'
  BY <1>2, <1>4 DEF CohortInv, UnclaimedIdle, Commit, Ids
<1>11. IntentOpen' /\ IntentOnce'
  <2>1. CASE i \in Attempts
    <3>1. holder = i /\ Receipts = {}
      BY <2>1 DEF Commit, Fenced, CohortInv, IntentOpen, BeforeCommit, InTransaction
    <3>2. Receipts' = {i}
      BY <1>5, <2>1, <3>1 DEF Receipts, Ids
    <3> QED BY <1>2, <1>4, <3>1, <3>2 DEF IntentOpen, IntentOnce, BeforeCommit, InTransaction
  <2>2. CASE i \notin Attempts
    <3>1. Receipts' = Receipts
      BY <1>5, <2>2 DEF Receipts, Ids
    <3> QED BY <1>2, <1>4, <2>2, <3>1 DEF CohortInv, IntentOpen, IntentOnce, Ids
  <2> QED BY <2>1, <2>2
<1>12. CohortWhole'
  BY <1>2, <1>5 DEF CohortWhole, Stored
<1>13. OutcomesTrue'
  <2>1. Receipts \subseteq Receipts'
    BY <1>5 DEF Receipts, Ids
  <2>2. ASSUME NEW j \in Ids \ {i} PROVE OutcomeTrue(j)'
    BY <1>4, <1>5, <2>1, Facts DEF OutcomeTrue
  <2>3. OutcomeTrue(i)'
    BY <1>4, <1>5 DEF OutcomeTrue
  <2> QED BY <2>2, <2>3 DEF OutcomesTrue
<1> QED BY <1>7, <1>8, <1>9, <1>10, <1>11, <1>12, <1>13 DEF CohortInv

LEMMA ReconcileKeeps == ASSUME CohortInv, NEW i \in Ids, Reconcile(i) PROVE CohortInv'
BY MovesKeeps DEF Reconcile, Outcome

-----------------------------------------------------------------------------
(* The invariant holds *)

LEMMA InitHolds == Init => CohortInv
<1> SUFFICES ASSUME Init PROVE CohortInv
  OBVIOUS
<1>1. PICK before \in {0, 1} :
        /\ commits = [i \in Ids \cup {First} |-> IF i = First THEN before ELSE 0]
        /\ table = Stored(First, before)
  BY DEF Init
<1>2. 1 \in Versions /\ {0, 1} \subseteq 0 .. MaxVersion /\ First \notin Ids
  BY TreasuryAssumption DEF Versions
<1>3. /\ commits \in [Ids \cup {First} -> 0 .. MaxVersion] /\ commits[First] = before
      /\ \A i \in Ids : commits[i] = 0
  BY <1>1, <1>2
<1>4. table \in SUBSET AllRows
  BY <1>1, <1>2, CohortRows DEF Stored
<1>5. Nothing \in RefreshType /\ Nothing.pc = "idle"
  BY TreasuryAssumption DEF Nothing, RefreshType
<1>6. /\ refresh \in [Ids -> RefreshType] /\ \A i \in Ids : refresh[i].pc = "idle"
      /\ published = 1 /\ freshest = First /\ holder = NoId /\ claimed = 0
  BY <1>5 DEF Init
<1>7. TypeOK
  BY <1>2, <1>3, <1>4, <1>6, TreasuryAssumption DEF TypeOK
<1>8. TransactionsSound /\ LocksHeld /\ UnclaimedIdle /\ OutcomesTrue
  BY <1>3, <1>6 DEF TransactionsSound, TransactionSound, LocksHeld, Deleted, Inserted, UnclaimedIdle,
     OutcomesTrue, OutcomeTrue, InTransaction, Ids
<1>9. Receipts = {}
  BY <1>3 DEF Receipts, Ids
<1>10. IntentOpen /\ IntentOnce
  BY <1>9 DEF IntentOpen, IntentOnce
<1>11. CohortWhole
  BY <1>1, <1>3, <1>6 DEF CohortWhole
<1> QED BY <1>7, <1>8, <1>10, <1>11 DEF CohortInv

LEMMA NextKeeps == CohortInv /\ [Next]_vars => CohortInv'
<1> SUFFICES ASSUME CohortInv, [Next]_vars PROVE CohortInv'
  OBVIOUS
<1>1. CASE UNCHANGED vars
  BY <1>1 DEF vars, tables, CohortInv, TypeOK, TransactionsSound, TransactionSound, LocksHeld, Deleted,
     Inserted, UnclaimedIdle, CohortWhole, OutcomesTrue, OutcomeTrue, IntentOnce, IntentOpen, Receipts
<1>2. ASSUME NEW i \in Ids, Abort(i) \/ Die(i) PROVE CohortInv'
  BY <1>2, RolledBackKeeps DEF Abort, Die, Open, InTransaction
<1>3. ASSUME NEW i \in Ids, Step(i) PROVE CohortInv'
  BY <1>2, <1>3, SettleKeeps, DownloadKeeps, BeginKeeps, DeleteStartKeeps, DeleteEndKeeps, InsertKeeps,
     CommitKeeps, ReconcileKeeps DEF Step
<1> QED BY <1>1, <1>3, ClaimKeeps, ExpireKeeps, PublishKeeps, LegacyStartKeeps, LookupKeeps DEF Next

(* The inductive invariant of TreasuryCohort.                              *)
THEOREM CohortHolds == Spec => []CohortInv
BY InitHolds, NextKeeps, PTL DEF Spec

(* Readers find the rows of one CSV, all of them and no others, whatever   *)
(* transactions of attempts and legacy refreshes raced to replace them     *)
(* (_commit_treasury_cohort_postgres).                                     *)
THEOREM CohortAlwaysWhole == Spec => []CohortWhole
<1>1. CohortInv => CohortWhole
  BY DEF CohortInv
<1> QED BY <1>1, CohortHolds, PTL

(* A refresh that says saved has its receipt, one that says failed has     *)
(* none, though the reply of its commit may be lost.                       *)
THEOREM OutcomesTell == Spec => []OutcomesTrue
<1>1. CohortInv => OutcomesTrue
  BY DEF CohortInv
<1> QED BY <1>1, CohortHolds, PTL

(* Over all its attempts a run commits its Treasury intent once: its lookup *)
(* by intent never meets two receipts (treasury_cohort_commit_for_intent). *)
THEOREM IntentCommitsOnce == Spec => []IntentOnce
<1>1. CohortInv => IntentOnce
  BY DEF CohortInv
<1> QED BY <1>1, CohortHolds, PTL

----------------------------------------------------------------------------
(* What a calculation reads: a result is the same of two states of the        *)
(* ledgers in which its cutoff knows the same.                               *)

SameVintages(V, W, cutoff) == \A series : Known(W, series, cutoff) = Known(V, series, cutoff)

SameLedger(L, M, cutoff) ==
  /\ KnownPrices(M.prices, M.identities, cutoff) = KnownPrices(L.prices, L.identities, cutoff)
  /\ KnownInstruments(M.instruments, cutoff) = KnownInstruments(L.instruments, cutoff)

\* A vintage that is not available by a cutoff is not known at it.
LEMMA UnknownVintage ==
  ASSUME NEW V, NEW W, NEW cutoff, V \subseteq W,
         \A v \in W \ V : ~(AvailableAt(v) =< cutoff.at)
  PROVE  SameVintages(V, W, cutoff)
<1> SUFFICES ASSUME NEW series PROVE Known(W, series, cutoff) = Known(V, series, cutoff)
  BY DEF SameVintages
<1> QED BY DEF Known

\* The rebuilt rows read no more of the vintages than what the cutoff knows.
LEMMA SameRows ==
  ASSUME NEW V, NEW W, NEW cutoff, NEW known, NEW register, SameVintages(V, W, cutoff)
  PROVE  DiRows(W, known, register, cutoff) = DiRows(V, known, register, cutoff)
<1>1. ASSUME NEW month
      PROVE  DiMonth(W, known, register, month, cutoff) = DiMonth(V, known, register, month, cutoff)
  <2>1. FocusOf(W, month, cutoff) = FocusOf(V, month, cutoff)
    BY DEF SameVintages, FocusOf
  <2> QED BY <2>1 DEF DiMonth
<1>2. {DiMonth(W, known, register, m, cutoff) : m \in {MonthOf(p.day) : p \in known}}
      = {DiMonth(V, known, register, m, cutoff) : m \in {MonthOf(p.day) : p \in known}}
  BY <1>1
<1> QED BY <1>2 DEF DiRows

\* The case of each key.
LEMMA ResultChosen ==
  ASSUME NEW V, NEW L, NEW H, NEW cutoff
  PROVE  /\ DerivedResult(RealRate, V, L, H, cutoff)
            = Classified(RealRateResult(V, cutoff), H, cutoff,
                         RebuiltRates(V, KnownPrices(L.prices, L.identities, cutoff),
                                      KnownInstruments(L.instruments, cutoff), cutoff))
         /\ DerivedResult(Coverage, V, L, H, cutoff) = CoverageResult(V, cutoff)
         /\ DerivedResult(BalanceChange, V, L, H, cutoff) = BalanceChangeResult(V, cutoff)
         /\ DerivedResult(Spread, V, L, H, cutoff) = SpreadResult(V, cutoff)
         /\ DerivedResult(TargetDistance, V, L, H, cutoff) = TargetDistanceResult(V, cutoff)
         /\ DerivedResult(Slope, V, L, H, cutoff) = SlopeResult(V, cutoff)
BY DEF DerivedResult, RealRate, Coverage, BalanceChange, Spread, TargetDistance, Slope

\* A derived result reads, beside that, the usable snapshots of the real rate.
LEMMA SameResult ==
  ASSUME NEW key \in DerivedKeys, NEW V, NEW W, NEW L, NEW M, NEW H, NEW G, NEW cutoff,
         SameVintages(V, W, cutoff), key = RealRate => SameLedger(L, M, cutoff),
         key = RealRate => Usable(G, RealRateResult(V, cutoff).ref, cutoff)
                           = Usable(H, RealRateResult(V, cutoff).ref, cutoff)
  PROVE  DerivedResult(key, W, M, G, cutoff) = DerivedResult(key, V, L, H, cutoff)
<1>1. RealRateResult(W, cutoff) = RealRateResult(V, cutoff)
  BY DEF SameVintages, RealRateResult, Curve
<1>2. CASE key = RealRate
  <2> DEFINE known == KnownPrices(L.prices, L.identities, cutoff)
             register == KnownInstruments(L.instruments, cutoff)
  <2>1. /\ KnownPrices(M.prices, M.identities, cutoff) = known
        /\ KnownInstruments(M.instruments, cutoff) = register
    BY <1>2 DEF SameLedger
  <2>2. DiRows(W, known, register, cutoff) = DiRows(V, known, register, cutoff)
    BY SameRows
  <2>3. RebuiltRates(W, known, register, cutoff) = RebuiltRates(V, known, register, cutoff)
    BY <2>2 DEF RebuiltRates
  <2> HIDE DEF known, register
  <2>4. /\ DerivedResult(key, W, M, G, cutoff)
           = Classified(RealRateResult(W, cutoff), G, cutoff,
                        RebuiltRates(W, KnownPrices(M.prices, M.identities, cutoff),
                                     KnownInstruments(M.instruments, cutoff), cutoff))
        /\ DerivedResult(key, V, L, H, cutoff)
           = Classified(RealRateResult(V, cutoff), H, cutoff,
                        RebuiltRates(V, KnownPrices(L.prices, L.identities, cutoff),
                                     KnownInstruments(L.instruments, cutoff), cutoff))
    BY <1>2, ResultChosen
  <2>5. \A rebuilt : Classified(RealRateResult(V, cutoff), G, cutoff, rebuilt)
                     = Classified(RealRateResult(V, cutoff), H, cutoff, rebuilt)
    BY <1>2 DEF Classified
  <2> QED BY <1>1, <2>1, <2>3, <2>4, <2>5 DEF known, register
<1>3. CASE key # RealRate
  <2>1. /\ CoverageResult(W, cutoff) = CoverageResult(V, cutoff)
        /\ BalanceChangeResult(W, cutoff) = BalanceChangeResult(V, cutoff)
        /\ SpreadResult(W, cutoff) = SpreadResult(V, cutoff)
    BY DEF SameVintages, CoverageResult, BalanceChangeResult, SpreadResult
  <2>2. /\ TargetDistanceResult(W, cutoff) = TargetDistanceResult(V, cutoff)
        /\ SlopeResult(W, cutoff) = SlopeResult(V, cutoff)
    BY DEF SameVintages, TargetDistanceResult, SlopeResult, Curve
  <2> QED BY <1>3, <2>1, <2>2, ResultChosen DEF DerivedKeys
<1> QED BY <1>2, <1>3

----------------------------------------------------------------------------
(* Every stamp is of an instant that has passed, and a calculation is after   *)
(* its cutoff.                                                               *)

IsRow(v) ==
  v = [series |-> v.series, period |-> v.period, dim |-> v.dim, value |-> v.value,
       published |-> None, seen |-> v.seen, id |-> v.id]

Stamped ==
  /\ now \in Nat /\ 0 < now
  /\ feed \in Feeds /\ today \in Nat
  /\ \A v \in pending \cup vintages : IsRow(v) /\ v.seen \in Nat /\ v.seen < now
  /\ \A v \in vintages : v.id \in Nat /\ v.id < now
  /\ ledger = [prices |-> ledger.prices, identities |-> ledger.identities,
               instruments |-> ledger.instruments, values |-> ledger.values]
  /\ \A p \in ledger.prices : p.fetched \in Nat /\ p.fetched < now
  /\ \A i \in ledger.identities : i.captured \in Nat /\ i.captured < now
  /\ \A i \in ledger.instruments : i.at \in Nat /\ i.at < now
  /\ cutoffs = [c \in Cycles |-> cutoffs[c]]
  /\ \A c \in Cycles : cutoffs[c] # None => cutoffs[c].at \in Nat /\ cutoffs[c].at < now
  /\ \A s \in derived : /\ s.key \in DerivedKeys /\ s.asOf.at \in Nat
                        /\ s.created \in Nat /\ s.asOf.at < s.created /\ s.created < now
  /\ \A s \in scores : /\ s.asOf.at \in Nat
                       /\ s.calculated \in Nat /\ s.asOf.at < s.calculated /\ s.calculated < now

\* What a cycle would compute of an indicator now is what it stored.
Recomputed(s) ==
  LET r == DerivedResult(s.key, vintages, ledger, derived, s.asOf)
  IN  s.inputs = r.inputs /\ s.basis = r.basis /\ s.sample = r.sample /\ s.ref = r.ref

Stands(s) ==
  \/ LateWrite(s.asOf, s.created, now)
  \/ s.key = RealRate /\ (\/ LateSnapshot({RealRate}, s.asOf, s.created, now)
                          \/ LateIdentity(s.asOf, s.created, now))
  \/ Recomputed(s)

RetryInv == Stamped /\ RetryRepeats /\ \A s \in derived : Stands(s)

----------------------------------------------------------------------------
LEMMA RowIsRow ==
  ASSUME NEW e, NEW seen, NEW id
  PROVE  IsRow(Row(e, seen, id)) /\ Row(e, seen, id).seen = seen /\ Row(e, seen, id).id = id
BY DEF IsRow, Row

\* The committed row of a pending one.
LEMMA RowCommitted ==
  ASSUME NEW v, IsRow(v), NEW id
  PROVE  /\ IsRow([v EXCEPT !.id = id]) /\ [v EXCEPT !.id = id].seen = v.seen
         /\ [v EXCEPT !.id = id].id = id /\ AvailableAt([v EXCEPT !.id = id]) = v.seen
<1> DEFINE w == [series |-> v.series, period |-> v.period, dim |-> v.dim, value |-> v.value,
                 published |-> None, seen |-> v.seen, id |-> id]
<1>1. [v EXCEPT !.id = id] = w
  BY DEF IsRow
<1>2. IsRow(w) /\ w.seen = v.seen /\ w.id = id /\ AvailableAt(w) = v.seen
  BY DEF IsRow, AvailableAt
<1> QED BY <1>1, <1>2

LEMMA StampedInit ==
  ASSUME CycleInit PROVE Stamped
<1>1. \A v \in vintages : IsRow(v) /\ v.seen = 0 /\ v.id = 0
  BY RowIsRow DEF CycleInit
<1>2. today \in Nat
  BY FeedsAssumption DEF CycleInit
<1>3. /\ ledger.prices = {} /\ ledger.identities = {} /\ ledger.instruments = {}
      /\ ledger = [prices |-> ledger.prices, identities |-> ledger.identities,
                   instruments |-> ledger.instruments, values |-> ledger.values]
  BY DEF CycleInit
<1>4. /\ cutoffs = [c \in Cycles |-> cutoffs[c]] /\ \A c \in Cycles : cutoffs[c] = None
  BY DEF CycleInit
<1> QED BY <1>1, <1>2, <1>3, <1>4 DEF CycleInit, Stamped

\* The parts of Stamped that a step leaves alone stay true as time goes on.
LEMMA StampedSources ==
  ASSUME Stamped, Tick, UNCHANGED <<today, feed, ledger>>,
         UNCHANGED <<cutoffs, derived, scores>>,
         \A v \in pending' \cup vintages' : IsRow(v) /\ v.seen \in Nat /\ v.seen < now',
         \A v \in vintages' : v.id \in Nat /\ v.id < now'
  PROVE  Stamped'
<1>1. now' = now + 1 /\ now \in Nat /\ 0 < now
  BY DEF Stamped, Tick
<1> QED BY <1>1 DEF Stamped

LEMMA StampedFetch ==
  ASSUME Stamped, NEW e, Fetch(e)
  PROVE  Stamped'
<1>1. now' = now + 1 /\ now \in Nat /\ Tick
  BY DEF Fetch, Tick, Stamped
<1>2. pending' = pending \cup {Row(e, now, 0)} /\ vintages' = vintages
  BY DEF Fetch
<1>3. \A v \in pending' \cup vintages' : IsRow(v) /\ v.seen \in Nat /\ v.seen < now'
  BY <1>1, <1>2, RowIsRow DEF Stamped
<1>4. \A v \in vintages' : v.id \in Nat /\ v.id < now'
  BY <1>1, <1>2 DEF Stamped
<1> QED BY <1>1, <1>3, <1>4, StampedSources DEF Fetch

LEMMA StampedCommit ==
  ASSUME Stamped, NEW v \in pending, CommitVintage(v)
  PROVE  Stamped'
<1> DEFINE w == [v EXCEPT !.id = now]
<1>1. now' = now + 1 /\ now \in Nat /\ Tick
  BY DEF CommitVintage, Tick, Stamped
<1>2. pending' \subseteq pending /\ vintages' \subseteq vintages \cup {w}
  BY DEF CommitVintage, WithVintage
<1>3. IsRow(w) /\ w.seen = v.seen /\ w.id = now /\ v.seen \in Nat /\ v.seen < now
  BY RowCommitted DEF Stamped
<1> HIDE DEF w
<1>4. \A u \in pending' \cup vintages' : IsRow(u) /\ u.seen \in Nat /\ u.seen < now'
  BY <1>1, <1>2, <1>3 DEF Stamped
<1>5. \A u \in vintages' : u.id \in Nat /\ u.id < now'
  BY <1>1, <1>2, <1>3 DEF Stamped
<1> QED BY <1>1, <1>4, <1>5, StampedSources DEF CommitVintage

\* An import: one row more, stamped now if it is stamped.
LEMMA StampedAdd ==
  ASSUME Stamped, NEW field \in {"prices", "identities", "instruments"}, NEW row,
         Add(field, row),
         field = "prices" => row.fetched = now,
         field = "identities" => row.captured = now,
         field = "instruments" => row.at = now
  PROVE  Stamped'
<1>1. now' = now + 1 /\ now \in Nat
  BY DEF Add, Tick, Stamped
<1>2. ledger' = [ledger EXCEPT ![field] = @ \cup {row}]
  BY DEF Add
<1>3. /\ ledger' = [prices |-> ledger'.prices, identities |-> ledger'.identities,
                    instruments |-> ledger'.instruments, values |-> ledger'.values]
      /\ ledger'.prices = IF field = "prices" THEN ledger.prices \cup {row} ELSE ledger.prices
      /\ ledger'.identities = IF field = "identities" THEN ledger.identities \cup {row}
                              ELSE ledger.identities
      /\ ledger'.instruments = IF field = "instruments" THEN ledger.instruments \cup {row}
                               ELSE ledger.instruments
  BY <1>2 DEF Stamped
<1>4. /\ \A p \in ledger'.prices : p.fetched \in Nat /\ p.fetched < now'
      /\ \A i \in ledger'.identities : i.captured \in Nat /\ i.captured < now'
      /\ \A i \in ledger'.instruments : i.at \in Nat /\ i.at < now'
  BY <1>1, <1>3 DEF Stamped
<1>5. UNCHANGED <<today, feed, pending, vintages, cutoffs, derived, scores>>
  BY DEF Add
<1> QED BY <1>1, <1>3, <1>4, <1>5 DEF Stamped

LEMMA StampedImport ==
  ASSUME Stamped, NEW e, ImportPrice(e) \/ ImportIdentity(e) \/ ImportInstrument(e)
  PROVE  Stamped'
<1>1. CASE ImportPrice(e)
  BY <1>1, StampedAdd DEF ImportPrice
<1>2. CASE ImportIdentity(e)
  BY <1>2, StampedAdd DEF ImportIdentity
<1>3. CASE ImportInstrument(e)
  BY <1>3, StampedAdd DEF ImportInstrument, InstrumentRow
<1> QED BY <1>1, <1>2, <1>3

LEMMA StampedCutoff ==
  ASSUME Stamped, NEW c \in Cycles, TakeCutoff(c)
  PROVE  Stamped'
<1>1. now' = now + 1 /\ now \in Nat
  BY DEF TakeCutoff, Tick, Stamped
<1>2. cutoffs' = [cutoffs EXCEPT ![c] = Stamp] /\ Stamp.at = now
  BY DEF TakeCutoff, Stamp
<1>3. /\ cutoffs' = [d \in Cycles |-> cutoffs'[d]]
      /\ cutoffs'[c] = Stamp /\ \A d \in Cycles \ {c} : cutoffs'[d] = cutoffs[d]
  BY <1>2 DEF Stamped
<1>4. \A d \in Cycles : cutoffs'[d] # None => cutoffs'[d].at \in Nat /\ cutoffs'[d].at < now'
  BY <1>1, <1>2, <1>3 DEF Stamped
<1> QED BY <1>1, <1>3, <1>4 DEF TakeCutoff, Stamped

\* The records of results carry the key they are asked for.
LEMMA ResultFields ==
  ASSUME NEW key, NEW value, NEW ref, NEW reason, NEW inputs
  PROVE  /\ Result(key, value, ref, reason, inputs).key = key
         /\ Result(key, value, ref, reason, inputs).ref = ref
         /\ Unavailable(key, reason, ref, inputs).key = key
         /\ Unavailable(key, reason, ref, inputs).ref = ref
BY DEF Result, Unavailable

LEMMA RealRateIsResult ==
  ASSUME NEW focuses, NEW contracts
  PROVE  \E value, ref, reason, inputs :
           RealRateOf(focuses, contracts) = Result(RealRate, value, ref, reason, inputs)
<1> DEFINE ref == AtMost(Max({c.day : c \in contracts}), Max({v.period : v \in focuses}))
           usable == {v \in focuses : v.period =< ref}
           expected == CHOOSE v \in usable : \A u \in usable : u.period =< v.period
           days == {d \in {c.day : c \in contracts} : d =< ref}
           di == ContractFor({c \in contracts : c.day = Max(days)}, ref, OneYear)
           focus == {<<"expected_inflation", expected>>}
           inputs == focus \cup {<<"nominal_rate", di.vintage>>}
           rate == Fisher(di.rate, expected.value, Scale)
<1>1. RealRateOf(focuses, contracts) \in
        {Unavailable(RealRate, "focus_12m_missing", None, {}),
         Unavailable(RealRate, "di_curve_missing", None, {}),
         Unavailable(RealRate, "focus_12m_missing", ref, {}),
         Unavailable(RealRate, "di_curve_missing", ref, focus),
         Unavailable(RealRate, "di_contract_outside_tolerance", ref, focus),
         Result(RealRate, rate, ref, IF rate = None THEN "non_finite_result" ELSE None, inputs)}
  BY DEF RealRateOf
<1> HIDE DEF ref, usable, expected, days, di, focus, inputs, rate
<1> QED BY <1>1 DEF Unavailable

\* Ranking leaves a real rate's key and reference as they are.
LEMMA RealRateKept ==
  ASSUME NEW V, NEW L, NEW H, NEW cutoff
  PROVE  /\ DerivedResult(RealRate, V, L, H, cutoff).key = RealRate
         /\ DerivedResult(RealRate, V, L, H, cutoff).ref = RealRateResult(V, cutoff).ref
<1> DEFINE r == RealRateResult(V, cutoff)
           rebuilt == RebuiltRates(V, KnownPrices(L.prices, L.identities, cutoff),
                                   KnownInstruments(L.instruments, cutoff), cutoff)
<1>1. DerivedResult(RealRate, V, L, H, cutoff) = Classified(r, H, cutoff, rebuilt)
  BY ResultChosen
<1>2. PICK value, ref, reason, inputs : r = Result(RealRate, value, ref, reason, inputs)
  BY RealRateIsResult DEF RealRateResult
<1> HIDE DEF r, rebuilt
<1>3. \A chosen : /\ Ranked(r, chosen, cutoff).key = RealRate
                  /\ Ranked(r, chosen, cutoff).ref = r.ref
  BY <1>2 DEF Ranked, Result
<1>4. r.key = RealRate
  BY <1>2, ResultFields
<1>5. Classified(r, H, cutoff, rebuilt) = r
      \/ \E chosen : Classified(r, H, cutoff, rebuilt) = Ranked(r, chosen, cutoff)
  BY DEF Classified
<1> QED BY <1>1, <1>3, <1>4, <1>5 DEF r

LEMMA BalanceChangeKey ==
  ASSUME NEW known
  PROVE  BalanceChangeOf(known).key = BalanceChange
<1> DEFINE key(v) == <<AvailableAt(v), -v.seen, -v.value>>
           of(period) == Top({v \in known : v.period = period}, key)
           current == Max({v.period : v \in known})
           previous == current - YearMonths * MonthDays
<1>1. BalanceChangeOf(known) \in
        {Unavailable(BalanceChange, "required_input_missing", None, {}),
         Unavailable(BalanceChange, "primary_balance_previous_month_missing", current,
                     {<<"current_balance", of(current)>>}),
         Result(BalanceChange, SgsValue(of(current)) - SgsValue(of(previous)), current, None,
                {<<"current_balance", of(current)>>, <<"previous_balance", of(previous)>>})}
  BY DEF BalanceChangeOf
<1> HIDE DEF of, current, previous
<1> QED BY <1>1, ResultFields

LEMMA TargetDistanceKey ==
  ASSUME NEW focuses, NEW targets
  PROVE  TargetDistanceOf(focuses, targets) = None
         \/ TargetDistanceOf(focuses, targets).key = TargetDistance
<1> DEFINE expected == CHOOSE v \in focuses : \A u \in focuses : u.period =< v.period
           latest == LatestRules(targets)
           applicable == {v \in latest : InForce(RuleOf(v), expected.period)}
           current == CurrentRuleAt(expected.period)
           observed == \E v \in targets, r \in current : RuleOf(v).rule = TargetRules[r].rule
           target == CHOOSE v \in applicable : TRUE
<1>1. TargetDistanceOf(focuses, targets) \in
        {None, Unavailable(TargetDistance, "focus_12m_missing", None, {}),
         Unavailable(TargetDistance,
                     IF current = {} \/ observed THEN "inflation_target_missing"
                     ELSE "input_not_available",
                     expected.period, {<<"expected_inflation", expected>>}),
         Result(TargetDistance, expected.value - RuleOf(target).center, expected.period, None,
                {<<"expected_inflation", expected>>, <<"inflation_target", target>>})}
  BY DEF TargetDistanceOf
<1> HIDE DEF expected, latest, applicable, current, observed, target
<1> QED BY <1>1, ResultFields

LEMMA DerivedKey ==
  ASSUME NEW key \in DerivedKeys, NEW V, NEW L, NEW H, NEW cutoff,
         DerivedResult(key, V, L, H, cutoff) # None
  PROVE  DerivedResult(key, V, L, H, cutoff).key = key
<1>1. CASE key = RealRate
  BY <1>1, RealRateKept
<1>2. CASE key = Coverage
  <2>1. CoverageResult(V, cutoff).key = Coverage
    BY ResultFields DEF CoverageResult, CoverageOf
  <2> QED BY <1>2, <2>1, ResultChosen
<1>3. CASE key = BalanceChange
  BY <1>3, ResultChosen, BalanceChangeKey DEF BalanceChangeResult
<1>4. CASE key = Spread
  <2>1. SpreadResult(V, cutoff).key = Spread
    BY ResultFields DEF SpreadResult, SpreadOf
  <2> QED BY <1>4, <2>1, ResultChosen
<1>5. CASE key = TargetDistance
  BY <1>5, ResultChosen, TargetDistanceKey DEF TargetDistanceResult
<1>6. CASE key = Slope
  <2>1. SlopeResult(V, cutoff).key = Slope
    BY ResultFields DEF SlopeResult, SlopeOfCurve, SlopeOn, SlopeOf
  <2> QED BY <1>6, <2>1, ResultChosen
<1> QED BY <1>1, <1>2, <1>3, <1>4, <1>5, <1>6 DEF DerivedKeys

\* A computation of an indicator that is stored: what is stored, and when.
LEMMA DeriveStores ==
  ASSUME Stamped, NEW c \in Cycles, NEW key \in feed.keys, Derive(c, key)
  PROVE  \E s : /\ derived' = derived \cup {s} /\ s.key = key /\ key \in DerivedKeys
                /\ s.cycle = c /\ s.asOf = cutoffs[c] /\ s.created = now
                /\ cutoffs[c] # None /\ s.asOf.at \in Nat /\ s.asOf.at < now
                /\ \A t \in derived : SnapshotIdentity(t) # SnapshotIdentity(s)
                /\ LET r == DerivedResult(key, vintages, ledger, derived, cutoffs[c])
                   IN  /\ s.inputs = r.inputs /\ s.basis = r.basis
                       /\ s.sample = r.sample /\ s.ref = r.ref /\ s.value = r.value
<1>1. key \in DerivedKeys
  BY FeedsAssumption DEF Stamped
<1>2. PICK r : /\ r = DerivedResult(key, vintages, ledger, derived, cutoffs[c]) /\ r # None
               /\ derived' = WithSnapshot(derived, Snapshot(c, r))
  BY DEF Derive
<1>3. PICK s : s = Snapshot(c, r)
  OBVIOUS
<1>4. r.key = key
  BY <1>1, <1>2, DerivedKey
<1>5. /\ s.key = r.key /\ s.cycle = c /\ s.asOf = cutoffs[c] /\ s.created = now
      /\ s.inputs = r.inputs /\ s.basis = r.basis /\ s.sample = r.sample /\ s.ref = r.ref
      /\ s.value = r.value
  BY <1>3 DEF Snapshot
<1>6. derived' = derived \cup {s} /\ \A t \in derived : SnapshotIdentity(t) # SnapshotIdentity(s)
  BY <1>2, <1>3 DEF WithSnapshot, Derive
<1>7. cutoffs[c] # None /\ cutoffs[c].at \in Nat /\ cutoffs[c].at < now
  BY DEF Derive, Stamped
<1> QED BY <1>1, <1>2, <1>4, <1>5, <1>6, <1>7

LEMMA StampedDerive ==
  ASSUME Stamped, NEW c \in Cycles, NEW key \in feed.keys, Derive(c, key)
  PROVE  Stamped'
<1>1. PICK s : /\ derived' = derived \cup {s} /\ s.key \in DerivedKeys
               /\ s.created = now /\ s.asOf.at \in Nat /\ s.asOf.at < now
  BY DeriveStores
<1>2. now' = now + 1 /\ now \in Nat
  BY DEF Derive, Tick, Stamped
<1>3. \A t \in derived' : /\ t.key \in DerivedKeys /\ t.asOf.at \in Nat
                          /\ t.created \in Nat /\ t.asOf.at < t.created /\ t.created < now'
  BY <1>1, <1>2 DEF Stamped
<1> QED BY <1>2, <1>3 DEF Derive, Stamped

LEMMA ScoreStores ==
  ASSUME Stamped, NEW c \in Cycles, Score(c)
  PROVE  \E s : /\ scores' = scores \cup {s}
                /\ s.cycle = c /\ s.asOf = cutoffs[c] /\ s.calculated = now
                /\ cutoffs[c] # None /\ s.asOf.at \in Nat /\ s.asOf.at < now
                /\ \A t \in scores : ScoreIdentity(t) # ScoreIdentity(s)
                /\ s.components = ScoreResult(vintages, derived, ledger, cutoffs[c], c).components
<1>1. PICK r : /\ r = ScoreResult(vintages, derived, ledger, cutoffs[c], c)
               /\ scores' = WithScore(scores,
                    [score |-> r.score, class |-> r.class, dimensions |-> r.dimensions,
                     components |-> r.components, cycle |-> c, asOf |-> cutoffs[c],
                     calculated |-> now])
  BY DEF Score
<1>2. PICK s : s = [score |-> r.score, class |-> r.class, dimensions |-> r.dimensions,
                    components |-> r.components, cycle |-> c, asOf |-> cutoffs[c],
                    calculated |-> now]
  OBVIOUS
<1>3. scores' = scores \cup {s} /\ \A t \in scores : ScoreIdentity(t) # ScoreIdentity(s)
  BY <1>1, <1>2 DEF WithScore, Score
<1>4. /\ s.cycle = c /\ s.asOf = cutoffs[c] /\ s.calculated = now
      /\ s.components = r.components
  BY <1>2
<1>5. cutoffs[c] # None /\ cutoffs[c].at \in Nat /\ cutoffs[c].at < now
  BY DEF Score, Stamped
<1> QED BY <1>1, <1>3, <1>4, <1>5

LEMMA StampedScore ==
  ASSUME Stamped, NEW c \in Cycles, Score(c)
  PROVE  Stamped'
<1>1. PICK s : /\ scores' = scores \cup {s}
               /\ s.calculated = now /\ s.asOf.at \in Nat /\ s.asOf.at < now
  BY ScoreStores
<1>2. now' = now + 1 /\ now \in Nat
  BY DEF Score, Tick, Stamped
<1>3. \A t \in scores' : /\ t.asOf.at \in Nat
                         /\ t.calculated \in Nat /\ t.asOf.at < t.calculated /\ t.calculated < now'
  BY <1>1, <1>2 DEF Stamped
<1> QED BY <1>2, <1>3 DEF Score, Stamped

----------------------------------------------------------------------------
(* RetryRepeats: what a cycle stored stands, until what its cutoff knows is   *)
(* changed by one of the writes that the property names.                     *)

\* What was late stays late.
LEMMA LateForGood ==
  ASSUME Stamped, now =< now', now' \in Nat,
         vintages \subseteq vintages', derived \subseteq derived',
         ledger.prices \subseteq ledger'.prices,
         ledger.identities \subseteq ledger'.identities,
         NEW cutoff, NEW from \in Nat
  PROVE  /\ LateWrite(cutoff, from, now) => LateWrite(cutoff, from, now)'
         /\ LateSnapshot({RealRate}, cutoff, from, now) => LateSnapshot({RealRate}, cutoff, from, now)'
         /\ LateIdentity(cutoff, from, now) => LateIdentity(cutoff, from, now)'
<1>1. LateWrite(cutoff, from, now) => LateWrite(cutoff, from, now)'
  BY DEF LateWrite, Stamped
<1>2. LateSnapshot({RealRate}, cutoff, from, now) => LateSnapshot({RealRate}, cutoff, from, now)'
  BY DEF LateSnapshot, Stamped
<1>3. LateIdentity(cutoff, from, now) => LateIdentity(cutoff, from, now)'
  BY DEF LateIdentity, Stamped
<1> QED BY <1>1, <1>2, <1>3

\* A step after which the cutoff knows the same, or a late write is to blame.
Undisturbed(cutoff, from) ==
  /\ \/ LateWrite(cutoff, from, now)'
     \/ SameVintages(vintages, vintages', cutoff)
  /\ \/ LateIdentity(cutoff, from, now)'
     \/ SameLedger(ledger, ledger', cutoff)

Grows ==
  /\ now =< now' /\ now' \in Nat
  /\ vintages \subseteq vintages' /\ derived \subseteq derived'
  /\ ledger.prices \subseteq ledger'.prices /\ ledger.identities \subseteq ledger'.identities

LEMMA StaysStanding ==
  ASSUME Stamped, Grows, NEW s \in derived, Stands(s), Undisturbed(s.asOf, s.created),
         s.key = RealRate =>
           \/ LateSnapshot({RealRate}, s.asOf, s.created, now)'
           \/ \A ref : ref = RealRateResult(vintages, s.asOf).ref =>
                Usable(derived', ref, s.asOf) = Usable(derived, ref, s.asOf)
  PROVE  Stands(s)'
<1>1. s.key \in DerivedKeys /\ s.created \in Nat
  BY DEF Stamped
<1>2. CASE LateWrite(s.asOf, s.created, now) \/ LateWrite(s.asOf, s.created, now)'
  BY <1>1, <1>2, LateForGood DEF Grows, Stands
<1>3. CASE s.key = RealRate /\ (\/ LateSnapshot({RealRate}, s.asOf, s.created, now)
                                \/ LateIdentity(s.asOf, s.created, now)
                                \/ LateSnapshot({RealRate}, s.asOf, s.created, now)'
                                \/ LateIdentity(s.asOf, s.created, now)')
  BY <1>1, <1>3, LateForGood DEF Grows, Stands
<1>4. CASE /\ Recomputed(s) /\ SameVintages(vintages, vintages', s.asOf)
           /\ s.key = RealRate =>
                /\ SameLedger(ledger, ledger', s.asOf)
                /\ Usable(derived', RealRateResult(vintages, s.asOf).ref, s.asOf)
                   = Usable(derived, RealRateResult(vintages, s.asOf).ref, s.asOf)
  <2>1. DerivedResult(s.key, vintages', ledger', derived', s.asOf)
        = DerivedResult(s.key, vintages, ledger, derived, s.asOf)
    BY <1>1, <1>4, SameResult
  <2> QED BY <1>4, <2>1 DEF Stands, Recomputed
<1> QED BY <1>2, <1>3, <1>4 DEF Stands, Undisturbed

\* A commit: the vintage was stamped by the cutoff, or is not known at it.
LEMMA CommitUndisturbed ==
  ASSUME Stamped, NEW v \in pending, CommitVintage(v),
         NEW cutoff, cutoff.at \in Nat, NEW from \in Nat, from < now
  PROVE  Undisturbed(cutoff, from) /\ Grows
<1> DEFINE w == [v EXCEPT !.id = now]
<1>1. now' = now + 1 /\ now \in Nat /\ ledger' = ledger /\ derived' = derived
  BY DEF CommitVintage, Tick, Stamped
<1>2. vintages' = vintages \/ vintages' = vintages \cup {w}
  BY DEF CommitVintage, WithVintage
<1>3. w.seen = v.seen /\ w.id = now /\ AvailableAt(w) = v.seen /\ v.seen \in Nat
  BY RowCommitted DEF Stamped
<1> HIDE DEF w
<1>4. ASSUME ~(w.seen =< cutoff.at) PROVE SameVintages(vintages, vintages', cutoff)
  BY <1>2, <1>3, <1>4, UnknownVintage
<1>5. ASSUME vintages' = vintages PROVE SameVintages(vintages, vintages', cutoff)
  BY <1>5 DEF SameVintages
<1>6. ASSUME vintages' = vintages \cup {w}, w.seen =< cutoff.at
      PROVE  LateWrite(cutoff, from, now)'
  BY <1>1, <1>3, <1>6 DEF LateWrite
<1>7. SameLedger(ledger, ledger', cutoff)
  BY <1>1 DEF SameLedger
<1> QED BY <1>1, <1>2, <1>4, <1>5, <1>6, <1>7 DEF Undisturbed, Grows

\* An import adds a row that the cutoff does not know, or an identity.
LEMMA ImportUndisturbed ==
  ASSUME Stamped, NEW e, ImportPrice(e) \/ ImportIdentity(e) \/ ImportInstrument(e),
         NEW cutoff, cutoff.at \in Nat, cutoff.at < now, NEW from \in Nat, from < now
  PROVE  Undisturbed(cutoff, from) /\ Grows
<1>1. /\ now' = now + 1 /\ now \in Nat /\ vintages' = vintages /\ derived' = derived
  BY DEF ImportPrice, ImportIdentity, ImportInstrument, Add, Tick, Stamped
<1>2. SameVintages(vintages, vintages', cutoff)
  BY <1>1 DEF SameVintages
<1>3. CASE ImportPrice(e)
  <2>1. PICK p : /\ p.fetched = now
                 /\ ledger' = [ledger EXCEPT !.prices = @ \cup {p}]
    BY <1>3 DEF ImportPrice, Add
  <2>2. /\ ledger'.prices = ledger.prices \cup {p} /\ ledger'.identities = ledger.identities
        /\ ledger'.instruments = ledger.instruments
    BY <2>1 DEF Stamped
  <2>3. {q \in ledger'.prices : q.fetched =< cutoff.at /\ q.day =< cutoff.day}
        = {q \in ledger.prices : q.fetched =< cutoff.at /\ q.day =< cutoff.day}
    BY <1>1, <2>1, <2>2
  <2>4. SameLedger(ledger, ledger', cutoff)
    BY <2>2, <2>3 DEF SameLedger, KnownPrices
  <2> QED BY <1>1, <1>2, <2>2, <2>4 DEF Undisturbed, Grows
<1>4. CASE ImportIdentity(e)
  <2>1. PICK i : /\ i.captured = now
                 /\ ledger' = [ledger EXCEPT !.identities = @ \cup {i}]
    BY <1>4 DEF ImportIdentity, Add
  <2>2. /\ ledger'.prices = ledger.prices /\ ledger'.identities = ledger.identities \cup {i}
        /\ ledger'.instruments = ledger.instruments
    BY <2>1 DEF Stamped
  <2>3. ASSUME ~LateIdentity(cutoff, from, now)' PROVE SameLedger(ledger, ledger', cutoff)
    <3>1. ASSUME NEW p \in ledger.prices, p.fetched =< cutoff.at
          PROVE  Identified(p, ledger'.identities) = Identified(p, ledger.identities)
      <4>1. ~SameFile(i, p)
        BY <1>1, <2>1, <2>2, <2>3, <3>1 DEF LateIdentity
      <4>2. {j \in ledger'.identities : SameFile(j, p)} = {j \in ledger.identities : SameFile(j, p)}
        BY <2>2, <4>1
      <4> QED BY <4>2 DEF Identified
    <3>2. KnownPrices(ledger'.prices, ledger'.identities, cutoff)
          = KnownPrices(ledger.prices, ledger.identities, cutoff)
      BY <2>2, <3>1 DEF KnownPrices
    <3> QED BY <2>2, <3>2 DEF SameLedger
  <2> QED BY <1>1, <1>2, <2>2, <2>3 DEF Undisturbed, Grows
<1>5. CASE ImportInstrument(e)
  <2>1. PICK i : /\ i.at = now
                 /\ ledger' = [ledger EXCEPT !.instruments = @ \cup {i}]
    BY <1>5 DEF ImportInstrument, Add, InstrumentRow
  <2>2. /\ ledger'.prices = ledger.prices /\ ledger'.identities = ledger.identities
        /\ ledger'.instruments = ledger.instruments \cup {i}
    BY <2>1 DEF Stamped
  <2>3. KnownInstruments(ledger'.instruments, cutoff) = KnownInstruments(ledger.instruments, cutoff)
    BY <1>1, <2>1, <2>2 DEF KnownInstruments
  <2>4. SameLedger(ledger, ledger', cutoff)
    BY <2>2, <2>3 DEF SameLedger
  <2> QED BY <1>1, <1>2, <2>2, <2>4 DEF Undisturbed, Grows
<1> QED BY <1>3, <1>4, <1>5

\* Every other step leaves the sources as they are.
LEMMA SourcesUndisturbed ==
  ASSUME Stamped, vintages' = vintages, ledger' = ledger, now =< now', now' \in Nat,
         derived \subseteq derived', NEW cutoff, NEW from
  PROVE  Undisturbed(cutoff, from) /\ Grows
BY DEF Undisturbed, Grows, SameVintages, SameLedger

\* What RetryRepeats says of two snapshots.
Repeats(s, t) ==
  s.key = t.key /\ s.asOf = t.asOf /\ s.created < t.created =>
    \/ LateWrite(s.asOf, s.created, t.created)
    \/ /\ s.key = RealRate
       /\ \/ LateSnapshot({RealRate}, s.asOf, s.created, t.created - 1)
          \/ LateIdentity(s.asOf, s.created, t.created)

LEMMA RepeatsForGood ==
  ASSUME Grows, NEW s, NEW t, Repeats(s, t)
  PROVE  Repeats(s, t)'
<1>1. LateWrite(s.asOf, s.created, t.created) => LateWrite(s.asOf, s.created, t.created)'
  BY DEF Grows, LateWrite
<1>2. LateSnapshot({RealRate}, s.asOf, s.created, t.created - 1)
      => LateSnapshot({RealRate}, s.asOf, s.created, t.created - 1)'
  BY DEF Grows, LateSnapshot
<1>3. LateIdentity(s.asOf, s.created, t.created) => LateIdentity(s.asOf, s.created, t.created)'
  BY DEF Grows, LateIdentity
<1> QED BY <1>1, <1>2, <1>3 DEF Repeats

LEMMA RetryInit ==
  ASSUME CycleInit PROVE RetryInv
BY StampedInit DEF CycleInit, RetryInv, RetryRepeats

\* A step of the sources or of the clock, of a score or of a cutoff.
LEMMA RetryQuiet ==
  ASSUME RetryInv, Stamped', derived' = derived, Grows,
         \A s \in derived : Undisturbed(s.asOf, s.created)
  PROVE  RetryInv'
<1>1. ASSUME NEW s \in derived PROVE Stands(s)'
  <2>1. Stamped /\ Stands(s) /\ Undisturbed(s.asOf, s.created)
    BY DEF RetryInv
  <2> QED BY <2>1, StaysStanding
<1>2. ASSUME NEW s \in derived, NEW t \in derived PROVE Repeats(s, t)'
  <2>1. Repeats(s, t)
    BY DEF RetryInv, RetryRepeats, Repeats
  <2> QED BY <2>1, RepeatsForGood
<1> QED BY <1>1, <1>2 DEF RetryInv, RetryRepeats, Repeats

LEMMA RetryDerive ==
  ASSUME RetryInv, NEW c \in Cycles, NEW key \in feed.keys, Derive(c, key)
  PROVE  RetryInv'
<1>1. Stamped /\ Stamped'
  BY StampedDerive DEF RetryInv
<1>2. PICK n : /\ derived' = derived \cup {n} /\ n.key = key /\ key \in DerivedKeys
               /\ n.asOf = cutoffs[c] /\ n.created = now
               /\ n.asOf.at \in Nat /\ n.asOf.at < now
               /\ \A t \in derived : SnapshotIdentity(t) # SnapshotIdentity(n)
               /\ LET r == DerivedResult(key, vintages, ledger, derived, cutoffs[c])
                  IN  /\ n.inputs = r.inputs /\ n.basis = r.basis
                      /\ n.sample = r.sample /\ n.ref = r.ref
  BY <1>1, DeriveStores
<1>3. /\ now' = now + 1 /\ now \in Nat /\ vintages' = vintages /\ ledger' = ledger
  BY <1>1 DEF Derive, Tick, Stamped
<1>4. \A cutoff, from : Undisturbed(cutoff, from) /\ Grows
  <2>1. now =< now' /\ now' \in Nat /\ derived \subseteq derived'
    BY <1>2, <1>3
  <2> QED BY <1>1, <1>3, <2>1, SourcesUndisturbed
<1>5. ASSUME NEW s \in derived PROVE Stands(s)'
  <2>1. Stands(s) /\ s.created \in Nat /\ s.created < now /\ s.asOf.at \in Nat
    BY <1>1 DEF RetryInv, Stamped
  <2>2. CASE n.key = RealRate /\ n.asOf.at =< s.asOf.at
    <3>1. LateSnapshot({RealRate}, s.asOf, s.created, now)'
      BY <1>2, <1>3, <2>1, <2>2 DEF LateSnapshot
    <3> QED BY <1>1, <1>4, <2>1, <3>1, StaysStanding
  <2>3. CASE ~(n.key = RealRate /\ n.asOf.at =< s.asOf.at)
    <3>1. \A ref : Usable(derived', ref, s.asOf) = Usable(derived, ref, s.asOf)
      BY <1>2, <2>3 DEF Usable
    <3> QED BY <1>1, <1>4, <2>1, <3>1, StaysStanding
  <2> QED BY <2>2, <2>3
<1>6. Stands(n)'
  <2>1. ASSUME n.key = RealRate
        PROVE  Usable(derived', RealRateResult(vintages, n.asOf).ref, n.asOf)
               = Usable(derived, RealRateResult(vintages, n.asOf).ref, n.asOf)
    <3>1. n.ref = RealRateResult(vintages, n.asOf).ref
      BY <1>2, <2>1, RealRateKept
    <3> QED BY <1>2, <3>1 DEF Usable
  <2>2. SameVintages(vintages, vintages', n.asOf) /\ SameLedger(ledger, ledger', n.asOf)
    BY <1>3 DEF SameVintages, SameLedger
  <2>3. DerivedResult(n.key, vintages', ledger', derived', n.asOf)
        = DerivedResult(n.key, vintages, ledger, derived, n.asOf)
    BY <1>2, <2>1, <2>2, SameResult
  <2>4. Recomputed(n)'
    BY <1>2, <2>3 DEF Recomputed
  <2> QED BY <2>4 DEF Stands
<1>7. ASSUME NEW s \in derived', NEW t \in derived' PROVE Repeats(s, t)'
  <2>1. CASE s \in derived /\ t \in derived
    <3>1. Repeats(s, t)
      BY <2>1 DEF RetryInv, RetryRepeats, Repeats
    <3> QED BY <1>4, <3>1, RepeatsForGood
  <2>2. CASE s \in derived /\ t = n
    <3> SUFFICES ASSUME s.key = n.key, s.asOf = n.asOf PROVE Repeats(s, n)
      BY <1>4, <2>2, RepeatsForGood DEF Repeats
    <3>1. Stands(s) /\ s.created \in Nat /\ s.created < now
      BY <1>1, <2>2 DEF RetryInv, Stamped
    <3>2. ~Recomputed(s)
      <4>1. SnapshotIdentity(s) # SnapshotIdentity(n)
        BY <1>2, <2>2
      <4> QED BY <1>2, <4>1 DEF Recomputed, SnapshotIdentity
    <3>3. LateSnapshot({RealRate}, s.asOf, s.created, now)
          => LateSnapshot({RealRate}, s.asOf, s.created, now - 1)
      BY <1>1 DEF LateSnapshot, Stamped
    <3> QED BY <1>2, <3>1, <3>2, <3>3 DEF Stands, Repeats
  <2>3. CASE s = n
    <3>1. ~(s.created < t.created)
      BY <1>1, <1>2, <2>3 DEF Stamped
    <3> QED BY <3>1 DEF Repeats
  <2> QED BY <1>2, <2>1, <2>2, <2>3
<1> QED BY <1>1, <1>2, <1>5, <1>6, <1>7 DEF RetryInv, RetryRepeats, Repeats

LEMMA StampedNext ==
  ASSUME Stamped, [CycleNext]_cycleVars
  PROVE  Stamped'
<1>1. CASE UNCHANGED cycleVars
  BY <1>1 DEF cycleVars, Stamped
<1>2. CASE NewDay
  <2>1. today' \in Nat
    BY <1>2 DEF NewDay, Stamped
  <2> QED BY <1>2, <2>1 DEF NewDay, Stamped
<1>3. ASSUME NEW e \in feed.observations, Fetch(e) PROVE Stamped'
  BY <1>3, StampedFetch
<1>4. ASSUME NEW v \in pending, CommitVintage(v) PROVE Stamped'
  BY <1>4, StampedCommit
<1>5. ASSUME NEW v \in pending, Lose(v) PROVE Stamped'
  BY <1>5 DEF Lose, Stamped
<1>6. ASSUME NEW e, ImportPrice(e) \/ ImportIdentity(e) \/ ImportInstrument(e) PROVE Stamped'
  BY <1>6, StampedImport
<1>7. ASSUME NEW c \in Cycles, TakeCutoff(c) PROVE Stamped'
  BY <1>7, StampedCutoff
<1>8. ASSUME NEW c \in Cycles, Score(c) PROVE Stamped'
  BY <1>8, StampedScore
<1>9. ASSUME NEW c \in Cycles, NEW key \in feed.keys, Derive(c, key) PROVE Stamped'
  BY <1>9, StampedDerive
<1> QED BY <1>1, <1>2, <1>3, <1>4, <1>5, <1>6, <1>7, <1>8, <1>9 DEF CycleNext

LEMMA RetryNext ==
  ASSUME RetryInv, [CycleNext]_cycleVars
  PROVE  RetryInv'
<1>1. Stamped /\ Stamped'
  BY StampedNext DEF RetryInv
<1>2. \A s \in derived : /\ s.asOf.at \in Nat /\ s.asOf.at < now
                         /\ s.created \in Nat /\ s.created < now
  BY <1>1 DEF Stamped
<1>3. ASSUME vintages' = vintages, ledger' = ledger, derived' = derived, now =< now'
      PROVE  RetryInv'
  <2>1. now' \in Nat
    BY <1>1 DEF Stamped
  <2>2. Grows /\ \A s \in derived : Undisturbed(s.asOf, s.created)
    BY <1>1, <1>3, <2>1, SourcesUndisturbed DEF Grows
  <2> QED BY <1>1, <1>3, <2>2, RetryQuiet
<1>4. now \in Nat
  BY <1>1 DEF Stamped
<1>5. CASE UNCHANGED cycleVars
  BY <1>3, <1>4, <1>5 DEF cycleVars
<1>6. CASE NewDay
  BY <1>3, <1>4, <1>6 DEF NewDay
<1>7. ASSUME NEW e \in feed.observations, Fetch(e) PROVE RetryInv'
  BY <1>3, <1>4, <1>7 DEF Fetch, Tick
<1>8. ASSUME NEW v \in pending, CommitVintage(v) PROVE RetryInv'
  <2>1. derived' = derived
    BY <1>8 DEF CommitVintage
  <2>2. Grows
    BY <1>4, <1>8 DEF Grows, CommitVintage, WithVintage, Tick
  <2>3. \A s \in derived : Undisturbed(s.asOf, s.created)
    BY <1>1, <1>2, <1>8, CommitUndisturbed
  <2> QED BY <1>1, <2>1, <2>2, <2>3, RetryQuiet
<1>9. ASSUME NEW v \in pending, Lose(v) PROVE RetryInv'
  BY <1>3, <1>4, <1>9 DEF Lose
<1>10. ASSUME NEW e, ImportPrice(e) \/ ImportIdentity(e) \/ ImportInstrument(e) PROVE RetryInv'
  <2>1. derived' = derived
    BY <1>10 DEF ImportPrice, ImportIdentity, ImportInstrument, Add
  <2>2. Grows
    <3>1. [at |-> 0].at \in Nat /\ [at |-> 0].at < now /\ 0 < now
      BY <1>1 DEF Stamped
    <3> QED BY <1>1, <1>10, <3>1, ImportUndisturbed
  <2>3. \A s \in derived : Undisturbed(s.asOf, s.created)
    BY <1>1, <1>2, <1>10, ImportUndisturbed
  <2> QED BY <1>1, <2>1, <2>2, <2>3, RetryQuiet
<1>11. ASSUME NEW c \in Cycles, TakeCutoff(c) PROVE RetryInv'
  BY <1>3, <1>4, <1>11 DEF TakeCutoff, Tick
<1>12. ASSUME NEW c \in Cycles, Score(c) PROVE RetryInv'
  BY <1>3, <1>4, <1>12 DEF Score, Tick
<1>13. ASSUME NEW c \in Cycles, NEW key \in feed.keys, Derive(c, key) PROVE RetryInv'
  BY <1>13, RetryDerive
<1> QED BY <1>5, <1>6, <1>7, <1>8, <1>9, <1>10, <1>11, <1>12, <1>13 DEF CycleNext

(* Every stamp is of an instant that has passed, and every calculation is     *)
(* after its cutoff.                                                         *)
THEOREM StampsHold == CycleSpec => []Stamped
<1>1. CycleInit => Stamped
  BY StampedInit
<1>2. Stamped /\ [CycleNext]_cycleVars => Stamped'
  BY StampedNext
<1> QED BY <1>1, <1>2, PTL DEF CycleSpec

(* A cycle that computes an indicator again finds what it found, but for the  *)
(* late writes, snapshots and identities that RetryRepeats names: nothing     *)
(* else of the ledgers enters the calculation of a cutoff.                   *)
THEOREM RetriesRepeat == CycleSpec => []RetryRepeats
<1>1. CycleInit => RetryInv
  BY RetryInit
<1>2. RetryInv /\ [CycleNext]_cycleVars => RetryInv'
  BY RetryNext
<1>3. RetryInv => RetryRepeats
  BY DEF RetryInv
<1> QED BY <1>1, <1>2, <1>3, PTL DEF CycleSpec

----------------------------------------------------------------------------
(* The score.  It reads the sources as a derived result does, and the whole   *)
(* register of instruments, which grows: what it finds there of a contract    *)
(* that the cutoff knew is what the cutoff knew, because a choice among       *)
(* finitely many rows is one of them.                                        *)

\* A finite set has a member that no other precedes.
LEMMA LeastOf ==
  ASSUME NEW S, IsFiniteSet(S), S # {}, NEW R,
         \A x \in S : <<x, x>> \notin R,
         \A x, y, z \in S : <<x, y>> \in R /\ <<y, z>> \in R => <<x, z>> \in R
  PROVE  \E x \in S : \A y \in S : <<y, x>> \notin R
<1> DEFINE Down(x) == {y \in S : <<y, x>> \in R}
           F == {Down(x) : x \in S}
<1>1. \A x \in S : Down(x) \in SUBSET S
  OBVIOUS
<1>2. \A A \in F : \E x \in S : A = Down(x)
  OBVIOUS
<1>3. \A x \in S : Down(x) \in F
  OBVIOUS
<1> HIDE DEF F
<1>4. F \in SUBSET (SUBSET S) /\ F # {}
  <2> HIDE DEF Down
  <2> QED BY <1>1, <1>2, <1>3
<1>5. IsWellFoundedOn(StrictSubsetOrdering(S), SUBSET S)
  BY FS_StrictSubsetOrderingWellFounded, FS_FiniteSubsetsOfFinite
<1>6. PICK A \in F : \A B \in F : <<B, A>> \notin StrictSubsetOrdering(S)
  BY <1>4, <1>5, WFMin, Zenon
<1>7. PICK x \in S : A = Down(x)
  BY <1>2
<1>8. ASSUME NEW y \in S, <<y, x>> \in R PROVE FALSE
  <2>1. Down(y) \subseteq Down(x) /\ y \in Down(x) /\ y \notin Down(y)
    BY <1>8
  <2>2. Down(y) \in F
    BY <1>3
  <2> HIDE DEF Down
  <2> QED BY <1>4, <1>6, <1>7, <2>1, <2>2 DEF StrictSubsetOrdering
<1> QED BY <1>8

\* Pairs of integers are in order.
LEMMA PairsInOrder ==
  ASSUME NEW a \in Int, NEW b \in Int, NEW c \in Int, NEW d \in Int
  PROVE  Before(<<a, b>>, <<c, d>>) <=> a < c \/ (a = c /\ b < d)
<1>1. DOMAIN <<a, b>> = 1..2
  OBVIOUS
<1>2. Before(<<a, b>>, <<c, d>>) <=>
        \E i \in 1..2 : /\ <<a, b>>[i] < <<c, d>>[i]
                        /\ \A j \in 1..(i - 1) : <<a, b>>[j] = <<c, d>>[j]
  BY <1>1 DEF Before
<1>3. \A j : j \in 1..(1 - 1) <=> FALSE
  OBVIOUS
<1>4. \A j : j \in 1..(2 - 1) <=> j = 1
  OBVIOUS
<1>5. <<a, b>>[1] = a /\ <<a, b>>[2] = b /\ <<c, d>>[1] = c /\ <<c, d>>[2] = d
  OBVIOUS
<1>6. \A i : i \in 1..2 <=> i = 1 \/ i = 2
  OBVIOUS
<1> QED BY <1>2, <1>3, <1>4, <1>5, <1>6

\* The least pair of a finite set is one of its pairs.
LEMMA LeastPair ==
  ASSUME NEW S, IsFiniteSet(S), S # {}, NEW f, NEW g,
         \A x \in S : f[x] \in Int /\ g[x] \in Int
  PROVE  \E x \in S : \A y \in S : ~Before(<<f[y], g[y]>>, <<f[x], g[x]>>)
<1> DEFINE R == {p \in S \X S : f[p[1]] < f[p[2]] \/ (f[p[1]] = f[p[2]] /\ g[p[1]] < g[p[2]])}
<1>1. \A x, y \in S : <<x, y>> \in R <=> f[x] < f[y] \/ (f[x] = f[y] /\ g[x] < g[y])
  OBVIOUS
<1> HIDE DEF R
<1>2. \A x \in S : <<x, x>> \notin R
  BY <1>1
<1>3. \A x, y, z \in S : <<x, y>> \in R /\ <<y, z>> \in R => <<x, z>> \in R
  BY <1>1
<1>4. PICK x \in S : \A y \in S : <<y, x>> \notin R
  BY <1>2, <1>3, LeastOf
<1>5. \A y \in S : ~Before(<<f[y], g[y]>>, <<f[x], g[x]>>)
  BY <1>1, <1>4, PairsInOrder
<1> QED BY <1>5

LEMMA MaxChosen ==
  ASSUME NEW S \in SUBSET Int, IsFiniteSet(S), S # {}
  PROVE  Max(S) \in S /\ \A x \in S : x =< Max(S)
<1> DEFINE R == {p \in S \X S : p[2] < p[1]}
<1>1. \A x, y \in S : <<x, y>> \in R <=> y < x
  OBVIOUS
<1> HIDE DEF R
<1>2. \A x \in S : <<x, x>> \notin R
  BY <1>1
<1>3. \A x, y, z \in S : <<x, y>> \in R /\ <<y, z>> \in R => <<x, z>> \in R
  BY <1>1
<1>4. PICK x \in S : \A y \in S : <<y, x>> \notin R
  BY <1>2, <1>3, LeastOf
<1>5. \A y \in S : ~(x < y)
  BY <1>1, <1>4
<1>6. \A y \in S : x >= y
  BY <1>5
<1>7. Max(S) \in S /\ \A y \in S : Max(S) >= y
  BY <1>6 DEF Max
<1> QED BY <1>7

\* The nearest contract is one of the contracts.
LEMMA ContractForChosen ==
  ASSUME NEW contracts, IsFiniteSet(contracts), \A c \in contracts : c.maturity \in Int,
         NEW reference \in Int, NEW horizon \in Int
  PROVE  ContractFor(contracts, reference, horizon) \in contracts \cup {None}
<1> DEFINE target == reference + horizon
           candidates == {c \in contracts : Abs(c.maturity - target) =< Tolerance}
           f == [c \in candidates |-> Abs(c.maturity - target)]
           g == [c \in candidates |-> c.maturity]
<1>1. IsFiniteSet(candidates) /\ candidates \subseteq contracts
  BY FS_Subset
<1>2. \A c \in candidates : /\ f[c] = Abs(c.maturity - target) /\ g[c] = c.maturity
                            /\ f[c] \in Int /\ g[c] \in Int
  BY DEF Abs
<1> HIDE DEF f, g
<1>3. ASSUME candidates # {}
      PROVE  \E c \in candidates : \A d \in candidates :
               ~Before(<<Abs(d.maturity - target), d.maturity>>,
                       <<Abs(c.maturity - target), c.maturity>>)
  <2> HIDE DEF candidates
  <2>1. PICK c \in candidates : \A d \in candidates : ~Before(<<f[d], g[d]>>, <<f[c], g[c]>>)
    BY <1>1, <1>2, <1>3, LeastPair
  <2> QED BY <1>2, <2>1
<1>4. CASE candidates = {}
  BY <1>4 DEF ContractFor
<1>5. CASE candidates # {}
  <2>1. ContractFor(contracts, reference, horizon)
        = CHOOSE c \in candidates : \A d \in candidates :
            ~Before(<<Abs(d.maturity - target), d.maturity>>,
                    <<Abs(c.maturity - target), c.maturity>>)
    BY <1>5 DEF ContractFor
  <2> HIDE DEF candidates
  <2> QED BY <1>1, <1>3, <1>5, <2>1
<1> QED BY <1>4, <1>5

IsRegister(register) ==
  IsFiniteSet(register) /\ \A i \in register : {i.report, i.maturity, i.hash} \subseteq Int

\* A contract stands on an instrument of the register.
LEMMA ContractStands ==
  ASSUME NEW register, IsRegister(register), NEW revisions, NEW symbol, NEW day,
         NEW quote, quote = CHOOSE r \in revisions : TRUE,
         Eligible(symbol, quote.security, day, register) # {}
  PROVE  LET contract == ContractOf(revisions, symbol, day, register)
         IN  /\ contract.instrument \in Eligible(symbol, quote.security, day, register)
             /\ contract.instrument \in register
             /\ contract.maturity = contract.instrument.maturity /\ contract.maturity \in Int
<1> DEFINE eligible == Eligible(symbol, quote.security, day, register)
           f == [i \in eligible |-> -i.report]
           g == [i \in eligible |-> i.hash]
           instrument == CHOOSE i \in eligible : \A j \in eligible :
                           ~Before(<<-j.report, j.hash>>, <<-i.report, i.hash>>)
<1>1. eligible \subseteq register
  BY DEF Eligible, Candidates
<1>2. IsFiniteSet(eligible) /\ eligible # {} /\ \A i \in eligible : i.report \in Int /\ i.hash \in Int
  BY <1>1, FS_Subset DEF IsRegister
<1>3. \A i \in eligible : /\ f[i] = -i.report /\ g[i] = i.hash
                          /\ f[i] \in Int /\ g[i] \in Int
  BY <1>2
<1> HIDE DEF f, g, eligible
<1>4. PICK i \in eligible : \A j \in eligible : ~Before(<<f[j], g[j]>>, <<f[i], g[i]>>)
  BY <1>2, <1>3, LeastPair
<1>5. \E i_1 \in eligible : \A j \in eligible :
        ~Before(<<-j.report, j.hash>>, <<-i_1.report, i_1.hash>>)
  BY <1>3, <1>4
<1>6. instrument \in eligible
  BY <1>5
<1>7. /\ ContractOf(revisions, symbol, day, register).instrument = instrument
      /\ ContractOf(revisions, symbol, day, register).maturity = instrument.maturity
  BY DEF ContractOf, eligible
<1> HIDE DEF instrument
<1>8. instrument \in register /\ instrument.maturity \in Int
  BY <1>1, <1>6 DEF IsRegister
<1> QED BY <1>6, <1>7, <1>8 DEF eligible

LEMMA ImageFinite ==
  ASSUME NEW S, IsFiniteSet(S), NEW f, DOMAIN f = S
  PROVE  IsFiniteSet({f[x] : x \in S})
<1> DEFINE T == {f[x] : x \in S}
           g == [x \in S |-> f[x]]
<1>1. g \in Surjection(S, T)
  BY DEF Surjection
<1> QED BY <1>1, FS_Surjection

LEMMA CurveStands ==
  ASSUME NEW register, IsRegister(register), NEW known, IsFiniteSet(known), NEW day
  PROVE  \/ ContractsForDate(known, day, register) = None
         \/ /\ IsFiniteSet(ContractsForDate(known, day, register))
            /\ \A c \in ContractsForDate(known, day, register) :
                 c.instrument \in register /\ c.maturity \in Int
<1> DEFINE revisions(s) == {p \in known : p.day = day /\ p.symbol = s}
           symbols == {p.symbol : p \in {q \in known : q.day = day}}
           priced == {s \in symbols :
                        Eligible(s, (CHOOSE r \in revisions(s) : TRUE).security, day, register) # {}}
           contracts == {ContractOf(revisions(s), s, day, register) : s \in priced}
<1>1. IsFiniteSet({q \in known : q.day = day})
  BY FS_Subset
<1>2. IsFiniteSet(symbols)
  <2> DEFINE on == {q \in known : q.day = day}
             f == [p \in on |-> p.symbol]
  <2>1. symbols = {f[p] : p \in on}
    OBVIOUS
  <2>2. IsFiniteSet({f[p] : p \in on})
    BY <1>1, ImageFinite
  <2> QED BY <2>1, <2>2
<1>3. IsFiniteSet(priced)
  <2> HIDE DEF symbols
  <2> QED BY <1>2, FS_Subset
<1>4. IsFiniteSet(contracts)
  <2> DEFINE f == [s \in priced |-> ContractOf(revisions(s), s, day, register)]
  <2> HIDE DEF priced
  <2>1. contracts = {f[s] : s \in priced}
    OBVIOUS
  <2>2. IsFiniteSet({f[s] : s \in priced})
    BY <1>3, ImageFinite
  <2> QED BY <2>1, <2>2
<1>5. \A s \in priced : /\ ContractOf(revisions(s), s, day, register).instrument \in register
                        /\ ContractOf(revisions(s), s, day, register).maturity \in Int
  BY ContractStands
<1>6. \A c \in contracts : c.instrument \in register /\ c.maturity \in Int
  <2> HIDE DEF priced, revisions
  <2> QED BY <1>5
<1>7. ContractsForDate(known, day, register) \in {None, contracts}
  BY DEF ContractsForDate
<1> HIDE DEF contracts
<1> QED BY <1>4, <1>6, <1>7

\* The rows built of two contracts carry them.
LEMMA ValuesCarry ==
  ASSUME NEW month, NEW reference, NEW focus, NEW one, NEW five,
         NEW r \in DiValues(month, reference, focus, one, five)
  PROVE  \A c \in r.inputs[1] : c # None /\ c \in {one, five}
<1> DEFINE stamp(cs) == Max({AvailableAt(focus)} \cup
                            UNION {{c.fetched, c.instrument.at} : c \in cs})
           row(component, value, cs, inputs) ==
             [component |-> component, month |-> month, reference |-> reference,
              value |-> value, formula |-> DiFormula, fetched |-> stamp(cs),
              inputs |-> inputs]
           rate == row(RealRate, Fisher(one.rate, focus.value, Scale), {one}, <<{one}, focus>>)
           slope == row(Slope, five.rate - one.rate, {one, five}, <<{one, five}>>)
<1>1. \/ r = rate /\ one # None
      \/ r = slope /\ one # None /\ five # None
  BY DEF DiValues
<1>2. rate.inputs[1] = {one} /\ slope.inputs[1] = {one, five}
  OBVIOUS
<1> HIDE DEF rate, slope
<1> QED BY <1>1, <1>2

LEMMA MonthStands ==
  ASSUME NEW register, IsRegister(register),
         NEW known, IsFiniteSet(known), \A p \in known : p.day \in Int,
         NEW V, IsFiniteSet(V), \A v \in V : v.period \in Int,
         NEW month, NEW cutoff, NEW r \in DiMonth(V, known, register, month, cutoff)
  PROVE  \A c \in r.inputs[1] : c.instrument \in register
<1> DEFINE days == {p.day : p \in {q \in known : MonthOf(q.day) = month}}
           focuses == FocusOf(V, month, cutoff)
           periods == {v.period : v \in focuses}
           aligned == AtMost(Max(days), Max(periods))
           day == Max({d \in days : d =< aligned})
           contracts == ContractsForDate(known, day, register)
<1>1. days \in SUBSET Int /\ IsFiniteSet(days)
  <2> DEFINE in == {q \in known : MonthOf(q.day) = month}
             f == [p \in in |-> p.day]
  <2>1. IsFiniteSet(in)
    BY FS_Subset
  <2>2. IsFiniteSet({f[p] : p \in in}) /\ days = {f[p] : p \in in}
    BY <2>1, ImageFinite
  <2> QED BY <2>2
<1>2. periods \in SUBSET Int /\ IsFiniteSet(periods) /\ (periods = {} <=> focuses = {})
  <2> DEFINE f == [v \in focuses |-> v.period]
  <2>1. focuses \subseteq V
    BY DEF FocusOf, Known
  <2>2. IsFiniteSet(focuses)
    BY <2>1, FS_Subset
  <2> HIDE DEF focuses
  <2>3. IsFiniteSet({f[v] : v \in focuses}) /\ periods = {f[v] : v \in focuses}
    BY <2>2, ImageFinite
  <2> QED BY <2>1, <2>3
<1>3. /\ days # {} /\ periods # {}
      /\ r \in DiMonthUpTo(month, aligned, days, focuses, known, register)
  <2> HIDE DEF days, focuses
  <2>1. DiMonth(V, known, register, month, cutoff)
        = DiMonthOf(month, days, focuses, known, register)
    BY DEF DiMonth, days, focuses
  <2> QED BY <1>2, <2>1 DEF DiMonthOf
<1> HIDE DEF days, focuses, periods
<1>4. aligned \in Int
  BY <1>1, <1>2, <1>3, MaxChosen DEF AtMost
<1> HIDE DEF aligned
<1>5. /\ \E d \in days : ~(d > aligned)
      /\ r \in DiMonthOn(month, day, {v \in focuses : v.period =< AtMost(aligned, day)},
                         contracts, known)
  BY <1>3 DEF DiMonthUpTo
<1>6. day \in Int
  <2> DEFINE upTo == {d \in days : d =< aligned}
  <2>1. upTo \in SUBSET Int /\ upTo \subseteq days
    BY <1>1
  <2>2. upTo # {}
    BY <1>1, <1>4, <1>5
  <2> HIDE DEF upTo
  <2>3. IsFiniteSet(upTo)
    BY <1>1, <2>1, FS_Subset
  <2>4. Max(upTo) \in upTo
    BY <2>1, <2>2, <2>3, MaxChosen
  <2> QED BY <2>1, <2>4 DEF day, upTo
<1> HIDE DEF day
<1>7. contracts # None /\ \E focus : r \in DiMonthValues(month, day, focus, contracts)
  <2> HIDE DEF contracts
  <2> QED BY <1>5 DEF DiMonthOn
<1>8. /\ IsFiniteSet(contracts)
      /\ \A c \in contracts : c.instrument \in register /\ c.maturity \in Int
  BY <1>7, CurveStands
<1> HIDE DEF contracts
<1>9. /\ ContractFor(contracts, day, OneYear) \in contracts \cup {None}
      /\ ContractFor(contracts, day, FiveYears) \in contracts \cup {None}
  BY <1>6, <1>8, ContractForChosen, CalendarAssumption
<1>10. \A c \in r.inputs[1] :
         c # None /\ c \in {ContractFor(contracts, day, OneYear),
                            ContractFor(contracts, day, FiveYears)}
  BY <1>7, ValuesCarry DEF DiMonthValues
<1> QED BY <1>8, <1>9, <1>10

LEMMA RowsStand ==
  ASSUME NEW register, IsRegister(register),
         NEW known, IsFiniteSet(known), \A p \in known : p.day \in Int,
         NEW V, IsFiniteSet(V), \A v \in V : v.period \in Int,
         NEW cutoff, NEW r \in EligibleDiRows(V, known, register, cutoff)
  PROVE  \A c \in r.inputs[1] : c.instrument \in register
<1>1. PICK month : r \in DiMonth(V, known, register, month, cutoff)
  BY DEF EligibleDiRows, EnoughMonths, DiRows
<1> QED BY <1>1, MonthStands

----------------------------------------------------------------------------
\* An instrument that comes later proves nothing of what the cutoff knew.
LEMMA SameEnough ==
  ASSUME NEW register, NEW i, NEW rows,
         \A r \in rows : \A c \in r.inputs[1] : c.instrument.at # i.at
  PROVE  EnoughMonths(rows, register \cup {i}) = EnoughMonths(rows, register)
<1>1. \A r \in rows : Verified(r, register \cup {i}) <=> Verified(r, register)
  <2>1. ASSUME NEW c, c.instrument.at # i.at
        PROVE  Proves(register \cup {i}, c) <=> Proves(register, c)
    BY <2>1 DEF Proves
  <2> QED BY <2>1 DEF Verified
<1>2. ASSUME NEW r \in rows
      PROVE  {p \in rows : p.component = r.component /\ Verified(p, register \cup {i})}
             = {p \in rows : p.component = r.component /\ Verified(p, register)}
  BY <1>1
<1> QED BY <1>2 DEF EnoughMonths

Bounded(V, L) ==
  /\ IsFiniteSet(V) /\ \A v \in V : v.period \in Int
  /\ IsFiniteSet(L.prices) /\ \A p \in L.prices : p.day \in Int
  /\ IsRegister(L.instruments)

\* The register is the same but for one instrument after the cutoff.
SameRegister(L, M, cutoff) ==
  \/ M.instruments = L.instruments
  \/ \E i : M.instruments = L.instruments \cup {i} /\ ~(i.at =< cutoff.at)

OverlayAt(V, L, cutoff) ==
  Overlay(V, L, KnownPrices(L.prices, L.identities, cutoff),
          KnownInstruments(L.instruments, cutoff), cutoff)

LEMMA KnownBounded ==
  ASSUME NEW V, NEW L, Bounded(V, L), NEW cutoff
  PROVE  /\ IsFiniteSet(KnownPrices(L.prices, L.identities, cutoff))
         /\ \A p \in KnownPrices(L.prices, L.identities, cutoff) : p.day \in Int
         /\ IsRegister(KnownInstruments(L.instruments, cutoff))
<1> DEFINE read == {q \in L.prices : q.fetched =< cutoff.at /\ q.day =< cutoff.day}
           f == [p \in read |-> Identified(p, L.identities)]
<1>1. IsFiniteSet(read) /\ \A p \in read : p.day \in Int
  BY FS_Subset DEF Bounded
<1>2. \A p \in read : f[p] = Identified(p, L.identities) /\ f[p].day = p.day
  BY DEF Identified, WithIdentity
<1>3. KnownPrices(L.prices, L.identities, cutoff) = {f[p] : p \in read}
  BY DEF KnownPrices
<1>4. IsFiniteSet({f[p] : p \in read}) /\ \A p \in {f[q] : q \in read} : p.day \in Int
  <2> HIDE DEF read
  <2>1. DOMAIN f = read
    OBVIOUS
  <2> HIDE DEF f
  <2> QED BY <1>1, <1>2, <2>1, ImageFinite
<1>5. IsRegister(KnownInstruments(L.instruments, cutoff))
  <2>1. KnownInstruments(L.instruments, cutoff) \subseteq L.instruments
    BY DEF KnownInstruments
  <2> QED BY <2>1, FS_Subset DEF Bounded, IsRegister
<1> QED BY <1>3, <1>4, <1>5

LEMMA SameOverlay ==
  ASSUME NEW V, NEW W, NEW L, NEW M, NEW cutoff, Bounded(V, L),
         SameVintages(V, W, cutoff), SameLedger(L, M, cutoff),
         M.values = L.values, SameRegister(L, M, cutoff)
  PROVE  OverlayAt(W, M, cutoff) = OverlayAt(V, L, cutoff)
<1> DEFINE known == KnownPrices(L.prices, L.identities, cutoff)
           register == KnownInstruments(L.instruments, cutoff)
           rows == EligibleDiRows(V, known, register, cutoff)
<1>1. /\ KnownPrices(M.prices, M.identities, cutoff) = known
      /\ KnownInstruments(M.instruments, cutoff) = register
  BY DEF SameLedger
<1>2. EligibleDiRows(W, known, register, cutoff) = rows
  <2>1. DiRows(W, known, register, cutoff) = DiRows(V, known, register, cutoff)
    BY SameRows
  <2> QED BY <2>1 DEF EligibleDiRows
<1>3. \A r \in rows : \A c \in r.inputs[1] : c.instrument \in register
  BY KnownBounded, RowsStand DEF Bounded
<1>4. \A r \in rows : \A c \in r.inputs[1] : c.instrument.at =< cutoff.at
  <2> HIDE DEF rows
  <2> QED BY <1>3 DEF KnownInstruments
<1> HIDE DEF known, register, rows
<1>5. EnoughMonths(rows, M.instruments) = EnoughMonths(rows, L.instruments)
  BY <1>4, SameEnough DEF SameRegister
<1>6. OverlayRows(M.values, rows, M.instruments, cutoff)
      = OverlayRows(L.values, rows, L.instruments, cutoff)
  BY <1>5 DEF OverlayRows
<1> QED BY <1>1, <1>2, <1>6 DEF OverlayAt, Overlay, known, register, rows

\* The snapshots a cycle's score reads.
Forwards(H, cutoff, cycle) == {s \in H : IsForward(s, cutoff, cycle)}

LEMMA SameSeries ==
  ASSUME NEW V, NEW W, NEW H, NEW G, NEW cutoff, NEW cycle, NEW c,
         SameVintages(V, W, cutoff), Forwards(G, cutoff, cycle) = Forwards(H, cutoff, cycle)
  PROVE  Series(W, G, c, cutoff, cycle) = Series(V, H, c, cutoff, cycle)
<1>1. SnapshotSeries(G, c, cutoff, cycle) = SnapshotSeries(H, c, cutoff, cycle)
  <2>1. {s \in G : s.key = c.key /\ IsForward(s, cutoff, cycle)}
        = {s \in H : s.key = c.key /\ IsForward(s, cutoff, cycle)}
    BY DEF Forwards
  <2> QED BY <2>1 DEF SnapshotSeries
<1>2. /\ Known(W, c.source, cutoff) = Known(V, c.source, cutoff)
      /\ Known(W, Target, cutoff) = Known(V, Target, cutoff)
  BY DEF SameVintages
<1> QED BY <1>1, <1>2 DEF Series

LEMMA SameScore ==
  ASSUME NEW V, NEW W, NEW H, NEW G, NEW L, NEW M, NEW cutoff, NEW cycle, Bounded(V, L),
         SameVintages(V, W, cutoff), SameLedger(L, M, cutoff),
         M.values = L.values, SameRegister(L, M, cutoff),
         Forwards(G, cutoff, cycle) = Forwards(H, cutoff, cycle)
  PROVE  ScoreResult(W, G, M, cutoff, cycle) = ScoreResult(V, H, L, cutoff, cycle)
<1>1. OverlayAt(W, M, cutoff) = OverlayAt(V, L, cutoff)
  BY SameOverlay
<1>2. \A c : Series(W, G, c, cutoff, cycle) = Series(V, H, c, cutoff, cycle)
  BY SameSeries
<1>3. \A overlay : ScoreOn(W, G, overlay, cutoff, cycle) = ScoreOn(V, H, overlay, cutoff, cycle)
  BY <1>2 DEF ScoreOn
<1> QED BY <1>1, <1>3 DEF ScoreResult, OverlayAt

----------------------------------------------------------------------------
(* ScoreRepeats: as RetryRepeats, and a score's cutoff is of one cycle.       *)

\* What the choices of a calculation are made among is finite.
Countable ==
  Bounded(vintages, ledger) /\ \A v \in pending : v.period \in Int

CutoffsOwned ==
  /\ \A c, d \in Cycles :
       cutoffs[c] # None /\ cutoffs[d] # None /\ cutoffs[c].at = cutoffs[d].at => c = d
  /\ \A p \in scores : /\ p.cycle \in Cycles /\ cutoffs[p.cycle] # None
                       /\ p.asOf = cutoffs[p.cycle]

\* What a cycle would compute of its score now is what it stored.
Rescored(p) ==
  ScoreResult(vintages, derived, ledger, p.asOf, p.cycle).components = p.components

OwnLater(p) == \E s \in derived : s.cycle = p.cycle /\ s.created > p.calculated

ScoreStands(p) ==
  \/ LateWrite(p.asOf, p.calculated, now)
  \/ LateIdentity(p.asOf, p.calculated, now)
  \/ OwnLater(p)
  \/ Rescored(p)

ScoreInv ==
  Stamped /\ Countable /\ CutoffsOwned /\ ScoreRepeats /\ \A p \in scores : ScoreStands(p)

LEMMA CountableInit ==
  ASSUME CycleInit PROVE Countable
<1>1. /\ ledger.prices = {} /\ ledger.instruments = {} /\ pending = {}
      /\ feed \in Feeds /\ vintages = {Row(e, 0, 0) : e \in feed.known}
  BY DEF CycleInit
<1> DEFINE f == [e \in feed.known |-> Row(e, 0, 0)]
<1>2. \A v \in vintages : v.period \in Int
  BY <1>1, FeedsAssumption DEF Row
<1>3. IsFiniteSet(vintages)
  <2>1. IsFiniteSet(feed.known)
    BY <1>1, FeedsAssumption
  <2>2. IsFiniteSet({f[e] : e \in feed.known})
    BY <2>1, ImageFinite
  <2> QED BY <1>1, <2>2
<1> QED BY <1>1, <1>2, <1>3, FS_EmptySet DEF Countable, Bounded, IsRegister

\* A step that adds at most one row to each ledger.
LEMMA CountableStep ==
  ASSUME Stamped, Countable, [CycleNext]_cycleVars
  PROVE  Countable'
<1>1. CASE UNCHANGED <<vintages, ledger, pending>>
  BY <1>1 DEF Countable, Bounded, IsRegister
<1>2. ASSUME NEW e \in feed.observations, Fetch(e) PROVE Countable'
  <2>1. /\ vintages' = vintages /\ ledger' = ledger
        /\ pending' = pending \cup {Row(e, now, 0)}
    BY <1>2 DEF Fetch
  <2>2. Row(e, now, 0).period \in Int
    BY FeedsAssumption DEF Row, Stamped
  <2> QED BY <2>1, <2>2 DEF Countable, Bounded, IsRegister
<1>3. ASSUME NEW v \in pending, CommitVintage(v) PROVE Countable'
  <2> DEFINE w == [v EXCEPT !.id = now]
  <2>1. /\ vintages' \subseteq vintages \cup {w} /\ ledger' = ledger /\ pending' \subseteq pending
    BY <1>3 DEF CommitVintage, WithVintage
  <2>2. w.period = v.period
    <3>1. IsRow(v)
      BY DEF Stamped
    <3> QED BY <3>1 DEF IsRow
  <2> HIDE DEF w
  <2>3. IsFiniteSet(vintages')
    <3>1. IsFiniteSet(vintages \cup {w})
      BY FS_AddElement DEF Countable, Bounded
    <3> QED BY <2>1, <3>1, FS_Subset
  <2> QED BY <2>1, <2>2, <2>3 DEF Countable, Bounded, IsRegister
<1>4. ASSUME NEW v \in pending, Lose(v) PROVE Countable'
  BY <1>4 DEF Lose, Countable, Bounded, IsRegister
<1>5. ASSUME NEW e \in feed.prices, ImportPrice(e) PROVE Countable'
  <2>1. PICK p : p.day = e.day /\ ledger' = [ledger EXCEPT !.prices = @ \cup {p}]
    BY <1>5 DEF ImportPrice, Add
  <2>2. /\ ledger'.prices = ledger.prices \cup {p} /\ ledger'.instruments = ledger.instruments
        /\ vintages' = vintages /\ pending' = pending
    BY <1>5, <2>1 DEF ImportPrice, Add, Stamped
  <2>3. p.day \in Int
    <3>1. feed \in Feeds
      BY DEF Stamped
    <3>2. \A x \in feed.prices : x.day \in Int
      BY <3>1, FeedsAssumption
    <3> QED BY <2>1, <3>2
  <2>4. IsFiniteSet(ledger'.prices)
    BY <2>2, FS_AddElement DEF Countable, Bounded
  <2> QED BY <2>2, <2>3, <2>4 DEF Countable, Bounded, IsRegister
<1>6. ASSUME NEW e \in feed.identities, ImportIdentity(e) PROVE Countable'
  <2>1. PICK i : ledger' = [ledger EXCEPT !.identities = @ \cup {i}]
    BY <1>6 DEF ImportIdentity, Add
  <2>2. /\ ledger'.prices = ledger.prices /\ ledger'.instruments = ledger.instruments
        /\ vintages' = vintages /\ pending' = pending
    BY <1>6, <2>1 DEF ImportIdentity, Add, Stamped
  <2> QED BY <2>2 DEF Countable, Bounded, IsRegister
<1>7. ASSUME NEW e \in feed.instruments, ImportInstrument(e) PROVE Countable'
  <2>1. PICK i : /\ i.report = e.report /\ i.maturity = e.maturity /\ i.hash = e.hash
                 /\ ledger' = [ledger EXCEPT !.instruments = @ \cup {i}]
    BY <1>7 DEF ImportInstrument, Add, InstrumentRow
  <2>2. /\ ledger'.prices = ledger.prices /\ ledger'.instruments = ledger.instruments \cup {i}
        /\ vintages' = vintages /\ pending' = pending
    BY <1>7, <2>1 DEF ImportInstrument, Add, Stamped
  <2>3. {i.report, i.maturity, i.hash} \subseteq Int
    <3>1. feed \in Feeds
      BY DEF Stamped
    <3>2. \A x \in feed.instruments : {x.report, x.maturity, x.hash} \subseteq Int
      BY <3>1, FeedsAssumption
    <3> QED BY <2>1, <3>2
  <2>4. IsFiniteSet(ledger'.instruments)
    BY <2>2, FS_AddElement DEF Countable, Bounded, IsRegister
  <2> QED BY <2>2, <2>3, <2>4 DEF Countable, Bounded, IsRegister
<1>8. CASE \/ UNCHANGED cycleVars \/ NewDay
           \/ \E c \in Cycles : TakeCutoff(c) \/ Score(c)
           \/ \E c \in Cycles, key \in feed.keys : Derive(c, key)
  BY <1>1, <1>8 DEF cycleVars, NewDay, TakeCutoff, Score, Derive
<1> QED BY <1>2, <1>3, <1>4, <1>5, <1>6, <1>7, <1>8 DEF CycleNext

LEMMA OwnedStep ==
  ASSUME Stamped, CutoffsOwned, [CycleNext]_cycleVars
  PROVE  CutoffsOwned'
<1>1. CASE UNCHANGED <<cutoffs, scores>>
  BY <1>1 DEF CutoffsOwned
<1>2. ASSUME NEW c \in Cycles, TakeCutoff(c) PROVE CutoffsOwned'
  <2>1. /\ cutoffs[c] = None /\ scores' = scores
        /\ cutoffs' = [cutoffs EXCEPT ![c] = Stamp] /\ Stamp.at = now
    BY <1>2 DEF TakeCutoff, Stamp
  <2>2. cutoffs'[c].at = now /\ \A d \in Cycles \ {c} : cutoffs'[d] = cutoffs[d]
    BY <2>1 DEF Stamped
  <2>3. \A d \in Cycles : cutoffs[d] # None => cutoffs[d].at # now
    BY DEF Stamped
  <2> QED BY <2>1, <2>2, <2>3 DEF CutoffsOwned
<1>3. ASSUME NEW c \in Cycles, Score(c) PROVE CutoffsOwned'
  <2>1. PICK q : scores' = scores \cup {q} /\ q.cycle = c /\ q.asOf = cutoffs[c] /\ cutoffs[c] # None
    BY <1>3, ScoreStores
  <2>2. cutoffs' = cutoffs
    BY <1>3 DEF Score
  <2> QED BY <2>1, <2>2 DEF CutoffsOwned
<1>4. CASE \/ UNCHANGED cycleVars \/ NewDay
           \/ \E e \in feed.observations : Fetch(e)
           \/ \E v \in pending : CommitVintage(v) \/ Lose(v)
           \/ \E e \in feed.prices : ImportPrice(e)
           \/ \E e \in feed.identities : ImportIdentity(e)
           \/ \E e \in feed.instruments : ImportInstrument(e)
           \/ \E c \in Cycles, key \in feed.keys : Derive(c, key)
  BY <1>1, <1>4 DEF cycleVars, NewDay, Fetch, CommitVintage, Lose, ImportPrice, ImportIdentity,
                    ImportInstrument, Add, Derive
<1> QED BY <1>2, <1>3, <1>4 DEF CycleNext

\* A step that leaves a cutoff's register and stored months as they are.
SameStore(cutoff) == ledger'.values = ledger.values /\ SameRegister(ledger, ledger', cutoff)

SameForwards(p) ==
  Forwards(derived', p.asOf, p.cycle) = Forwards(derived, p.asOf, p.cycle)

LEMMA ScoreStays ==
  ASSUME Stamped, Countable, Grows, NEW p \in scores, ScoreStands(p),
         Undisturbed(p.asOf, p.calculated), SameStore(p.asOf), SameForwards(p) \/ OwnLater(p)'
  PROVE  ScoreStands(p)'
<1>1. p.calculated \in Nat
  BY DEF Stamped
<1>2. CASE \/ LateWrite(p.asOf, p.calculated, now) \/ LateWrite(p.asOf, p.calculated, now)'
           \/ LateIdentity(p.asOf, p.calculated, now) \/ LateIdentity(p.asOf, p.calculated, now)'
  BY <1>1, <1>2, LateForGood DEF Grows, ScoreStands
<1>3. CASE OwnLater(p) \/ OwnLater(p)'
  BY <1>3 DEF Grows, OwnLater, ScoreStands
<1>4. CASE /\ Rescored(p) /\ SameVintages(vintages, vintages', p.asOf)
           /\ SameLedger(ledger, ledger', p.asOf) /\ SameForwards(p)
  <2>1. ScoreResult(vintages', derived', ledger', p.asOf, p.cycle)
        = ScoreResult(vintages, derived, ledger, p.asOf, p.cycle)
    BY <1>4, SameScore DEF Countable, SameStore, SameForwards
  <2> QED BY <1>4, <2>1 DEF ScoreStands, Rescored
<1> QED BY <1>2, <1>3, <1>4 DEF ScoreStands, Undisturbed

LEMMA AddSameStore ==
  ASSUME Stamped, NEW field \in {"prices", "identities", "instruments"}, NEW row,
         Add(field, row), field = "instruments" => row.at = now,
         NEW cutoff, cutoff.at \in Nat, cutoff.at < now
  PROVE  SameStore(cutoff)
<1>1. /\ ledger'.values = ledger.values
      /\ ledger'.instruments = IF field = "instruments" THEN ledger.instruments \cup {row}
                               ELSE ledger.instruments
  BY DEF Add, Stamped
<1>2. field = "instruments" => ~(row.at =< cutoff.at)
  BY DEF Stamped
<1> QED BY <1>1, <1>2 DEF SameStore, SameRegister

LEMMA ImportSameStore ==
  ASSUME Stamped, NEW e, ImportPrice(e) \/ ImportIdentity(e) \/ ImportInstrument(e),
         NEW cutoff, cutoff.at \in Nat, cutoff.at < now
  PROVE  SameStore(cutoff)
<1>1. CASE ImportPrice(e)
  BY <1>1, AddSameStore DEF ImportPrice
<1>2. CASE ImportIdentity(e)
  BY <1>2, AddSameStore DEF ImportIdentity
<1>3. CASE ImportInstrument(e)
  BY <1>3, AddSameStore DEF ImportInstrument, InstrumentRow
<1> QED BY <1>1, <1>2, <1>3

\* What ScoreRepeats says of two scores.
ScoredAgain(p, q) ==
  p.asOf = q.asOf /\ p.calculated < q.calculated =>
    \/ LateWrite(p.asOf, p.calculated, q.calculated)
    \/ LateIdentity(p.asOf, p.calculated, q.calculated)
    \/ \E s \in derived : /\ s.cycle = p.cycle
                          /\ s.created > p.calculated /\ s.created < q.calculated

LEMMA ScoredForGood ==
  ASSUME Grows, NEW p, NEW q, ScoredAgain(p, q)
  PROVE  ScoredAgain(p, q)'
<1>1. LateWrite(p.asOf, p.calculated, q.calculated) => LateWrite(p.asOf, p.calculated, q.calculated)'
  BY DEF Grows, LateWrite
<1>2. LateIdentity(p.asOf, p.calculated, q.calculated)
      => LateIdentity(p.asOf, p.calculated, q.calculated)'
  BY DEF Grows, LateIdentity
<1> QED BY <1>1, <1>2 DEF ScoredAgain, Grows

\* A step that computes no score.
LEMMA ScoreQuiet ==
  ASSUME ScoreInv, Stamped', Countable', CutoffsOwned', scores' = scores, Grows,
         \A p \in scores : /\ Undisturbed(p.asOf, p.calculated) /\ SameStore(p.asOf)
                           /\ SameForwards(p) \/ OwnLater(p)'
  PROVE  ScoreInv'
<1>1. ASSUME NEW p \in scores PROVE ScoreStands(p)'
  <2>1. Stamped /\ Countable /\ ScoreStands(p)
    BY DEF ScoreInv
  <2> QED BY <2>1, ScoreStays
<1>2. ASSUME NEW p \in scores, NEW q \in scores PROVE ScoredAgain(p, q)'
  <2>1. ScoredAgain(p, q)
    BY DEF ScoreInv, ScoreRepeats, ScoredAgain
  <2> QED BY <2>1, ScoredForGood
<1> QED BY <1>1, <1>2 DEF ScoreInv, ScoreRepeats, ScoredAgain

\* A snapshot of another cycle is stored after the cutoff and not read.
LEMMA ScoreDerive ==
  ASSUME ScoreInv, Stamped', Countable', CutoffsOwned',
         NEW c \in Cycles, NEW key \in feed.keys, Derive(c, key)
  PROVE  ScoreInv'
<1>1. Stamped
  BY DEF ScoreInv
<1>2. PICK n : derived' = derived \cup {n} /\ n.cycle = c /\ n.created = now
  BY <1>1, DeriveStores
<1>3. /\ now' = now + 1 /\ now \in Nat /\ vintages' = vintages /\ ledger' = ledger
      /\ scores' = scores
  BY <1>1 DEF Derive, Tick, Stamped
<1>4. \A cutoff, from : Undisturbed(cutoff, from) /\ Grows
  <2>1. now =< now' /\ now' \in Nat /\ derived \subseteq derived'
    BY <1>2, <1>3
  <2> QED BY <1>1, <1>3, <2>1, SourcesUndisturbed
<1>5. ASSUME NEW p \in scores PROVE SameForwards(p) \/ OwnLater(p)'
  <2>1. /\ p.asOf.at \in Nat /\ p.asOf.at < now /\ p.calculated \in Nat /\ p.calculated < now
    BY <1>1 DEF Stamped
  <2>2. CASE p.cycle = c
    <3>1. n \in derived' /\ n.cycle = p.cycle /\ n.created > p.calculated
      BY <1>2, <1>3, <2>1, <2>2
    <3> QED BY <3>1 DEF OwnLater
  <2>3. CASE p.cycle # c
    <3>1. ~IsForward(n, p.asOf, p.cycle)
      BY <1>2, <1>3, <2>1, <2>3 DEF IsForward
    <3> QED BY <1>2, <3>1 DEF SameForwards, Forwards
  <2> QED BY <2>2, <2>3
<1>6. \A cutoff : SameStore(cutoff)
  BY <1>3 DEF SameStore, SameRegister
<1> QED BY <1>3, <1>4, <1>5, <1>6, ScoreQuiet DEF Grows

LEMMA ScoreScore ==
  ASSUME ScoreInv, Stamped', Countable', CutoffsOwned', NEW c \in Cycles, Score(c)
  PROVE  ScoreInv'
<1>1. Stamped /\ CutoffsOwned
  BY DEF ScoreInv
<1>2. PICK n : /\ scores' = scores \cup {n} /\ n.cycle = c /\ n.asOf = cutoffs[c]
               /\ n.calculated = now /\ cutoffs[c] # None
               /\ \A t \in scores : ScoreIdentity(t) # ScoreIdentity(n)
               /\ n.components = ScoreResult(vintages, derived, ledger, cutoffs[c], c).components
  BY <1>1, ScoreStores
<1>3. /\ now' = now + 1 /\ now \in Nat /\ vintages' = vintages /\ ledger' = ledger
      /\ derived' = derived
  BY <1>1 DEF Score, Tick, Stamped
<1>4. \A cutoff, from : Undisturbed(cutoff, from) /\ Grows
  <2>1. now =< now' /\ now' \in Nat /\ derived \subseteq derived'
    BY <1>3
  <2> QED BY <1>1, <1>3, <2>1, SourcesUndisturbed
<1>5. ASSUME NEW p \in scores PROVE ScoreStands(p)'
  <2>1. Countable /\ ScoreStands(p) /\ SameStore(p.asOf) /\ SameForwards(p)
    BY <1>3 DEF ScoreInv, SameStore, SameRegister, SameForwards
  <2> QED BY <1>1, <1>4, <2>1, ScoreStays
<1>6. ScoreStands(n)'
  BY <1>2, <1>3 DEF ScoreStands, Rescored
<1>7. ASSUME NEW p \in scores', NEW q \in scores' PROVE ScoredAgain(p, q)'
  <2>1. CASE p \in scores /\ q \in scores
    <3>1. ScoredAgain(p, q)
      BY <2>1 DEF ScoreInv, ScoreRepeats, ScoredAgain
    <3> QED BY <1>4, <3>1, ScoredForGood
  <2>2. CASE p \in scores /\ q = n
    <3> SUFFICES ASSUME p.asOf = n.asOf PROVE ScoredAgain(p, n)
      BY <1>4, <2>2, ScoredForGood DEF ScoredAgain
    <3>1. p.cycle = c
      <4>1. p.cycle \in Cycles /\ cutoffs[p.cycle] # None /\ p.asOf = cutoffs[p.cycle]
        BY <1>1, <2>2 DEF CutoffsOwned
      <4> QED BY <1>1, <1>2, <4>1 DEF CutoffsOwned
    <3>2. ~Rescored(p)
      <4>1. ScoreIdentity(p) # ScoreIdentity(n)
        BY <1>2, <2>2
      <4> QED BY <1>2, <3>1, <4>1 DEF Rescored, ScoreIdentity
    <3>3. ScoreStands(p) /\ \A s \in derived : s.created < now
      BY <1>1, <2>2 DEF ScoreInv, Stamped
    <3> QED BY <1>2, <3>2, <3>3 DEF ScoreStands, OwnLater, ScoredAgain
  <2>3. CASE p = n
    <3>1. ~(p.calculated < q.calculated)
      BY <1>1, <1>2, <2>3 DEF Stamped
    <3> QED BY <3>1 DEF ScoredAgain
  <2> QED BY <1>2, <2>1, <2>2, <2>3
<1> QED BY <1>2, <1>5, <1>6, <1>7 DEF ScoreInv, ScoreRepeats, ScoredAgain

LEMMA ScoreNext ==
  ASSUME ScoreInv, [CycleNext]_cycleVars
  PROVE  ScoreInv'
<1>1. /\ Stamped /\ Stamped' /\ Countable' /\ CutoffsOwned'
  BY StampedNext, CountableStep, OwnedStep DEF ScoreInv
<1>2. \A p \in scores : /\ p.asOf.at \in Nat /\ p.asOf.at < now
                        /\ p.calculated \in Nat /\ p.calculated < now
  BY <1>1 DEF Stamped
<1>3. ASSUME vintages' = vintages, ledger' = ledger, derived' = derived, scores' = scores,
             now =< now'
      PROVE  ScoreInv'
  <2>1. now' \in Nat
    BY <1>1 DEF Stamped
  <2>2. Grows /\ \A p \in scores : Undisturbed(p.asOf, p.calculated)
    BY <1>1, <1>3, <2>1, SourcesUndisturbed DEF Grows
  <2>3. \A p \in scores : SameStore(p.asOf) /\ SameForwards(p)
    BY <1>3 DEF SameStore, SameRegister, SameForwards
  <2> QED BY <1>1, <1>3, <2>2, <2>3, ScoreQuiet
<1>4. now \in Nat
  BY <1>1 DEF Stamped
<1>5. CASE UNCHANGED cycleVars
  BY <1>3, <1>4, <1>5 DEF cycleVars
<1>6. CASE NewDay
  BY <1>3, <1>4, <1>6 DEF NewDay
<1>7. ASSUME NEW e \in feed.observations, Fetch(e) PROVE ScoreInv'
  BY <1>3, <1>4, <1>7 DEF Fetch, Tick
<1>8. ASSUME NEW v \in pending, CommitVintage(v) PROVE ScoreInv'
  <2>1. derived' = derived /\ scores' = scores /\ ledger' = ledger
    BY <1>8 DEF CommitVintage
  <2>2. Grows
    BY <1>4, <1>8 DEF Grows, CommitVintage, WithVintage, Tick
  <2>3. \A p \in scores : Undisturbed(p.asOf, p.calculated)
    BY <1>1, <1>2, <1>8, CommitUndisturbed
  <2>4. \A p \in scores : SameStore(p.asOf) /\ SameForwards(p)
    BY <2>1 DEF SameStore, SameRegister, SameForwards
  <2> QED BY <1>1, <2>1, <2>2, <2>3, <2>4, ScoreQuiet
<1>9. ASSUME NEW v \in pending, Lose(v) PROVE ScoreInv'
  BY <1>3, <1>4, <1>9 DEF Lose
<1>10. ASSUME NEW e, ImportPrice(e) \/ ImportIdentity(e) \/ ImportInstrument(e) PROVE ScoreInv'
  <2>1. derived' = derived /\ scores' = scores
    BY <1>10 DEF ImportPrice, ImportIdentity, ImportInstrument, Add
  <2>2. Grows
    <3>1. [at |-> 0].at \in Nat /\ [at |-> 0].at < now /\ 0 < now
      BY <1>1 DEF Stamped
    <3> QED BY <1>1, <1>10, <3>1, ImportUndisturbed
  <2>3. \A p \in scores : Undisturbed(p.asOf, p.calculated)
    BY <1>1, <1>2, <1>10, ImportUndisturbed
  <2>4. \A p \in scores : SameStore(p.asOf) /\ SameForwards(p)
    BY <1>1, <1>2, <1>10, <2>1, ImportSameStore DEF SameForwards
  <2> QED BY <1>1, <2>1, <2>2, <2>3, <2>4, ScoreQuiet
<1>11. ASSUME NEW c \in Cycles, TakeCutoff(c) PROVE ScoreInv'
  BY <1>3, <1>4, <1>11 DEF TakeCutoff, Tick
<1>12. ASSUME NEW c \in Cycles, Score(c) PROVE ScoreInv'
  BY <1>1, <1>12, ScoreScore
<1>13. ASSUME NEW c \in Cycles, NEW key \in feed.keys, Derive(c, key) PROVE ScoreInv'
  BY <1>1, <1>13, ScoreDerive
<1> QED BY <1>5, <1>6, <1>7, <1>8, <1>9, <1>10, <1>11, <1>12, <1>13 DEF CycleNext

LEMMA ScoreInit ==
  ASSUME CycleInit PROVE ScoreInv
<1>1. scores = {} /\ \A c \in Cycles : cutoffs[c] = None
  BY DEF CycleInit
<1> QED BY <1>1, StampedInit, CountableInit DEF ScoreInv, CutoffsOwned, ScoreRepeats

(* A score computed again at its cycle's cutoff is the same score, but for    *)
(* the late writes and identities and the cycle's own snapshots that          *)
(* ScoreRepeats names: the instruments of the register that came later, the   *)
(* snapshots of other cycles and their rewriting of the past do not enter it. *)
THEOREM ScoresRepeat == CycleSpec => []ScoreRepeats
<1>1. CycleInit => ScoreInv
  BY ScoreInit
<1>2. ScoreInv /\ [CycleNext]_cycleVars => ScoreInv'
  BY ScoreNext
<1>3. ScoreInv => ScoreRepeats
  BY DEF ScoreInv
<1> QED BY <1>1, <1>2, <1>3, PTL DEF CycleSpec

----------------------------------------------------------------------------
(* NeverRepriced: without a conflict a file's price is quoted with one        *)
(* security and one rate, and the instruments it may be have one maturity.   *)

LEMMA OneMember ==
  ASSUME NEW S, IsFiniteSet(S), Cardinality(S) = 1, NEW x \in S, NEW y \in S
  PROVE  x = y
BY FS_Singleton

\* An identity captured later names the security of a price that had none, or
\* the same one: whatever else it names is a conflict.
LEMMA SecurityKept ==
  ASSUME NEW p, NEW I, NEW J, IsFiniteSet(J), I \subseteq J,
         ~Identified(p, I).conflict, ~Identified(p, J).conflict
  PROVE  Identified(p, I).security \in {None, Identified(p, J).security}
<1> DEFINE of(K) == {i \in K : SameFile(i, p)}
           named(K) == {i.security : i \in of(K)}
<1>1. \A K : /\ Identified(p, K).conflict <=>
                  /\ of(K) # {}
                  /\ \/ None \in named(K) \/ Cardinality(named(K)) # 1
                     \/ p.security # None /\ named(K) # {p.security}
             /\ of(K) = {} => Identified(p, K).security = p.security
             /\ of(K) # {} /\ ~Identified(p, K).conflict =>
                  Identified(p, K).security = CHOOSE s \in named(K) : TRUE
  BY DEF Identified, WithIdentity
<1>2. of(I) \subseteq of(J) /\ IsFiniteSet(of(J))
  BY FS_Subset
<1>3. named(I) \subseteq named(J) /\ IsFiniteSet(named(J))
  <2> DEFINE f == [i \in of(J) |-> i.security]
  <2> HIDE DEF of
  <2>1. IsFiniteSet({f[i] : i \in of(J)}) /\ named(J) = {f[i] : i \in of(J)}
    BY <1>2, ImageFinite
  <2> QED BY <1>2, <2>1
<1>4. \A K : of(K) # {} => named(K) # {}
  <2> HIDE DEF of
  <2> QED OBVIOUS
<1>5. \A s, t \in named(J) : of(J) # {} => s = t
  <2> HIDE DEF of, named
  <2> QED BY <1>1, <1>3, OneMember
<1> HIDE DEF of, named
<1>6. of(J) # {} => Identified(p, J).security \in named(J)
  BY <1>1, <1>4
<1>7. CASE of(I) # {}
  <2>1. Identified(p, I).security \in named(I) /\ of(J) # {}
    BY <1>1, <1>2, <1>4, <1>7
  <2> QED BY <1>3, <1>5, <1>6, <2>1
<1>8. CASE of(I) = {} /\ of(J) # {}
  <2>1. Identified(p, I).security = p.security
    BY <1>1, <1>8
  <2>2. p.security = None \/ named(J) = {p.security}
    BY <1>1, <1>8
  <2> QED BY <1>6, <1>8, <2>1, <2>2
<1>9. CASE of(J) = {}
  BY <1>1, <1>2, <1>9
<1> QED BY <1>7, <1>8, <1>9

\* What a contract says of every revision of its symbol.
Quoted(known, register, day, c) ==
  /\ \E p \in known : p.day = day /\ p.symbol = c.symbol
  /\ \A p \in known : p.day = day /\ p.symbol = c.symbol =>
       /\ ~p.conflict /\ p.rate = c.rate
       /\ Eligible(p.symbol, p.security, day, register) # {}
       /\ \A i \in Eligible(p.symbol, p.security, day, register) : i.maturity = c.maturity

LEMMA NoConflict ==
  ASSUME NEW revisions, NEW symbol, NEW day, NEW register,
         ~SymbolConflict(revisions, symbol, day, register),
         NEW quote, quote = CHOOSE r \in revisions : TRUE
  PROVE  /\ \A r \in revisions : ~r.conflict
         /\ Cardinality({<<r.security, r.rate>> : r \in revisions}) = 1
         /\ ~(Cardinality({Identity(i) : i \in Eligible(symbol, quote.security, day, register)}) > 1)
BY DEF SymbolConflict

LEMMA OneMaturity ==
  ASSUME NEW E, IsFiniteSet(E), E # {}, ~(Cardinality({Identity(i) : i \in E}) > 1),
         NEW i \in E, NEW j \in E
  PROVE  i.maturity = j.maturity
<1> DEFINE f == [x \in E |-> Identity(x)]
           named == {Identity(x) : x \in E}
<1>1. IsFiniteSet({f[x] : x \in E})
  BY ImageFinite
<1>2. named = {f[x] : x \in E} /\ Identity(i) \in named /\ Identity(j) \in named
  OBVIOUS
<1> HIDE DEF named, f
<1>3. Cardinality(named) \in Nat /\ Cardinality(named) # 0
  BY <1>1, <1>2, FS_CardinalityType, FS_EmptySet
<1>4. Cardinality(named) = 1
  BY <1>3 DEF named
<1>5. Identity(i) = Identity(j)
  BY <1>1, <1>2, <1>4, OneMember
<1> QED BY <1>5 DEF Identity

LEMMA ContractQuoted ==
  ASSUME NEW register, IsRegister(register), NEW known, IsFiniteSet(known), NEW day,
         ContractsForDate(known, day, register) # None,
         NEW c \in ContractsForDate(known, day, register)
  PROVE  Quoted(known, register, day, c)
<1> DEFINE revisions(s) == {p \in known : p.day = day /\ p.symbol = s}
           symbols == {p.symbol : p \in {q \in known : q.day = day}}
           quote(s) == CHOOSE r \in revisions(s) : TRUE
           eligible(s) == Eligible(s, quote(s).security, day, register)
<1>1. PICK s \in symbols :
        /\ ~SymbolConflict(revisions(s), s, day, register)
        /\ eligible(s) # {} /\ c = ContractOf(revisions(s), s, day, register)
  BY DEF ContractsForDate
<1>2. revisions(s) # {} /\ IsFiniteSet(revisions(s))
  BY FS_Subset
<1>3. quote(s) \in revisions(s)
  <2> HIDE DEF revisions
  <2> QED BY <1>2
<1>4. c.symbol = s /\ c.rate = quote(s).rate
  <2> HIDE DEF revisions
  <2> QED BY <1>1 DEF ContractOf
<1>5. \A r \in revisions(s) :
        ~r.conflict /\ r.security = quote(s).security /\ r.rate = quote(s).rate
  <2> DEFINE f == [r \in revisions(s) |-> <<r.security, r.rate>>]
             quotes == {<<r.security, r.rate>> : r \in revisions(s)}
  <2> HIDE DEF revisions
  <2>1. /\ Cardinality(quotes) = 1 /\ \A r \in revisions(s) : ~r.conflict
    BY <1>1, NoConflict
  <2>2. IsFiniteSet({f[r] : r \in revisions(s)}) /\ quotes = {f[r] : r \in revisions(s)}
    BY <1>2, ImageFinite
  <2>3. \A r \in revisions(s) : <<r.security, r.rate>> = <<quote(s).security, quote(s).rate>>
    <3>1. \A r \in revisions(s) : <<r.security, r.rate>> \in quotes
      OBVIOUS
    <3> HIDE DEF quotes, f
    <3>2. \A x, y \in quotes : x = y
      BY <2>1, <2>2, OneMember
    <3> QED BY <1>3, <3>1, <3>2
  <2> QED BY <2>1, <2>3
<1>6. IsFiniteSet(eligible(s)) /\ eligible(s) \subseteq register
  <2>1. eligible(s) \subseteq register
    BY DEF Eligible, Candidates
  <2> QED BY <2>1, FS_Subset DEF IsRegister
<1>7. \A i, j \in eligible(s) : i.maturity = j.maturity
  <2>1. PICK R, q : R = revisions(s) /\ q = CHOOSE r \in R : TRUE
    OBVIOUS
  <2>2. PICK E : E = Eligible(s, q.security, day, register)
    OBVIOUS
  <2>3. E = eligible(s) /\ ~SymbolConflict(R, s, day, register)
    BY <1>1, <2>1, <2>2
  <2> HIDE DEF revisions, eligible
  <2>4. ~(Cardinality({Identity(i) : i \in E}) > 1)
    <3>1. q = CHOOSE r \in R : TRUE
      BY <2>1
    <3>2. ~(Cardinality({Identity(i) : i \in Eligible(s, q.security, day, register)}) > 1)
      BY <2>3, <3>1, NoConflict
    <3> QED BY <2>2, <3>2
  <2>5. IsFiniteSet(E) /\ E # {}
    BY <1>1, <1>6, <2>3
  <2> QED BY <2>3, <2>4, <2>5, OneMaturity
<1>8. \E i \in eligible(s) : c.maturity = i.maturity
  <2>1. PICK R, q : R = revisions(s) /\ q = CHOOSE r \in R : TRUE
    OBVIOUS
  <2>2. Eligible(s, q.security, day, register) # {}
    BY <1>1, <2>1
  <2>3. LET contract == ContractOf(R, s, day, register)
        IN  /\ contract.instrument \in Eligible(s, q.security, day, register)
            /\ contract.maturity = contract.instrument.maturity
    BY <2>1, <2>2, ContractStands
  <2> QED BY <1>1, <2>1, <2>3
<1>9. ASSUME NEW p \in known, p.day = day, p.symbol = c.symbol
      PROVE  /\ ~p.conflict /\ p.rate = c.rate
             /\ Eligible(p.symbol, p.security, day, register) = eligible(s)
  <2>1. p \in revisions(s)
    BY <1>4, <1>9
  <2> HIDE DEF revisions, quote
  <2> QED BY <1>4, <1>5, <1>9, <2>1
<1>10. \E p \in known : p.day = day /\ p.symbol = c.symbol
  BY <1>3, <1>4
<1> HIDE DEF eligible
<1>11. \A p \in known : p.day = day /\ p.symbol = c.symbol =>
         /\ ~p.conflict /\ p.rate = c.rate
         /\ Eligible(p.symbol, p.security, day, register) # {}
         /\ \A i \in Eligible(p.symbol, p.security, day, register) : i.maturity = c.maturity
  BY <1>1, <1>7, <1>8, <1>9
<1> QED BY <1>10, <1>11 DEF Quoted

IdentitiesFinite == IsFiniteSet(ledger.identities)

RepricedInv == Stamped /\ Countable /\ IdentitiesFinite

LEMMA IdentitiesStep ==
  ASSUME Stamped, IdentitiesFinite, [CycleNext]_cycleVars
  PROVE  IdentitiesFinite'
<1>1. CASE UNCHANGED ledger
  BY <1>1 DEF IdentitiesFinite
<1>2. ASSUME NEW field \in {"prices", "identities", "instruments"}, NEW row, Add(field, row)
      PROVE  IdentitiesFinite'
  <2>1. ledger'.identities \in {ledger.identities, ledger.identities \cup {row}}
    BY <1>2 DEF Add, Stamped
  <2> QED BY <2>1, FS_AddElement DEF IdentitiesFinite
<1>3. ASSUME NEW e, ImportPrice(e) \/ ImportIdentity(e) \/ ImportInstrument(e)
      PROVE  IdentitiesFinite'
  BY <1>2, <1>3 DEF ImportPrice, ImportIdentity, ImportInstrument
<1>4. CASE \/ UNCHANGED cycleVars \/ NewDay
           \/ \E e \in feed.observations : Fetch(e)
           \/ \E v \in pending : CommitVintage(v) \/ Lose(v)
           \/ \E c \in Cycles : TakeCutoff(c) \/ Score(c)
           \/ \E c \in Cycles, key \in feed.keys : Derive(c, key)
  BY <1>1, <1>4 DEF cycleVars, NewDay, Fetch, CommitVintage, Lose, TakeCutoff, Score, Derive
<1> QED BY <1>3, <1>4 DEF CycleNext

\* An import changes one of the tables that a contract comes of.
OneTable ==
  /\ ledger.prices \subseteq ledger'.prices
  /\ ledger.identities \subseteq ledger'.identities
  /\ ledger.instruments \subseteq ledger'.instruments
  /\ ledger'.identities = ledger.identities \/ ledger'.instruments = ledger.instruments

LEMMA OneTableStep ==
  ASSUME Stamped, [CycleNext]_cycleVars
  PROVE  OneTable
<1>1. CASE UNCHANGED ledger
  BY <1>1 DEF OneTable
<1>2. ASSUME NEW field \in {"prices", "identities", "instruments"}, NEW row, Add(field, row)
      PROVE  OneTable
  BY <1>2 DEF Add, Stamped, OneTable
<1>3. ASSUME NEW e, ImportPrice(e) \/ ImportIdentity(e) \/ ImportInstrument(e)
      PROVE  OneTable
  BY <1>2, <1>3 DEF ImportPrice, ImportIdentity, ImportInstrument
<1>4. CASE \/ UNCHANGED cycleVars \/ NewDay
           \/ \E e \in feed.observations : Fetch(e)
           \/ \E v \in pending : CommitVintage(v) \/ Lose(v)
           \/ \E c \in Cycles : TakeCutoff(c) \/ Score(c)
           \/ \E c \in Cycles, key \in feed.keys : Derive(c, key)
  BY <1>1, <1>4 DEF cycleVars, NewDay, Fetch, CommitVintage, Lose, TakeCutoff, Score, Derive
<1> QED BY <1>3, <1>4 DEF CycleNext

\* A curve of the present is of every price of its day and of all instruments.
WholeCurve(L, day, c) ==
  Quoted({Identified(p, L.identities) : p \in L.prices}, L.instruments, day, c)

LEMMA CurveNow ==
  ASSUME NEW V, NEW L, Bounded(V, L), NEW cutoff,
         \A p \in L.prices : p.fetched =< cutoff.at, \A i \in L.instruments : i.at =< cutoff.at,
         NEW day,
         ContractsForDate(KnownPrices(L.prices, L.identities, cutoff), day,
                          KnownInstruments(L.instruments, cutoff)) # None
  PROVE  \A c \in ContractsForDate(KnownPrices(L.prices, L.identities, cutoff), day,
                                   KnownInstruments(L.instruments, cutoff)) :
           WholeCurve(L, day, c)
<1> DEFINE known == KnownPrices(L.prices, L.identities, cutoff)
           register == KnownInstruments(L.instruments, cutoff)
           all == {Identified(p, L.identities) : p \in L.prices}
<1>1. IsFiniteSet(known) /\ IsRegister(register)
  BY KnownBounded
<1>2. register = L.instruments
  BY DEF KnownInstruments
<1>3. /\ known \subseteq all /\ \A p \in known : p.day =< cutoff.day
      /\ \A p \in all : p.day =< cutoff.day => p \in known
  <2>1. \A p \in L.prices : Identified(p, L.identities).day = p.day
    BY DEF Identified, WithIdentity
  <2> QED BY <2>1 DEF KnownPrices
<1> HIDE DEF known, register, all
<1>4. ASSUME NEW c \in ContractsForDate(known, day, register) PROVE Quoted(all, register, day, c)
  <2>1. Quoted(known, register, day, c)
    BY <1>1, <1>4, ContractQuoted DEF known, register
  <2>2. day =< cutoff.day
    BY <1>3, <2>1 DEF Quoted
  <2> QED BY <1>3, <2>1, <2>2 DEF Quoted
<1> QED BY <1>2, <1>4 DEF WholeCurve, known, register, all

LEMMA RepricedStep ==
  ASSUME RepricedInv, [CycleNext]_cycleVars, NEW day,
         NEW q \in Quotes(day), NEW r \in Quotes(day)', q[1] = r[1]
  PROVE  q = r
<1>1. /\ Stamped /\ Countable /\ Stamped' /\ Countable' /\ OneTable
      /\ IsFiniteSet(ledger'.identities)
  BY StampedNext, CountableStep, IdentitiesStep, OneTableStep DEF RepricedInv, IdentitiesFinite
<1> DEFINE before(p) == Identified(p, ledger.identities)
           after(p) == Identified(p, ledger'.identities)
<1>2. PICK c : /\ q = <<c.symbol, c.maturity, c.rate>>
               /\ Quoted({before(p) : p \in ledger.prices}, ledger.instruments, day, c)
  <2>1. PICK c \in ContractsNow(day) :
          ContractsNow(day) # None /\ q = <<c.symbol, c.maturity, c.rate>>
    BY DEF Quotes
  <2>2. /\ \A p \in ledger.prices : p.fetched =< Stamp.at
        /\ \A i \in ledger.instruments : i.at =< Stamp.at
    BY <1>1 DEF Stamped, Stamp
  <2>3. WholeCurve(ledger, day, c)
    BY <1>1, <2>1, <2>2, CurveNow DEF Countable, ContractsNow
  <2> QED BY <2>1, <2>3 DEF WholeCurve
<1>3. PICK d : /\ r = <<d.symbol, d.maturity, d.rate>>
               /\ Quoted({after(p) : p \in ledger'.prices}, ledger'.instruments, day, d)
  <2>1. PICK d \in ContractsNow(day)' :
          ContractsNow(day)' # None /\ r = <<d.symbol, d.maturity, d.rate>>
    BY DEF Quotes
  <2>2. /\ \A p \in ledger'.prices : p.fetched =< Stamp'.at
        /\ \A i \in ledger'.instruments : i.at =< Stamp'.at
    BY <1>1 DEF Stamped, Stamp
  <2>3. WholeCurve(ledger', day, d)
    BY <1>1, <2>1, <2>2, CurveNow DEF Countable, ContractsNow
  <2> QED BY <2>1, <2>3 DEF WholeCurve
<1>4. c.symbol = d.symbol
  BY <1>2, <1>3
<1>5. \A p : /\ before(p).day = p.day /\ before(p).symbol = p.symbol /\ before(p).rate = p.rate
             /\ after(p).day = p.day /\ after(p).symbol = p.symbol /\ after(p).rate = p.rate
  BY DEF Identified, WithIdentity
<1> HIDE DEF before, after
<1>6. PICK p \in ledger.prices : before(p).day = day /\ before(p).symbol = c.symbol
  BY <1>2 DEF Quoted
<1>7. /\ ~before(p).conflict /\ before(p).rate = c.rate
      /\ Eligible(c.symbol, before(p).security, day, ledger.instruments) # {}
      /\ \A i \in Eligible(c.symbol, before(p).security, day, ledger.instruments) :
           i.maturity = c.maturity
  BY <1>2, <1>6 DEF Quoted
<1>8. p \in ledger'.prices /\ after(p).day = day /\ after(p).symbol = d.symbol
  BY <1>1, <1>4, <1>5, <1>6 DEF OneTable
<1>9. /\ ~after(p).conflict /\ after(p).rate = d.rate
      /\ Eligible(c.symbol, after(p).security, day, ledger'.instruments) # {}
      /\ \A i \in Eligible(c.symbol, after(p).security, day, ledger'.instruments) :
           i.maturity = d.maturity
  BY <1>3, <1>4, <1>8 DEF Quoted
<1>10. before(p).security \in {None, after(p).security}
  BY <1>1, <1>7, <1>9, SecurityKept DEF OneTable, before, after
<1>11. \/ Eligible(c.symbol, before(p).security, day, ledger.instruments)
          \subseteq Eligible(c.symbol, after(p).security, day, ledger'.instruments)
       \/ Eligible(c.symbol, after(p).security, day, ledger'.instruments)
          \subseteq Eligible(c.symbol, before(p).security, day, ledger.instruments)
  <2>1. CASE ledger'.identities = ledger.identities
    <3>1. before(p).security = after(p).security
      BY <2>1 DEF before, after
    <3> QED BY <1>1, <3>1 DEF OneTable, Eligible, Candidates
  <2>2. CASE ledger'.instruments = ledger.instruments
    BY <1>10, <2>2 DEF Eligible, Candidates
  <2> QED BY <1>1, <2>1, <2>2 DEF OneTable
<1>12. c.maturity = d.maturity
  BY <1>7, <1>9, <1>11
<1> QED BY <1>2, <1>3, <1>4, <1>5, <1>7, <1>9, <1>12

(* An import never gives a contract of a rebuilt curve another maturity or    *)
(* another rate, whatever files of prices, of identities and of instruments   *)
(* arrive and in whatever order: what disagrees takes the curve away.        *)
THEOREM CurveNeverRepriced == CycleSpec => NeverRepriced
<1>1. CycleInit => RepricedInv
  <2> SUFFICES ASSUME CycleInit PROVE RepricedInv
    OBVIOUS
  <2>1. ledger.identities = {}
    BY DEF CycleInit
  <2> QED BY <2>1, StampedInit, CountableInit, FS_EmptySet DEF RepricedInv, IdentitiesFinite
<1>2. RepricedInv /\ [CycleNext]_cycleVars => RepricedInv'
  BY StampedNext, CountableStep, IdentitiesStep DEF RepricedInv
<1>3. RepricedInv /\ [CycleNext]_cycleVars =>
        [\A day \in PricedDays : \A q \in Quotes(day), r \in Quotes(day)' :
           q[1] = r[1] => q = r]_cycleVars
  BY RepricedStep
<1> QED BY <1>1, <1>2, <1>3, PTL DEF CycleSpec, NeverRepriced

----------------------------------------------------------------------------
(* What a derived result reads: rows that its cutoff knows.  The rows a       *)
(* builder picks are picked among finitely many, in the order of tuples.     *)

LEMMA TuplesInOrder ==
  ASSUME NEW n \in Nat, NEW a \in [1..n -> Int], NEW b \in [1..n -> Int], NEW c \in [1..n -> Int]
  PROVE  /\ ~Before(a, a)
         /\ Before(a, b) /\ Before(b, c) => Before(a, c)
<1>1. ~Before(a, a)
  BY DEF Before
<1>2. ASSUME Before(a, b), Before(b, c) PROVE Before(a, c)
  <2>1. PICK i \in 1..n : a[i] < b[i] /\ \A j \in 1..(i - 1) : a[j] = b[j]
    BY <1>2 DEF Before
  <2>2. PICK k \in 1..n : b[k] < c[k] /\ \A j \in 1..(k - 1) : b[j] = c[j]
    BY <1>2 DEF Before
  <2>3. \A j \in 1..n : a[j] \in Int /\ b[j] \in Int /\ c[j] \in Int
    OBVIOUS
  <2>4. CASE i =< k
    <3>1. a[i] < c[i] /\ \A j \in 1..(i - 1) : a[j] = c[j]
      <4>1. a[i] < b[i] /\ (b[i] = c[i] \/ b[i] < c[i])
        BY <2>1, <2>2, <2>4
      <4>2. \A j \in 1..(i - 1) : j \in 1..n /\ j \in 1..(k - 1)
        BY <2>4
      <4>3. a[i] < c[i]
        BY <2>3, <4>1
      <4> QED BY <2>1, <2>2, <4>2, <4>3
    <3> QED BY <3>1 DEF Before
  <2>5. CASE k < i
    <3>1. a[k] < c[k] /\ \A j \in 1..(k - 1) : a[j] = c[j]
      <4>1. a[k] = b[k] /\ b[k] < c[k]
        BY <2>1, <2>2, <2>5
      <4>2. \A j \in 1..(k - 1) : j \in 1..n /\ j \in 1..(i - 1)
        BY <2>5
      <4>3. a[k] < c[k]
        BY <2>3, <4>1
      <4> QED BY <2>1, <2>2, <4>2, <4>3
    <3> QED BY <3>1 DEF Before
  <2> QED BY <2>4, <2>5
<1> QED BY <1>1, <1>2

\* The greatest tuple of a finite set is one of its tuples.
LEMMA GreatestTuple ==
  ASSUME NEW S, IsFiniteSet(S), S # {}, NEW n \in Nat, NEW f,
         \A x \in S : f[x] \in [1..n -> Int]
  PROVE  \E x \in S : \A y \in S : ~Before(f[x], f[y])
<1> DEFINE R == {p \in S \X S : Before(f[p[2]], f[p[1]])}
<1>1. \A x, y \in S : <<x, y>> \in R <=> Before(f[y], f[x])
  OBVIOUS
<1> HIDE DEF R
<1>2. \A x \in S : <<x, x>> \notin R
  BY <1>1, TuplesInOrder
<1>3. \A x, y, z \in S : <<x, y>> \in R /\ <<y, z>> \in R => <<x, z>> \in R
  BY <1>1, TuplesInOrder
<1>4. PICK x \in S : \A y \in S : <<y, x>> \notin R
  BY <1>2, <1>3, LeastOf
<1> QED BY <1>1, <1>4

\* A finite set of vintages whose fields are numbers.
Rows(K) ==
  /\ IsFiniteSet(K)
  /\ \A v \in K : {v.period, v.dim, v.value, v.seen, AvailableAt(v)} \subseteq Int

LEMMA SomeRows ==
  ASSUME NEW K, Rows(K), NEW L \in SUBSET K
  PROVE  Rows(L)
BY FS_Subset DEF Rows

LEMMA PeriodsFinite ==
  ASSUME NEW K, Rows(K), K # {}
  PROVE  /\ Max({v.period : v \in K}) \in {v.period : v \in K}
         /\ Max({v.period : v \in K}) \in Int
         /\ \A v \in K : v.period =< Max({w.period : w \in K})
<1> DEFINE f == [v \in K |-> v.period]
           P == {v.period : v \in K}
<1>1. IsFiniteSet(P)
  <2>1. IsFiniteSet({f[v] : v \in K}) /\ P = {f[v] : v \in K}
    BY ImageFinite DEF Rows
  <2> QED BY <2>1
<1>2. P \in SUBSET Int /\ P # {}
  BY DEF Rows
<1>3. \A v \in K : v.period \in P
  OBVIOUS
<1> HIDE DEF P
<1>4. Max(P) \in P /\ \A x \in P : x =< Max(P)
  BY <1>1, <1>2, MaxChosen
<1> QED BY <1>2, <1>3, <1>4 DEF P

\* The inputs of a result.
LEMMA ResultInputs ==
  ASSUME NEW key, NEW value, NEW ref, NEW reason, NEW inputs
  PROVE  /\ Result(key, value, ref, reason, inputs).inputs = inputs
         /\ Unavailable(key, reason, ref, inputs).inputs = inputs
BY DEF Result, Unavailable

NewestKey(v) == <<v.period, AvailableAt(v), v.seen, -v.value>>

LEMMA NewestChosen ==
  ASSUME NEW K, Rows(K), K # {}
  PROVE  /\ Newest(K) \in K
         /\ \A v \in K : ~Before(NewestKey(Newest(K)), NewestKey(v))
<1> DEFINE f == [v \in K |-> NewestKey(v)]
<1>1. \A v \in K : f[v] = NewestKey(v) /\ f[v] \in [1..4 -> Int]
  BY DEF NewestKey, Rows
<1> HIDE DEF f
<1>2. PICK v \in K : \A u \in K : ~Before(f[v], f[u])
  BY <1>1, GreatestTuple DEF Rows
<1>3. \E v_1 \in K : \A u \in K : ~Before(NewestKey(v_1), NewestKey(u))
  BY <1>1, <1>2
<1>4. Newest(K) = CHOOSE v_1 \in K : \A u \in K : ~Before(NewestKey(v_1), NewestKey(u))
  BY DEF Newest, Top, NewestKey
<1> QED BY <1>3, <1>4

LEMMA CoverageReads ==
  ASSUME NEW idps, NEW accounts, Rows(idps), Rows(accounts),
         NEW i \in CoverageOf(idps, accounts).inputs
  PROVE  \/ idps # {} /\ i = <<Idp, Newest(idps)>> /\ i[2] \in idps
         \/ accounts # {} /\ i = <<Account, Newest(accounts)>> /\ i[2] \in accounts
<1> DEFINE inputs == (IF idps = {} THEN {} ELSE {<<Idp, Newest(idps)>>})
                     \cup (IF accounts = {} THEN {} ELSE {<<Account, Newest(accounts)>>})
           ref == AtMost(Newest(idps).period, Newest(accounts).period)
           value == (Scale * SgsValue(Newest(idps))) \div Abs(SgsValue(Newest(accounts)))
<1>1. CoverageOf(idps, accounts) \in
        {Unavailable(Coverage, "required_input_missing", None, inputs),
         Unavailable(Coverage, "reference_month_mismatch", ref, inputs),
         Unavailable(Coverage, "current_account_non_negative", ref, inputs),
         Result(Coverage, value, ref, None, inputs)}
  BY DEF CoverageOf
<1> HIDE DEF inputs, ref, value
<1>2. CoverageOf(idps, accounts).inputs = inputs
  BY <1>1, ResultInputs
<1>3. \/ idps # {} /\ i = <<Idp, Newest(idps)>>
      \/ accounts # {} /\ i = <<Account, Newest(accounts)>>
  BY <1>2 DEF inputs
<1> QED BY <1>3, NewestChosen

LEMMA SpreadReads ==
  ASSUME NEW credits, NEW all, Rows(credits), Rows(all), NEW i \in SpreadOf(credits, all).inputs
  PROVE  i[2] \in credits \cup all
<1> DEFINE credit == Newest(credits)
           selics == {v \in all : MonthOf(v.period) = MonthOf(credit.period)}
           selic == Newest(selics)
           reason == IF all = {} THEN "required_input_missing" ELSE "reference_month_mismatch"
<1>1. \/ SpreadOf(credits, all) = Unavailable(Spread, "required_input_missing", None, {})
      \/ /\ credits # {}
         /\ SpreadOf(credits, all)
            = Unavailable(Spread, reason, credit.period, {<<Credit, credit>>})
      \/ /\ credits # {} /\ selics # {}
         /\ SpreadOf(credits, all)
            = Result(Spread, credit.value - selic.value, credit.period, None,
                     {<<Credit, credit>>, <<Selic, selic>>})
  BY DEF SpreadOf
<1>2. credits # {} => credit \in credits
  BY NewestChosen
<1>3. selics # {} => selic \in all
  <2>1. selics \in SUBSET all
    OBVIOUS
  <2> HIDE DEF selics
  <2>2. Rows(selics)
    BY <2>1, SomeRows
  <2> QED BY <2>1, <2>2, NewestChosen
<1> HIDE DEF credit, selics, selic, reason
<1>4. \/ i = <<Credit, credit>> /\ credits # {}
      \/ i = <<Selic, selic>> /\ selics # {}
  BY <1>1, ResultInputs
<1> QED BY <1>2, <1>3, <1>4

LEMMA BalanceReads ==
  ASSUME NEW known, Rows(known), NEW i \in BalanceChangeOf(known).inputs
  PROVE  i[2] \in known
<1> DEFINE key(v) == <<AvailableAt(v), -v.seen, -v.value>>
           of(period) == Top({v \in known : v.period = period}, key)
           current == Max({v.period : v \in known})
           previous == current - YearMonths * MonthDays
<1>1. \/ BalanceChangeOf(known) = Unavailable(BalanceChange, "required_input_missing", None, {})
      \/ /\ known # {}
         /\ BalanceChangeOf(known)
            = Unavailable(BalanceChange, "primary_balance_previous_month_missing", current,
                          {<<"current_balance", of(current)>>})
      \/ /\ known # {} /\ previous \in {v.period : v \in known}
         /\ BalanceChangeOf(known)
            = Result(BalanceChange, SgsValue(of(current)) - SgsValue(of(previous)), current,
                     None, {<<"current_balance", of(current)>>, <<"previous_balance", of(previous)>>})
  BY DEF BalanceChangeOf
<1>2. ASSUME NEW period, period \in {v.period : v \in known} PROVE of(period) \in known
  <2> DEFINE S == {v \in known : v.period = period}
             f == [v \in S |-> key(v)]
  <2>1. IsFiniteSet(S) /\ S # {} /\ S \subseteq known
    BY <1>2, FS_Subset DEF Rows
  <2>2. \A v \in S : key(v) \in [1..3 -> Int]
    BY DEF Rows
  <2> HIDE DEF key
  <2>3. \A v \in S : f[v] = key(v)
    OBVIOUS
  <2>4. of(period) = CHOOSE v \in S : \A u \in S : ~Before(key(v), key(u))
    BY DEF Top
  <2> HIDE DEF S, of, f
  <2>5. PICK v \in S : \A u \in S : ~Before(f[v], f[u])
    <3>1. \A u \in S : f[u] \in [1..3 -> Int]
      BY <2>2, <2>3
    <3> QED BY <2>1, <3>1, GreatestTuple
  <2> QED BY <2>1, <2>3, <2>4, <2>5
<1>3. known # {} => current \in {v.period : v \in known}
  BY PeriodsFinite
<1> HIDE DEF of, current, previous
<1>4. \/ i[2] = of(current) /\ known # {}
      \/ i[2] = of(previous) /\ previous \in {v.period : v \in known}
  BY <1>1, ResultInputs
<1> QED BY <1>2, <1>3, <1>4

LEMMA LastPeriod ==
  ASSUME NEW K, Rows(K), K # {}
  PROVE  (CHOOSE v \in K : \A u \in K : u.period =< v.period) \in K
<1>1. \E v \in K : \A u \in K : u.period =< v.period
  BY PeriodsFinite
<1> QED BY <1>1

LEMMA TargetReads ==
  ASSUME NEW focuses, NEW targets, Rows(focuses),
         TargetDistanceOf(focuses, targets) # None,
         NEW i \in TargetDistanceOf(focuses, targets).inputs
  PROVE  i[2] \in focuses \cup targets
<1> DEFINE expected == CHOOSE v \in focuses : \A u \in focuses : u.period =< v.period
           latest == LatestRules(targets)
           applicable == {v \in latest : InForce(RuleOf(v), expected.period)}
           current == CurrentRuleAt(expected.period)
           observed == \E v \in targets, r \in current : RuleOf(v).rule = TargetRules[r].rule
           target == CHOOSE v \in applicable : TRUE
           why == IF current = {} \/ observed THEN "inflation_target_missing"
                  ELSE "input_not_available"
<1>1. \/ TargetDistanceOf(focuses, targets)
         = Unavailable(TargetDistance, "focus_12m_missing", None, {})
      \/ /\ focuses # {}
         /\ TargetDistanceOf(focuses, targets)
            = Unavailable(TargetDistance, why, expected.period,
                          {<<"expected_inflation", expected>>})
      \/ /\ focuses # {} /\ applicable # {}
         /\ TargetDistanceOf(focuses, targets)
            = Result(TargetDistance, expected.value - RuleOf(target).center, expected.period,
                     None, {<<"expected_inflation", expected>>, <<"inflation_target", target>>})
  BY DEF TargetDistanceOf
<1>2. focuses # {} => expected \in focuses
  BY LastPeriod
<1>3. applicable # {} => target \in targets
  <2>1. applicable \subseteq targets
    BY DEF LatestRules
  <2> HIDE DEF applicable
  <2> QED BY <2>1
<1> HIDE DEF expected, applicable, target, why
<1>4. \/ i[2] = expected /\ focuses # {}
      \/ i[2] = target /\ applicable # {}
  BY <1>1, ResultInputs
<1> QED BY <1>2, <1>3, <1>4

\* The contracts of a calculation's curve.
LEMMA CurveContracts ==
  ASSUME NEW K, Rows(K)
  PROVE  /\ IsFiniteSet(Contracts(K))
         /\ \A c \in Contracts(K) : c.day \in Int /\ c.maturity \in Int /\ c.vintage \in K
<1> DEFINE f == [v \in K |-> [day |-> v.period, maturity |-> v.dim, rate |-> v.value,
                              vintage |-> v]]
<1>1. Contracts(K) = {f[v] : v \in K}
  BY DEF Contracts
<1>2. \A v \in K : f[v].day \in Int /\ f[v].maturity \in Int /\ f[v].vintage = v
  BY DEF Rows
<1>3. DOMAIN f = K
  OBVIOUS
<1> HIDE DEF f
<1> QED BY <1>1, <1>2, <1>3, ImageFinite DEF Rows

\* What the curve's builders take of it.
IsCurve(contracts) ==
  IsFiniteSet(contracts) /\ \A c \in contracts : c.day \in Int /\ c.maturity \in Int

LEMMA LastDayOf ==
  ASSUME NEW contracts, IsCurve(contracts), contracts # {}
  PROVE  Max({c.day : c \in contracts}) \in Int
<1> DEFINE f == [c \in contracts |-> c.day]
<1>1. IsFiniteSet({f[c] : c \in contracts})
  BY ImageFinite DEF IsCurve
<1>2. {c.day : c \in contracts} = {f[c] : c \in contracts}
  OBVIOUS
<1>3. {c.day : c \in contracts} \in SUBSET Int /\ {c.day : c \in contracts} # {}
  BY DEF IsCurve
<1>4. Max({c.day : c \in contracts}) \in {c.day : c \in contracts}
  <2> DEFINE S == {c.day : c \in contracts}
  <2>1. S \in SUBSET Int /\ IsFiniteSet(S) /\ S # {}
    BY <1>1, <1>2, <1>3
  <2> HIDE DEF S
  <2>2. Max(S) \in S
    BY <2>1, MaxChosen
  <2> QED BY <2>2 DEF S
<1> QED BY <1>3, <1>4

LEMMA SlopeReads ==
  ASSUME NEW contracts, IsCurve(contracts), NEW i \in SlopeOfCurve(contracts).inputs
  PROVE  \E c \in contracts : i[2] = c.vintage
<1> DEFINE day == Max({c.day : c \in contracts})
           curve == {c \in contracts : c.day = day}
           one == ContractFor(curve, day, OneYear)
           five == ContractFor(curve, day, FiveYears)
<1>1. SlopeOfCurve(contracts) \in
        {Unavailable(Slope, "di_curve_missing", None, {}),
         Unavailable(Slope, "di_contract_outside_tolerance", day, {}),
         Unavailable(Slope, "di_contract_reused", day, {})}
      \/ /\ contracts # {} /\ one # None /\ five # None
         /\ SlopeOfCurve(contracts)
            = Result(Slope, five.rate - one.rate, day, None,
                     {<<"di_1y", one.vintage>>, <<"di_5y", five.vintage>>})
  BY DEF SlopeOfCurve, SlopeOn, SlopeOf
<1>2. contracts # {} => one \in curve \cup {None} /\ five \in curve \cup {None}
  <2> SUFFICES ASSUME contracts # {} PROVE one \in curve \cup {None} /\ five \in curve \cup {None}
    OBVIOUS
  <2>1. day \in Int
    BY LastDayOf
  <2>2. IsFiniteSet(curve) /\ \A c \in curve : c.maturity \in Int
    BY FS_Subset DEF IsCurve
  <2> HIDE DEF day, curve
  <2> QED BY <2>1, <2>2, ContractForChosen, CalendarAssumption
<1>3. curve \subseteq contracts
  OBVIOUS
<1> HIDE DEF day, curve, one, five
<1>4. /\ contracts # {} /\ one # None /\ five # None
      /\ i[2] = one.vintage \/ i[2] = five.vintage
  BY <1>1, ResultInputs
<1> QED BY <1>2, <1>3, <1>4

LEMMA RealRateReads ==
  ASSUME NEW focuses, Rows(focuses), NEW contracts, IsCurve(contracts),
         NEW i \in RealRateOf(focuses, contracts).inputs
  PROVE  i[2] \in focuses \/ \E c \in contracts : i[2] = c.vintage
<1> DEFINE ref == AtMost(Max({c.day : c \in contracts}), Max({v.period : v \in focuses}))
           usable == {v \in focuses : v.period =< ref}
           expected == CHOOSE v \in usable : \A u \in usable : u.period =< v.period
           days == {d \in {c.day : c \in contracts} : d =< ref}
           curve == {c \in contracts : c.day = Max(days)}
           di == ContractFor(curve, ref, OneYear)
           focus == {<<"expected_inflation", expected>>}
           inputs == focus \cup {<<"nominal_rate", di.vintage>>}
           rate == Fisher(di.rate, expected.value, Scale)
           why == IF rate = None THEN "non_finite_result" ELSE None
<1>1. \/ RealRateOf(focuses, contracts) \in
           {Unavailable(RealRate, "focus_12m_missing", None, {}),
            Unavailable(RealRate, "di_curve_missing", None, {}),
            Unavailable(RealRate, "focus_12m_missing", ref, {})}
      \/ /\ usable # {}
         /\ RealRateOf(focuses, contracts) \in
              {Unavailable(RealRate, "di_curve_missing", ref, focus),
               Unavailable(RealRate, "di_contract_outside_tolerance", ref, focus)}
      \/ /\ focuses # {} /\ contracts # {} /\ usable # {} /\ di # None
         /\ RealRateOf(focuses, contracts) = Result(RealRate, rate, ref, why, inputs)
  BY DEF RealRateOf
<1>2. usable # {} => expected \in focuses
  <2>1. usable \in SUBSET focuses
    OBVIOUS
  <2> HIDE DEF usable
  <2> QED BY <2>1, SomeRows, LastPeriod
<1>3. focuses # {} /\ contracts # {} => di \in contracts \cup {None}
  <2> SUFFICES ASSUME focuses # {}, contracts # {} PROVE di \in contracts \cup {None}
    OBVIOUS
  <2>1. ref \in Int
    <3>1. Max({c.day : c \in contracts}) \in Int
      BY LastDayOf
    <3>2. Max({v.period : v \in focuses}) \in Int
      BY PeriodsFinite
    <3> QED BY <3>1, <3>2 DEF AtMost
  <2>2. curve \subseteq contracts
    OBVIOUS
  <2> HIDE DEF ref, curve
  <2>3. IsFiniteSet(curve) /\ \A c \in curve : c.maturity \in Int
    BY <2>2, FS_Subset DEF IsCurve
  <2> QED BY <2>1, <2>2, <2>3, ContractForChosen, CalendarAssumption
<1> HIDE DEF ref, usable, expected, days, curve, di, rate, why
<1>4. \/ i[2] = expected /\ usable # {}
      \/ i[2] = di.vintage /\ focuses # {} /\ contracts # {} /\ di # None
  BY <1>1, ResultInputs
<1> QED BY <1>2, <1>3, <1>4

\* Every result reads what its cutoff knows.
LEMMA ResultReads ==
  ASSUME NEW V, Rows(V), NEW L, NEW H, NEW cutoff, NEW key \in DerivedKeys,
         DerivedResult(key, V, L, H, cutoff) # None,
         NEW i \in DerivedResult(key, V, L, H, cutoff).inputs
  PROVE  i[2] \in V /\ AvailableAt(i[2]) =< cutoff.at
<1> DEFINE K == {v \in V : AvailableAt(v) =< cutoff.at}
<1> SUFFICES i[2] \in K
  OBVIOUS
<1>1. ASSUME NEW series PROVE Known(V, series, cutoff) \in SUBSET K /\ Rows(Known(V, series, cutoff))
  BY SomeRows DEF Known
<1>2. ASSUME NEW series
      PROVE  /\ LastRevisions(Known(V, series, cutoff)) \in SUBSET K
             /\ Rows(LastRevisions(Known(V, series, cutoff)))
  BY <1>1, SomeRows DEF LastRevisions
<1>3. IsCurve(Curve(V, cutoff)) /\ \A c \in Curve(V, cutoff) : c.vintage \in K
  BY <1>2, CurveContracts DEF Curve, IsCurve
<1> HIDE DEF K
<1>4. CASE key = RealRate
  <2>1. PICK value, ref, reason, inputs :
          RealRateResult(V, cutoff) = Result(RealRate, value, ref, reason, inputs)
    BY RealRateIsResult DEF RealRateResult
  <2>2. \A chosen : Ranked(RealRateResult(V, cutoff), chosen, cutoff).inputs
                    = RealRateResult(V, cutoff).inputs
    BY <2>1 DEF Ranked, Result
  <2>3. i \in RealRateResult(V, cutoff).inputs
    BY <1>4, <2>2, ResultChosen DEF Classified
  <2> QED BY <1>2, <1>3, <2>3, RealRateReads DEF RealRateResult
<1>5. CASE key = Coverage
  <2>1. i \in CoverageOf(Known(V, Idp, cutoff), Known(V, Account, cutoff)).inputs
    BY <1>5, ResultChosen DEF CoverageResult
  <2> QED BY <1>1, <2>1, CoverageReads
<1>6. CASE key = BalanceChange
  <2>1. i \in BalanceChangeOf(Known(V, Balance, cutoff)).inputs
    BY <1>6, ResultChosen DEF BalanceChangeResult
  <2> QED BY <1>1, <2>1, BalanceReads
<1>7. CASE key = Spread
  <2>1. i \in SpreadOf(Known(V, Credit, cutoff), Known(V, Selic, cutoff)).inputs
    BY <1>7, ResultChosen DEF SpreadResult
  <2> QED BY <1>1, <2>1, SpreadReads
<1>8. CASE key = TargetDistance
  <2> DEFINE focuses == LastRevisions(Known(V, Focus, cutoff))
             targets == Known(V, Target, cutoff)
  <2>1. i \in TargetDistanceOf(focuses, targets).inputs /\ TargetDistanceOf(focuses, targets) # None
    BY <1>8, ResultChosen DEF TargetDistanceResult
  <2>2. Rows(focuses) /\ focuses \subseteq K /\ targets \subseteq K
    BY <1>1, <1>2
  <2> HIDE DEF focuses, targets
  <2> QED BY <2>1, <2>2, TargetReads
<1>9. CASE key = Slope
  <2>1. i \in SlopeOfCurve(Curve(V, cutoff)).inputs
    BY <1>9, ResultChosen DEF SlopeResult
  <2> QED BY <1>3, <2>1, SlopeReads
<1> QED BY <1>4, <1>5, <1>6, <1>7, <1>8, <1>9 DEF DerivedKeys

----------------------------------------------------------------------------
(* NoResurrection: the newest snapshot of a reference is chosen before its    *)
(* value is asked for.                                                       *)

LEMMA ComponentScored ==
  ASSUME NEW V, NEW H, NEW L, NEW cutoff, NEW cycle, NEW c \in Components
  PROVE  ScoreResult(V, H, L, cutoff, cycle).components[c.key]
         = ComponentScore(c, Series(V, H, c, cutoff, cycle), OverlayAt(V, L, cutoff))
<1> DEFINE Of(k) == CHOOSE d \in Components : d.key = k
           Score_(k) == ComponentScore(Of(k), Series(V, H, Of(k), cutoff, cycle),
                                       OverlayAt(V, L, cutoff))
           normalized == [k \in {d.key : d \in Components} |-> Score_(k)]
<1>1. ScoreResult(V, H, L, cutoff, cycle) = Scored(normalized)
  BY DEF ScoreResult, ScoreOn, OverlayAt
<1>2. Of(c.key) = c
  BY ComponentsAssumption
<1> HIDE DEF Of
<1>3. normalized[c.key] = Score_(c.key)
  OBVIOUS
<1> HIDE DEF normalized
<1>4. Scored(normalized).components = normalized
  BY DEF Scored, TotalsOf, Totals
<1> QED BY <1>1, <1>2, <1>3, <1>4

LEMMA SnapshotsRead ==
  ASSUME NEW H, NEW c, NEW cutoff, NEW cycle, NEW overlay, NEW V, c.kind = "snapshot"
  PROVE  LET scored == ComponentScore(c, Series(V, H, c, cutoff, cycle), overlay)
             series == SnapshotSeries(H, c, cutoff, cycle)
         IN  /\ scored.current = series.current
             /\ scored.history = Overlaid(c.key, series.history, overlay)
<1>1. Series(V, H, c, cutoff, cycle) = SnapshotSeries(H, c, cutoff, cycle)
  BY DEF Series
<1>2. PICK current, history, reason :
        SnapshotSeries(H, c, cutoff, cycle)
        = [current |-> current, history |-> history, reason |-> reason]
  BY DEF SnapshotSeries, SeriesOfSnapshots
<1>3. \A series : /\ Normalized(c, series).current = series.current
                  /\ Normalized(c, series).history = series.history
  BY DEF Normalized
<1>4. ComponentScore(c, Series(V, H, c, cutoff, cycle), overlay)
      = Normalized(c, [current |-> current, history |-> Overlaid(c.key, history, overlay),
                       reason |-> reason])
  BY <1>1, <1>2 DEF ComponentScore
<1> QED BY <1>2, <1>3, <1>4

\* A point that was not rebuilt is of a snapshot.
LEMMA ForwardPoint ==
  ASSUME NEW key, NEW history, NEW overlay, NEW point \in Overlaid(key, history, overlay),
         \A i \in point.inputs : i[1] # Rebuilt
  PROVE  point \in history
<1> SUFFICES ASSUME point \notin history PROVE FALSE
  OBVIOUS
<1>1. PICK o : point = [value |-> o[3].value, reference |-> FirstDay(o[2]),
                        inputs |-> {<<Rebuilt, o[3]>>}]
  BY DEF Overlaid
<1>2. <<Rebuilt, o[3]>> \in point.inputs
  BY <1>1
<1> QED BY <1>2

SnapshotPair(s) == SnapshotKey(s) \in [1..2 -> Int]

\* The newest of a set of snapshots.
LEMMA TopSnapshot ==
  ASSUME NEW S, IsFiniteSet(S), S # {}, \A s \in S : SnapshotPair(s)
  PROVE  /\ Top(S, SnapshotKey) \in S
         /\ \A s \in S : ~Before(SnapshotKey(Top(S, SnapshotKey)), SnapshotKey(s))
<1> DEFINE f == [s \in S |-> SnapshotKey(s)]
<1>1. \A s \in S : f[s] = SnapshotKey(s) /\ f[s] \in [1..2 -> Int]
  BY DEF SnapshotPair
<1> HIDE DEF f
<1>2. PICK s \in S : \A u \in S : ~Before(f[s], f[u])
  BY <1>1, GreatestTuple
<1>3. \E s_1 \in S : \A u \in S : ~Before(SnapshotKey(s_1), SnapshotKey(u))
  BY <1>1, <1>2
<1> QED BY <1>3 DEF Top

\* A point of the history is of the newest snapshot of its reference.
LEMMA HistoryNewest ==
  ASSUME NEW found, IsFiniteSet(found), \A s \in found : SnapshotPair(s),
         NEW c, NEW cutoff, NEW point \in SnapshotHistory(found, c, cutoff)
  PROVE  \E t \in found :
           /\ t.ref = point.ref /\ t.value = point.value /\ t.value # None
           /\ \A s \in found : s.ref = point.ref => ~Before(SnapshotKey(t), SnapshotKey(s))
<1> DEFINE windowed == {s \in found : s.ref # None /\ MonthOf(s.ref) \in WindowOf(cutoff)}
           of(s) == {t \in windowed : t.ref = s.ref}
<1>0. PICK r \in windowed : /\ Top(of(r), SnapshotKey).value # None
                            /\ point = SnapshotPoint(Top(of(r), SnapshotKey))
  BY DEF SnapshotHistory
<1>1. PICK t : t = Top(of(r), SnapshotKey) /\ t.value # None /\ point = SnapshotPoint(t)
  BY <1>0
<1>2. point.ref = t.ref /\ point.value = t.value
  BY <1>1 DEF SnapshotPoint, Point
<1>3. of(r) \subseteq found /\ of(r) # {}
  OBVIOUS
<1>4. t \in of(r) /\ \A s \in of(r) : ~Before(SnapshotKey(t), SnapshotKey(s))
  <2> HIDE DEF of
  <2>1. IsFiniteSet(of(r)) /\ \A s \in of(r) : SnapshotPair(s)
    BY <1>3, FS_Subset
  <2> QED BY <1>1, <1>3, <2>1, TopSnapshot
<1>5. \A s \in found : s.ref = t.ref => s \in of(r)
  BY <1>4
<1> QED BY <1>1, <1>2, <1>3, <1>4, <1>5

----------------------------------------------------------------------------
Numbered == \A v \in pending \cup vintages : {v.period, v.dim, v.value} \subseteq Int

\* What a snapshot was computed from was known at its cutoff.
NoneForeseen == \A s \in derived : \A i \in s.inputs : AvailableAt(i[2]) =< s.asOf.at

SnapshotsApart ==
  /\ IsFiniteSet(derived)
  /\ \A s, t \in derived : s.created = t.created => s = t

ForwardInv == Stamped /\ Countable /\ Numbered /\ SnapshotsApart /\ NoneForeseen

LEMMA NumberedStep ==
  ASSUME Stamped, Numbered, [CycleNext]_cycleVars
  PROVE  Numbered'
<1>1. CASE UNCHANGED <<pending, vintages>>
  BY <1>1 DEF Numbered
<1>2. ASSUME NEW e \in feed.observations, Fetch(e) PROVE Numbered'
  <2>1. pending' = pending \cup {Row(e, now, 0)} /\ vintages' = vintages
    BY <1>2 DEF Fetch
  <2>2. /\ Row(e, now, 0).period = e.period /\ Row(e, now, 0).dim = e.dim
        /\ Row(e, now, 0).value = e.value
    BY DEF Row
  <2>3. {e.period, e.dim, e.value} \subseteq Int
    BY FeedsAssumption DEF Stamped
  <2> QED BY <2>1, <2>2, <2>3 DEF Numbered
<1>3. ASSUME NEW v \in pending, CommitVintage(v) PROVE Numbered'
  <2> DEFINE w == [v EXCEPT !.id = now]
  <2>1. pending' \subseteq pending /\ vintages' \subseteq vintages \cup {w}
    BY <1>3 DEF CommitVintage, WithVintage
  <2>2. w.period = v.period /\ w.dim = v.dim /\ w.value = v.value
    <3>1. IsRow(v)
      BY DEF Stamped
    <3> QED BY <3>1 DEF IsRow
  <2> HIDE DEF w
  <2> QED BY <2>1, <2>2 DEF Numbered
<1>4. ASSUME NEW v \in pending, Lose(v) PROVE Numbered'
  BY <1>4 DEF Lose, Numbered
<1>5. CASE \/ UNCHANGED cycleVars \/ NewDay
           \/ \E e \in feed.prices : ImportPrice(e)
           \/ \E e \in feed.identities : ImportIdentity(e)
           \/ \E e \in feed.instruments : ImportInstrument(e)
           \/ \E c \in Cycles : TakeCutoff(c) \/ Score(c)
           \/ \E c \in Cycles, key \in feed.keys : Derive(c, key)
  BY <1>1, <1>5 DEF cycleVars, NewDay, ImportPrice, ImportIdentity, ImportInstrument, Add,
                    TakeCutoff, Score, Derive
<1> QED BY <1>2, <1>3, <1>4, <1>5 DEF CycleNext

LEMMA VintagesAreRows ==
  ASSUME Stamped, Countable, Numbered
  PROVE  Rows(vintages)
<1>1. \A v \in vintages : AvailableAt(v) = v.seen /\ v.seen \in Int
  <2> TAKE v \in vintages
  <2>1. IsRow(v) /\ v.seen \in Nat
    BY DEF Stamped
  <2>2. v.published = None
    BY <2>1 DEF IsRow
  <2> QED BY <2>1, <2>2 DEF AvailableAt
<1> QED BY <1>1 DEF Numbered, Countable, Bounded, Rows

\* A step stores one snapshot or none.
LEMMA StepsDerive ==
  ASSUME Stamped, [CycleNext]_cycleVars
  PROVE  \/ UNCHANGED derived
         \/ \E c \in Cycles, key \in feed.keys : Derive(c, key)
BY DEF CycleNext, cycleVars, NewDay, Fetch, CommitVintage, Lose, ImportPrice, ImportIdentity,
       ImportInstrument, Add, TakeCutoff, Score

LEMMA ForwardNext ==
  ASSUME ForwardInv, [CycleNext]_cycleVars
  PROVE  ForwardInv'
<1>1. Stamped' /\ Countable' /\ Numbered'
  BY StampedNext, CountableStep, NumberedStep DEF ForwardInv
<1>2. CASE UNCHANGED derived
  BY <1>1, <1>2 DEF ForwardInv, SnapshotsApart, NoneForeseen
<1>3. ASSUME NEW c \in Cycles, NEW key \in feed.keys, Derive(c, key) PROVE ForwardInv'
  <2>1. Stamped /\ Rows(vintages)
    BY VintagesAreRows DEF ForwardInv
  <2>2. PICK s : /\ derived' = derived \cup {s} /\ s.asOf = cutoffs[c] /\ s.created = now
                 /\ key \in DerivedKeys
                 /\ s.inputs = DerivedResult(key, vintages, ledger, derived, cutoffs[c]).inputs
    BY <1>3, <2>1, DeriveStores
  <2>3. DerivedResult(key, vintages, ledger, derived, cutoffs[c]) # None
    BY <1>3 DEF Derive
  <2>4. \A i \in s.inputs : AvailableAt(i[2]) =< s.asOf.at
    BY <2>1, <2>2, <2>3, ResultReads
  <2>5. \A t \in derived : t.created # now
    BY <2>1 DEF Stamped
  <2>6. IsFiniteSet(derived')
    BY <2>2, FS_AddElement DEF ForwardInv, SnapshotsApart
  <2> QED BY <1>1, <2>2, <2>4, <2>5, <2>6 DEF ForwardInv, SnapshotsApart, NoneForeseen
<1> QED BY <1>2, <1>3, StepsDerive DEF ForwardInv

LEMMA ForwardInit ==
  ASSUME CycleInit PROVE ForwardInv
<1>1. derived = {} /\ pending = {} /\ vintages = {Row(e, 0, 0) : e \in feed.known} /\ feed \in Feeds
  BY DEF CycleInit
<1>2. Numbered
  <2>1. \A e : /\ Row(e, 0, 0).period = e.period /\ Row(e, 0, 0).dim = e.dim
               /\ Row(e, 0, 0).value = e.value
    BY DEF Row
  <2>2. \A e \in feed.known : {e.period, e.dim, e.value} \subseteq Int
    BY <1>1, FeedsAssumption
  <2> QED BY <1>1, <2>1, <2>2 DEF Numbered
<1> QED BY <1>1, <1>2, StampedInit, CountableInit, FS_EmptySet
    DEF ForwardInv, SnapshotsApart, NoneForeseen

(* No look-ahead: whatever becomes visible late, whatever is computed again,  *)
(* an indicator is computed from rows that were available at its cutoff.     *)
THEOREM NothingForeseen == CycleSpec => []NoneForeseen
<1>1. CycleInit => ForwardInv
  BY ForwardInit
<1>2. ForwardInv /\ [CycleNext]_cycleVars => ForwardInv'
  BY ForwardNext
<1>3. ForwardInv => NoneForeseen
  BY DEF ForwardInv
<1> QED BY <1>1, <1>2, <1>3, PTL DEF CycleSpec

\* What NoResurrection says of one score.
NotResurrected(p) ==
  \A c \in Components : c.kind = "snapshot" =>
    \A point \in p.components[c.key].history : \A s \in derived :
      (/\ \A i \in point.inputs : i[1] # Rebuilt
       /\ s.key = c.key /\ s.ref = point.ref /\ s.value = None
       /\ s.created =< p.asOf.at)
      => \E t \in derived : /\ t.key = c.key /\ t.ref = point.ref /\ t.value = point.value
                            /\ SnapshotKey(t) # SnapshotKey(s)
                            /\ ~Before(SnapshotKey(t), SnapshotKey(s))
                            /\ t.created =< p.calculated

\* A snapshot of before the cutoff is one that the score reads.
LEMMA ReadsEarlier ==
  ASSUME ForwardInv, NEW s \in derived, NEW cutoff, cutoff.at \in Nat, s.created =< cutoff.at,
         NEW cycle
  PROVE  IsForward(s, cutoff, cycle)
<1>1. /\ s.asOf.at \in Nat /\ s.created \in Nat /\ s.asOf.at < s.created
      /\ \A i \in s.inputs : AvailableAt(i[2]) =< s.asOf.at
  BY DEF ForwardInv, Stamped, NoneForeseen
<1>2. s.asOf.at =< s.created /\ s.asOf.at =< cutoff.at
  BY <1>1
<1> QED BY <1>1, <1>2 DEF IsForward

LEMMA SnapshotsPaired ==
  ASSUME Stamped, NEW s \in derived
  PROVE  SnapshotPair(s)
<1>1. s.asOf.at \in Int /\ s.created \in Int
  BY DEF Stamped
<1> QED BY <1>1 DEF SnapshotPair, SnapshotKey

LEMMA ScoreFaithful ==
  ASSUME ForwardInv, NEW p, NEW cycle, p.asOf.at \in Nat, p.calculated = now,
         p.components = ScoreResult(vintages, derived, ledger, p.asOf, cycle).components
  PROVE  NotResurrected(p)
<1> SUFFICES ASSUME NEW c \in Components, c.kind = "snapshot",
                    NEW point \in p.components[c.key].history, NEW s \in derived,
                    \A i \in point.inputs : i[1] # Rebuilt,
                    s.key = c.key, s.ref = point.ref, s.value = None, s.created =< p.asOf.at
             PROVE  \E t \in derived :
                      /\ t.key = c.key /\ t.ref = point.ref /\ t.value = point.value
                      /\ SnapshotKey(t) # SnapshotKey(s)
                      /\ ~Before(SnapshotKey(t), SnapshotKey(s))
                      /\ t.created =< p.calculated
  BY DEF NotResurrected
<1> DEFINE found == {d \in derived : d.key = c.key /\ IsForward(d, p.asOf, cycle)}
<1>1. /\ Stamped /\ IsFiniteSet(derived)
      /\ \A t, u \in derived : t.created = u.created => t = u
  BY DEF ForwardInv, SnapshotsApart
<1>2. p.components[c.key].history
      = Overlaid(c.key, SnapshotSeries(derived, c, p.asOf, cycle).history,
                 OverlayAt(vintages, ledger, p.asOf))
  BY ComponentScored, SnapshotsRead
<1>3. point \in SnapshotSeries(derived, c, p.asOf, cycle).history
  BY <1>2, ForwardPoint
<1>4. SnapshotSeries(derived, c, p.asOf, cycle).history = SnapshotHistory(found, c, p.asOf)
  BY DEF SnapshotSeries, SeriesOfSnapshots
<1>5. IsFiniteSet(found) /\ \A d \in found : SnapshotPair(d)
  BY <1>1, FS_Subset, SnapshotsPaired
<1>6. s \in found
  BY ReadsEarlier
<1>7. found \subseteq derived /\ \A d \in found : d.key = c.key
  OBVIOUS
<1> HIDE DEF found
<1>8. PICK t \in found :
        /\ t.ref = point.ref /\ t.value = point.value /\ t.value # None
        /\ \A d \in found : d.ref = point.ref => ~Before(SnapshotKey(t), SnapshotKey(d))
  BY <1>3, <1>4, <1>5, HistoryNewest
<1>9. SnapshotKey(t) # SnapshotKey(s)
  <2>1. t.created # s.created
    BY <1>1, <1>6, <1>7, <1>8
  <2>2. SnapshotKey(t)[2] = t.created /\ SnapshotKey(s)[2] = s.created
    BY DEF SnapshotKey
  <2> QED BY <2>1, <2>2
<1>10. t.created =< p.calculated
  BY <1>1, <1>7 DEF Stamped
<1> QED BY <1>6, <1>7, <1>8, <1>9, <1>10

LEMMA ResurrectionNext ==
  ASSUME ForwardInv, ForwardInv', NoResurrection, [CycleNext]_cycleVars
  PROVE  NoResurrection'
<1>1. /\ Stamped /\ Stamped'
      /\ \A p \in scores : NotResurrected(p) /\ p.asOf.at \in Nat /\ p.asOf.at < now
  BY DEF ForwardInv, NoResurrection, NotResurrected, Stamped
<1>2. \/ UNCHANGED derived
      \/ \E s : derived' = derived \cup {s} /\ s.created = now
  BY <1>1, StepsDerive, DeriveStores
<1>3. ASSUME NEW p \in scores PROVE NotResurrected(p)'
  <2>1. CASE UNCHANGED derived
    BY <1>1, <1>3, <2>1 DEF NotResurrected
  <2>2. ASSUME NEW n, derived' = derived \cup {n}, n.created = now PROVE NotResurrected(p)'
    <3>1. ~(n.created =< p.asOf.at)
      BY <1>1, <1>3, <2>2 DEF Stamped
    <3> QED BY <1>1, <1>3, <2>2, <3>1 DEF NotResurrected
  <2> QED BY <1>2, <2>1, <2>2
<1>4. CASE UNCHANGED scores
  BY <1>3, <1>4 DEF NoResurrection, NotResurrected
<1>5. ASSUME NEW c \in Cycles, Score(c) PROVE NoResurrection'
  <2>1. PICK n : /\ scores' = scores \cup {n} /\ n.asOf = cutoffs[c] /\ n.calculated = now
                 /\ n.asOf.at \in Nat
                 /\ n.components = ScoreResult(vintages, derived, ledger, cutoffs[c], c).components
    BY <1>1, <1>5, ScoreStores
  <2>2. NotResurrected(n)
    BY <2>1, ScoreFaithful
  <2>3. NotResurrected(n)'
    BY <1>5, <2>2 DEF Score, NotResurrected
  <2> QED BY <1>3, <2>1, <2>3 DEF NoResurrection, NotResurrected
<1>6. CASE \/ UNCHANGED cycleVars \/ NewDay
           \/ \E e \in feed.observations : Fetch(e)
           \/ \E v \in pending : CommitVintage(v) \/ Lose(v)
           \/ \E e \in feed.prices : ImportPrice(e)
           \/ \E e \in feed.identities : ImportIdentity(e)
           \/ \E e \in feed.instruments : ImportInstrument(e)
           \/ \E c \in Cycles : TakeCutoff(c)
           \/ \E c \in Cycles, key \in feed.keys : Derive(c, key)
  BY <1>4, <1>6 DEF cycleVars, NewDay, Fetch, CommitVintage, Lose, ImportPrice, ImportIdentity,
                    ImportInstrument, Add, TakeCutoff, Derive
<1> QED BY <1>5, <1>6 DEF CycleNext

(* A score never goes back to an earlier value of a reference that was found  *)
(* to have none by its cutoff, for any overlap of cycles, of retries and of   *)
(* months of the reference history.                                          *)
THEOREM NothingResurrected == CycleSpec => []NoResurrection
<1>1. CycleInit => ForwardInv /\ NoResurrection
  <2> SUFFICES ASSUME CycleInit PROVE ForwardInv /\ NoResurrection
    OBVIOUS
  <2>1. scores = {}
    BY DEF CycleInit
  <2> QED BY <2>1, ForwardInit DEF NoResurrection
<1>2. ForwardInv /\ NoResurrection /\ [CycleNext]_cycleVars => ForwardInv' /\ NoResurrection'
  BY ForwardNext, ResurrectionNext
<1> QED BY <1>1, <1>2, PTL DEF CycleSpec

----------------------------------------------------------------------------
(* SameRevision: a level takes the last revision of its newest period, the    *)
(* external coverage the newest row.  They are one row, since every revision  *)
(* of an observation has an instant of its own and no row is of the future.  *)

LEMMA TupleHead ==
  ASSUME NEW n \in Nat, 2 =< n, NEW a \in [1..n -> Int], NEW b \in [1..n -> Int]
  PROVE  /\ ~Before(a, b) => b[1] =< a[1] /\ (b[1] = a[1] => b[2] =< a[2])
         /\ b[1] < a[1] => ~Before(a, b)
<1>1. 1 \in 1..n /\ 2 \in 1..n /\ DOMAIN a = 1..n
  OBVIOUS
<1>2. a[1] \in Int /\ a[2] \in Int /\ b[1] \in Int /\ b[2] \in Int
  BY <1>1
<1>3. a[1] < b[1] => Before(a, b)
  <2>1. \A j \in 1..(1 - 1) : a[j] = b[j]
    OBVIOUS
  <2> QED BY <1>1, <2>1 DEF Before
<1>4. a[1] = b[1] /\ a[2] < b[2] => Before(a, b)
  <2>1. \A j \in 1..(2 - 1) : j = 1
    OBVIOUS
  <2> QED BY <1>1, <2>1 DEF Before
<1>5. b[1] < a[1] => ~Before(a, b)
  <2> SUFFICES ASSUME b[1] < a[1], NEW i \in 1..n, a[i] < b[i], \A j \in 1..(i - 1) : a[j] = b[j]
               PROVE  FALSE
    BY <1>1 DEF Before
  <2>1. i # 1
    BY <1>2
  <2>2. 1 \in 1..(i - 1)
    BY <2>1
  <2> QED BY <1>2, <2>2
<1> QED BY <1>2, <1>3, <1>4, <1>5

LEMMA KeyHeads ==
  /\ \A a, b \in [1..3 -> Int] : /\ ~Before(a, b) => b[1] =< a[1]
                                 /\ b[1] < a[1] => ~Before(a, b)
  /\ \A a, b \in [1..4 -> Int] :
       ~Before(a, b) => b[1] =< a[1] /\ (b[1] = a[1] => b[2] =< a[2])
<1>1. 3 \in Nat /\ 4 \in Nat /\ 2 =< 3 /\ 2 =< 4
  OBVIOUS
<1>2. ASSUME NEW n \in Nat, 2 =< n, NEW a \in [1..n -> Int], NEW b \in [1..n -> Int]
      PROVE  /\ ~Before(a, b) => b[1] =< a[1] /\ (b[1] = a[1] => b[2] =< a[2])
             /\ b[1] < a[1] => ~Before(a, b)
  BY <1>2, TupleHead
<1> QED BY <1>1, <1>2

LEMMA MonthsInOrder ==
  ASSUME NEW a \in Int, NEW b \in Int, a =< b
  PROVE  MonthOf(a) =< MonthOf(b)
<1>1. MonthDays \in Nat \ {0}
  BY CalendarAssumption
<1> DEFINE q == a \div MonthDays
           r == b \div MonthDays
<1>2. /\ q \in Int /\ r \in Int
      /\ a = MonthDays * q + (a % MonthDays) /\ b = MonthDays * r + (b % MonthDays)
      /\ a % MonthDays \in 0..(MonthDays - 1) /\ b % MonthDays \in 0..(MonthDays - 1)
  BY <1>1
<1> HIDE DEF q, r
<1>3. ASSUME r < q PROVE FALSE
  <2>1. r + 1 =< q
    BY <1>2, <1>3
  <2>2. MonthDays * (r + 1) =< MonthDays * q
    BY <1>1, <1>2, <2>1
  <2>3. MonthDays * (r + 1) = MonthDays * r + MonthDays
    BY <1>1, <1>2
  <2> QED BY <1>1, <1>2, <2>2, <2>3
<1>4. q =< r
  BY <1>2, <1>3
<1> QED BY <1>4 DEF MonthOf, q, r

\* A ledger in which the last revision is one row.
Revised(V) ==
  /\ Rows(V) /\ \A v \in V : AvailableAt(v) = v.seen
  /\ \A u, v \in V : u.series = Account /\ v.series = Account => u.dim = v.dim
  /\ \A u, v \in V : SameObservation(u, v) /\ u.seen = v.seen => u = v

LEMMA OneRevision ==
  ASSUME NEW V, Revised(V), NEW cutoff, cutoff.day \in Int, NEW c,
         Known(V, Account, cutoff) # {},
         \A v \in Known(V, Account, cutoff) : v.period =< cutoff.day
  PROVE  Newest(Known(V, Account, cutoff))
         = CHOOSE v \in NotFuture(Known(V, Account, cutoff), c, cutoff) :
             \A u \in NotFuture(Known(V, Account, cutoff), c, cutoff) : u.period =< v.period
<1> DEFINE K == Known(V, Account, cutoff)
           F == NotFuture(K, c, cutoff)
           w == Newest(K)
           v == CHOOSE x \in F : \A u \in F : u.period =< x.period
<1>1. K \in SUBSET V /\ Rows(K) /\ \A u \in K : u.series = Account
  BY SomeRows DEF Known, Revised
<1>2. w \in K /\ \A u \in K : ~Before(NewestKey(w), NewestKey(u))
  BY <1>1, NewestChosen
<1>3. F \in SUBSET K
  BY DEF NotFuture, LastRevisions
<1>4. \A u \in K : u.period =< cutoff.day
  OBVIOUS
<1>5. \A u \in F : \A x \in K : SameObservation(x, u) => ~Before(RowKey(u), RowKey(x))
  BY DEF NotFuture, LastRevisions, SameObservation
<1>6. (\A x \in K : SameObservation(w, x) => ~Before(RowKey(w), RowKey(x))) => w \in F
  <2>1. MonthOf(w.period) =< MonthOf(cutoff.day) /\ w.period =< cutoff.day
    BY <1>1, <1>2, <1>4, MonthsInOrder DEF Rows
  <2> QED BY <1>2, <2>1 DEF NotFuture, LastRevisions, SameObservation
<1> HIDE DEF K, F, w, v
<1>7. \A u \in K : /\ NewestKey(u) = <<u.period, u.seen, u.seen, -u.value>>
                   /\ RowKey(u) = <<u.seen, u.seen, u.value>>
                   /\ u.seen \in Int /\ u.period \in Int /\ u.value \in Int
                   /\ NewestKey(u) \in [1..4 -> Int] /\ RowKey(u) \in [1..3 -> Int]
  BY <1>1 DEF Revised, Rows, NewestKey, RowKey
<1>8. \A u \in K : u.period =< w.period /\ (u.period = w.period => u.seen =< w.seen)
  <2> TAKE u \in K
  <2>1. ~Before(NewestKey(w), NewestKey(u))
    BY <1>2
  <2>2. /\ NewestKey(w)[1] = w.period /\ NewestKey(w)[2] = w.seen
        /\ NewestKey(u)[1] = u.period /\ NewestKey(u)[2] = u.seen
    BY <1>2, <1>7
  <2>3. NewestKey(w) \in [1..4 -> Int] /\ NewestKey(u) \in [1..4 -> Int]
    BY <1>2, <1>7
  <2> QED BY <2>1, <2>2, <2>3, KeyHeads
<1>9. w \in F
  <2>1. ASSUME NEW x \in K, SameObservation(w, x) PROVE ~Before(RowKey(w), RowKey(x))
    <3>1. x.period = w.period /\ x.seen =< w.seen
      BY <1>8, <2>1 DEF SameObservation
    <3>2. CASE x.seen = w.seen
      <4>1. x = w
        BY <1>1, <1>2, <2>1, <3>2 DEF Revised
      <4> QED BY <1>2, <1>7, <4>1, TuplesInOrder
    <3>3. CASE x.seen < w.seen
      <4>1. RowKey(x)[1] = x.seen /\ RowKey(w)[1] = w.seen
        BY <1>2, <1>7
      <4> QED BY <1>2, <1>7, <3>3, <4>1, KeyHeads
    <3> QED BY <1>2, <1>7, <3>1, <3>2, <3>3
  <2> QED BY <1>6, <2>1
<1>10. v \in F /\ \A u \in F : u.period =< v.period
  <2>1. \A u \in F : u.period =< w.period
    BY <1>3, <1>8
  <2> QED BY <1>9, <2>1 DEF v
<1>11. v.period = w.period
  BY <1>2, <1>3, <1>7, <1>8, <1>9, <1>10
<1>12. SameObservation(w, v)
  BY <1>1, <1>2, <1>3, <1>10, <1>11 DEF SameObservation, Revised
<1>13. w.seen =< v.seen
  <2>1. ~Before(RowKey(v), RowKey(w))
    BY <1>2, <1>5, <1>10, <1>12
  <2>2. RowKey(v)[1] = v.seen /\ RowKey(w)[1] = w.seen
    BY <1>2, <1>3, <1>7, <1>10
  <2>3. RowKey(v) \in [1..3 -> Int] /\ RowKey(w) \in [1..3 -> Int]
    BY <1>2, <1>3, <1>7, <1>10
  <2> QED BY <2>1, <2>2, <2>3, KeyHeads
<1>14. v.seen = w.seen
  BY <1>2, <1>3, <1>7, <1>8, <1>10, <1>11, <1>13
<1>15. w = v
  BY <1>1, <1>2, <1>3, <1>10, <1>12, <1>14 DEF Revised
<1> QED BY <1>15 DEF K, F, w, v

\* What a level's current point reads.
LEMMA LevelRead ==
  ASSUME NEW known, NEW c, NEW cutoff, LevelSeries(known, c, cutoff).current # None,
         NEW i \in LevelSeries(known, c, cutoff).current.inputs
  PROVE  /\ known # {}
         /\ i[2] = CHOOSE v \in NotFuture(known, c, cutoff) :
                     \A u \in NotFuture(known, c, cutoff) : u.period =< v.period
<1> DEFINE found == NotFuture(known, c, cutoff)
           latest == CHOOSE v \in found : \A u \in found : u.period =< v.period
           at == CurrentVintage(known, c, cutoff)
           current == Point(SgsValue(at.vintage), {<<c.source, at.vintage>>}, at.vintage.period)
<1>1. LevelSeries(known, c, cutoff).current = IF at.vintage = None THEN None ELSE current
  BY DEF LevelSeries, SeriesOf, SeriesFrom
<1>2. at.vintage # None /\ i \in current.inputs
  BY <1>1
<1>3. i = <<c.source, at.vintage>>
  BY <1>2 DEF Point
<1>4. found # {} /\ at.vintage = latest
  <2>1. \/ found = {} /\ at = [vintage |-> None, reason |-> "required_input_missing"]
        \/ at = [vintage |-> None, reason |-> "stale_input"]
        \/ found # {} /\ at = [vintage |-> latest, reason |-> None]
    BY DEF CurrentVintage
  <2> HIDE DEF found, latest, at
  <2> QED BY <1>2, <2>1
<1>5. found \subseteq known
  BY DEF NotFuture, LastRevisions
<1> HIDE DEF at
<1> QED BY <1>3, <1>4, <1>5

LEMMA LevelsRead ==
  ASSUME NEW H, NEW c, NEW cutoff, NEW cycle, NEW overlay, NEW V, c.kind = "level"
  PROVE  ComponentScore(c, Series(V, H, c, cutoff, cycle), overlay).current
         = LevelSeries(Known(V, c.source, cutoff), c, cutoff).current
<1> DEFINE series == LevelSeries(Known(V, c.source, cutoff), c, cutoff)
<1>1. Series(V, H, c, cutoff, cycle) = series
  BY DEF Series
<1>2. PICK current, history, reason :
        series = [current |-> current, history |-> history, reason |-> reason]
  BY DEF LevelSeries, SeriesOf, SeriesFrom
<1> HIDE DEF series
<1>3. \A s : Normalized(c, s).current = s.current
  BY DEF Normalized
<1>4. ComponentScore(c, series, overlay)
      = Normalized(c, [current |-> current, history |-> Overlaid(c.key, history, overlay),
                       reason |-> reason])
  BY <1>2 DEF ComponentScore
<1> QED BY <1>1, <1>2, <1>3, <1>4 DEF series

OfFeed(v) ==
  \E e \in feed.known \cup feed.observations : e.series = v.series /\ e.dim = v.dim

\* Two revisions of an observation differ in value and in the instant they
\* were seen.
RevisionsApart ==
  /\ \A v \in pending \cup vintages : OfFeed(v)
  /\ \A u, v \in vintages : SameObservation(u, v) /\ u.value = v.value => u = v
  /\ \A u, v \in pending \cup vintages :
       SameObservation(u, v) /\ u.seen = v.seen => u.value = v.value

\* No row is of a day after it was seen.
NoneAhead ==
  /\ \A v \in pending \cup vintages : v.period =< today
  /\ \A c \in Cycles : cutoffs[c] # None =>
       /\ cutoffs[c].day \in Int
       /\ \A v \in pending \cup vintages :
            v.seen =< cutoffs[c].at => v.period =< cutoffs[c].day

SnapshotsOwned ==
  \A s \in derived : s.cycle \in Cycles /\ cutoffs[s.cycle] # None /\ s.asOf = cutoffs[s.cycle]

RevisionInv ==
  /\ RetryInv /\ ForwardInv /\ CutoffsOwned
  /\ RevisionsApart /\ NoneAhead /\ SnapshotsOwned

\* A row's fields, for a row as it is seen and as it is committed.
LEMMA RowFields ==
  ASSUME NEW e, NEW seen, NEW id
  PROVE  /\ Row(e, seen, id).series = e.series /\ Row(e, seen, id).period = e.period
         /\ Row(e, seen, id).dim = e.dim /\ Row(e, seen, id).value = e.value
         /\ Row(e, seen, id).seen = seen
BY DEF Row

LEMMA CommittedFields ==
  ASSUME NEW v, IsRow(v), NEW id
  PROVE  LET w == [v EXCEPT !.id = id]
         IN  /\ w.series = v.series /\ w.period = v.period /\ w.dim = v.dim
             /\ w.value = v.value /\ w.seen = v.seen
BY DEF IsRow

LEMMA RevisionsInit ==
  ASSUME CycleInit PROVE RevisionsApart /\ NoneAhead
<1>1. /\ pending = {} /\ vintages = {Row(e, 0, 0) : e \in feed.known}
      /\ feed \in Feeds /\ today = feed.day /\ \A c \in Cycles : cutoffs[c] = None
  BY DEF CycleInit
<1>2. \A v \in vintages : OfFeed(v)
  BY <1>1, RowFields DEF OfFeed
<1>3. ASSUME NEW e \in feed.known, NEW g \in feed.known,
             SameObservation(Row(e, 0, 0), Row(g, 0, 0))
      PROVE  Row(e, 0, 0) = Row(g, 0, 0)
  <2>1. e.series = g.series /\ e.period = g.period /\ e.dim = g.dim
    BY <1>3, RowFields DEF SameObservation
  <2>2. e.value = g.value
    BY <1>1, <2>1, FeedsAssumption DEF SameObservation
  <2> QED BY <2>1, <2>2 DEF Row
<1>4. \A u, v \in vintages : SameObservation(u, v) => u = v
  BY <1>1, <1>3
<1>5. \A v \in vintages : v.period =< today
  BY <1>1, RowFields, FeedsAssumption
<1> QED BY <1>1, <1>2, <1>4, <1>5 DEF RevisionsApart, NoneAhead

LEMMA RevisionsStep ==
  ASSUME Stamped, RevisionsApart, [CycleNext]_cycleVars
  PROVE  RevisionsApart'
<1>0. feed' = feed
  BY DEF CycleNext, cycleVars, NewDay, Fetch, CommitVintage, Lose, ImportPrice, ImportIdentity,
         ImportInstrument, Add, TakeCutoff, Score, Derive
<1>1. CASE vintages' = vintages /\ pending' \subseteq pending
  BY <1>0, <1>1 DEF RevisionsApart, OfFeed
<1>2. ASSUME NEW e \in feed.observations, Fetch(e) PROVE RevisionsApart'
  <2>1. PICK r : /\ pending' = pending \cup {r} /\ vintages' = vintages
                 /\ r.series = e.series /\ r.dim = e.dim /\ r.seen = now
    BY <1>2, RowFields DEF Fetch
  <2>2. \A v \in pending \cup vintages : v.seen # now
    BY DEF Stamped
  <2>3. OfFeed(r)
    BY <2>1 DEF OfFeed
  <2> QED BY <1>0, <2>1, <2>2, <2>3 DEF RevisionsApart, OfFeed
<1>3. ASSUME NEW v \in pending, CommitVintage(v) PROVE RevisionsApart'
  <2>1. PICK w : w = [v EXCEPT !.id = now]
    OBVIOUS
  <2>2. /\ pending' = pending \ {v} /\ vintages' = WithVintage(vintages, w)
    BY <1>3, <2>1 DEF CommitVintage
  <2>3. /\ w.series = v.series /\ w.period = v.period /\ w.dim = v.dim
        /\ w.value = v.value /\ w.seen = v.seen
    <3>1. IsRow(v)
      BY DEF Stamped
    <3> QED BY <2>1, <3>1, CommittedFields
  <2>4. CASE vintages' = vintages
    BY <1>1, <2>2, <2>4
  <2>5. CASE /\ vintages' = vintages \cup {w}
             /\ \A u \in vintages : ~(SameObservation(u, w) /\ u.value = w.value)
    <3>1. \A u \in vintages' : OfFeed(u)
      BY <2>3, <2>5 DEF RevisionsApart, OfFeed
    <3>2. \A x, y \in vintages' : SameObservation(x, y) /\ x.value = y.value => x = y
      BY <2>5 DEF RevisionsApart, SameObservation
    <3>3. \A x \in pending' \cup vintages' :
            \E y \in pending \cup vintages :
              /\ x.series = y.series /\ x.period = y.period /\ x.dim = y.dim
              /\ x.value = y.value /\ x.seen = y.seen
      BY <2>2, <2>3, <2>5
    <3>4. \A x, y \in pending' \cup vintages' :
            SameObservation(x, y) /\ x.seen = y.seen => x.value = y.value
      BY <3>3 DEF RevisionsApart, SameObservation
    <3>5. \A x \in pending' : OfFeed(x)
      BY <2>2 DEF RevisionsApart
    <3> QED BY <1>0, <3>1, <3>2, <3>4, <3>5 DEF RevisionsApart, OfFeed
  <2> QED BY <2>2, <2>4, <2>5 DEF WithVintage
<1>4. CASE \/ UNCHANGED cycleVars \/ NewDay
           \/ \E v \in pending : Lose(v)
           \/ \E e \in feed.prices : ImportPrice(e)
           \/ \E e \in feed.identities : ImportIdentity(e)
           \/ \E e \in feed.instruments : ImportInstrument(e)
           \/ \E c \in Cycles : TakeCutoff(c) \/ Score(c)
           \/ \E c \in Cycles, key \in feed.keys : Derive(c, key)
  BY <1>1, <1>4 DEF cycleVars, NewDay, Lose, ImportPrice, ImportIdentity, ImportInstrument, Add,
                    TakeCutoff, Score, Derive
<1> QED BY <1>2, <1>3, <1>4 DEF CycleNext

LEMMA AheadStep ==
  ASSUME Stamped, Numbered, NoneAhead, [CycleNext]_cycleVars
  PROVE  NoneAhead'
<1>1. /\ today \in Nat /\ now \in Nat
      /\ \A v \in pending \cup vintages : v.seen \in Nat /\ v.seen < now /\ v.period \in Int
      /\ \A c \in Cycles : cutoffs[c] # None => cutoffs[c].at \in Nat /\ cutoffs[c].at < now
  BY DEF Stamped, Numbered
<1>2. CASE UNCHANGED <<cutoffs, pending, vintages>> /\ today' \in {today, today + 1}
  BY <1>1, <1>2 DEF NoneAhead
<1>3. ASSUME NEW e \in feed.observations, Fetch(e) PROVE NoneAhead'
  <2>1. PICK r : /\ pending' = pending \cup {r} /\ UNCHANGED <<vintages, today, cutoffs>>
                 /\ r.period = e.period /\ r.seen = now /\ e.period =< today
    BY <1>3, RowFields DEF Fetch
  <2> QED BY <1>1, <2>1 DEF NoneAhead
<1>4. ASSUME NEW v \in pending, CommitVintage(v) PROVE NoneAhead'
  <2>1. PICK w : w = [v EXCEPT !.id = now]
    OBVIOUS
  <2>2. /\ pending' \subseteq pending /\ vintages' \subseteq vintages \cup {w}
        /\ UNCHANGED <<today, cutoffs>>
    BY <1>4, <2>1 DEF CommitVintage, WithVintage
  <2>3. w.period = v.period /\ w.seen = v.seen
    <3>1. IsRow(v)
      BY DEF Stamped
    <3> QED BY <2>1, <3>1, CommittedFields
  <2> QED BY <2>2, <2>3 DEF NoneAhead
<1>5. ASSUME NEW v \in pending, Lose(v) PROVE NoneAhead'
  BY <1>5 DEF Lose, NoneAhead
<1>6. ASSUME NEW c \in Cycles, TakeCutoff(c) PROVE NoneAhead'
  <2>1. /\ cutoffs' = [cutoffs EXCEPT ![c] = Stamp] /\ Stamp.at = now /\ Stamp.day = today
        /\ UNCHANGED <<today, pending, vintages>>
    BY <1>6 DEF TakeCutoff, Stamp
  <2>2. cutoffs'[c] = Stamp /\ \A d \in Cycles \ {c} : cutoffs'[d] = cutoffs[d]
    BY <2>1 DEF Stamped
  <2> QED BY <1>1, <2>1, <2>2 DEF NoneAhead
<1>7. CASE \/ UNCHANGED cycleVars \/ NewDay
           \/ \E e \in feed.prices : ImportPrice(e)
           \/ \E e \in feed.identities : ImportIdentity(e)
           \/ \E e \in feed.instruments : ImportInstrument(e)
           \/ \E c \in Cycles : Score(c)
           \/ \E c \in Cycles, key \in feed.keys : Derive(c, key)
  BY <1>2, <1>7 DEF cycleVars, NewDay, ImportPrice, ImportIdentity, ImportInstrument, Add,
                    Score, Derive
<1> QED BY <1>3, <1>4, <1>5, <1>6, <1>7 DEF CycleNext

LEMMA OwnedSnapshotsStep ==
  ASSUME Stamped, SnapshotsOwned, [CycleNext]_cycleVars
  PROVE  SnapshotsOwned'
<1>1. CASE UNCHANGED <<cutoffs, derived>>
  BY <1>1 DEF SnapshotsOwned
<1>2. ASSUME NEW c \in Cycles, TakeCutoff(c) PROVE SnapshotsOwned'
  <2>1. cutoffs[c] = None /\ derived' = derived /\ cutoffs' = [cutoffs EXCEPT ![c] = Stamp]
    BY <1>2 DEF TakeCutoff
  <2>2. \A d \in Cycles : cutoffs[d] # None => cutoffs'[d] = cutoffs[d]
    BY <2>1 DEF Stamped
  <2> QED BY <2>1, <2>2 DEF SnapshotsOwned
<1>3. ASSUME NEW c \in Cycles, NEW key \in feed.keys, Derive(c, key) PROVE SnapshotsOwned'
  <2>1. PICK s : derived' = derived \cup {s} /\ s.cycle = c /\ s.asOf = cutoffs[c] /\ cutoffs[c] # None
    BY <1>3, DeriveStores
  <2>2. cutoffs' = cutoffs
    BY <1>3 DEF Derive
  <2> QED BY <2>1, <2>2 DEF SnapshotsOwned
<1>4. CASE \/ UNCHANGED cycleVars \/ NewDay
           \/ \E e \in feed.observations : Fetch(e)
           \/ \E v \in pending : CommitVintage(v) \/ Lose(v)
           \/ \E e \in feed.prices : ImportPrice(e)
           \/ \E e \in feed.identities : ImportIdentity(e)
           \/ \E e \in feed.instruments : ImportInstrument(e)
           \/ \E c \in Cycles : Score(c)
  BY <1>1, <1>4 DEF cycleVars, NewDay, Fetch, CommitVintage, Lose, ImportPrice, ImportIdentity,
                    ImportInstrument, Add, Score
<1> QED BY <1>2, <1>3, <1>4 DEF CycleNext

\* What SameRevision says of one score.
OneAccount(p) ==
  \A v \in ReadBy(p, Account, Account), w \in ReadBy(p, Coverage, Account) :
    \/ v = w
    \/ LateWrite(p.asOf, p.asOf.at, p.calculated)
    \/ ~OwnSnapshot(p, Coverage)

LEMMA LedgerRevised ==
  ASSUME RevisionInv
  PROVE  Revised(vintages)
<1>1. Stamped /\ Countable /\ Numbered /\ RevisionsApart
  BY DEF RevisionInv, ForwardInv
<1>2. Rows(vintages)
  BY <1>1, VintagesAreRows
<1>3. \A v \in vintages : AvailableAt(v) = v.seen
  <2> TAKE v \in vintages
  <2>1. IsRow(v)
    BY <1>1 DEF Stamped
  <2>2. v.published = None
    BY <2>1 DEF IsRow
  <2> QED BY <2>2 DEF AvailableAt
<1>4. \A u, v \in vintages : u.series = Account /\ v.series = Account => u.dim = v.dim
  BY <1>1, FeedsAssumption DEF RevisionsApart, OfFeed, Stamped
<1>5. \A u, v \in vintages : SameObservation(u, v) /\ u.seen = v.seen => u = v
  BY <1>1 DEF RevisionsApart
<1> QED BY <1>2, <1>3, <1>4, <1>5 DEF Revised

\* What a score's coverage reads of the account is what its cutoff's newest is.
LEMMA CoverageRead ==
  ASSUME RevisionInv, NEW c \in Cycles, cutoffs[c] # None,
         NEW o \in derived, o.key = Coverage, o.cycle = c,
         NEW d \in Components, d.key = Coverage, d.kind = "snapshot",
         SnapshotSeries(derived, d, cutoffs[c], c).current # None,
         NEW i \in SnapshotSeries(derived, d, cutoffs[c], c).current.inputs, i[2].series = Account
  PROVE  \/ i[2] = Newest(Known(vintages, Account, cutoffs[c]))
         \/ LateWrite(cutoffs[c], cutoffs[c].at, now)
<1> DEFINE cutoff == cutoffs[c]
           found == {s \in derived : s.key = d.key /\ IsForward(s, cutoff, c)}
           latest == Top(found, SnapshotKey)
<1>1. /\ RetryInv /\ ForwardInv /\ CutoffsOwned /\ SnapshotsOwned /\ Stamped
      /\ IsFiniteSet(derived)
  BY DEF RevisionInv, ForwardInv, SnapshotsApart
<1>2. /\ cutoff.at \in Nat /\ cutoff.at < now
      /\ \A s \in derived : /\ s.asOf.at \in Nat /\ s.created \in Nat
                            /\ s.asOf.at < s.created /\ s.created < now
  BY <1>1 DEF Stamped
<1>3. o \in found
  <2>1. o.asOf = cutoff /\ o.asOf.at < o.created
    BY <1>1, <1>2 DEF SnapshotsOwned
  <2>2. \A j \in o.inputs : AvailableAt(j[2]) =< o.asOf.at
    BY <1>1 DEF ForwardInv, NoneForeseen
  <2>3. IsForward(o, cutoff, c)
    BY <1>2, <2>1, <2>2 DEF IsForward
  <2> QED BY <2>3
<1>4. found \subseteq derived /\ \A s \in found : s.key = Coverage /\ s.asOf.at =< cutoff.at
  BY DEF IsForward
<1>5. IsFiniteSet(found) /\ \A s \in found : SnapshotPair(s)
  BY <1>1, <1>4, FS_Subset, SnapshotsPaired
<1>6. SnapshotSeries(derived, d, cutoff, c).current \in {None, SnapshotPoint(latest)}
  BY DEF SnapshotSeries, SeriesOfSnapshots
<1> HIDE DEF found
<1>7. latest \in found /\ ~Before(SnapshotKey(latest), SnapshotKey(o))
  BY <1>3, <1>5, TopSnapshot
<1> HIDE DEF latest
<1>8. i \in latest.inputs
  BY <1>6 DEF SnapshotPoint, Point
<1>9. latest.asOf = cutoff
  <2>1. o.asOf = cutoff /\ latest.asOf = cutoffs[latest.cycle] /\ latest.cycle \in Cycles
        /\ cutoffs[latest.cycle] # None
    BY <1>1, <1>4, <1>7 DEF SnapshotsOwned
  <2>2. o.asOf.at =< latest.asOf.at
    <3>1. /\ latest.asOf.at \in Int /\ latest.created \in Int
          /\ o.asOf.at \in Int /\ o.created \in Int
      BY <1>2, <1>4, <1>7
    <3>2. ~Before(<<latest.asOf.at, latest.created>>, <<o.asOf.at, o.created>>)
      BY <1>7 DEF SnapshotKey
    <3> QED BY <3>1, <3>2, PairsInOrder
  <2>3. latest.asOf.at = cutoff.at
    BY <1>2, <1>4, <1>7, <2>1, <2>2
  <2> QED BY <1>1, <2>1, <2>3 DEF CutoffsOwned
<1>10. Stands(latest) /\ latest.key = Coverage /\ latest \in derived
  BY <1>1, <1>4, <1>7 DEF RetryInv
<1>11. CASE LateWrite(cutoff, latest.created, now)
  <2>1. cutoff.at < latest.created
    BY <1>2, <1>9, <1>10
  <2>2. LateWrite(cutoff, cutoff.at, now)
    <3>1. PICK v \in vintages : v.seen =< cutoff.at /\ v.id > latest.created /\ v.id =< now
      BY <1>11 DEF LateWrite
    <3>2. v.id > cutoff.at
      BY <1>1, <1>2, <1>10, <2>1, <3>1 DEF Stamped
    <3> QED BY <3>1, <3>2 DEF LateWrite
  <2> QED BY <2>2
<1>12. CASE Recomputed(latest)
  <2> DEFINE idps == Known(vintages, Idp, cutoff)
             accounts == Known(vintages, Account, cutoff)
  <2>1. i \in CoverageOf(idps, accounts).inputs
    BY <1>8, <1>9, <1>10, <1>12, ResultChosen DEF Recomputed, CoverageResult
  <2>2. Rows(idps) /\ Rows(accounts)
    <3>1. Rows(vintages)
      BY <1>1, VintagesAreRows DEF ForwardInv
    <3> QED BY <3>1, SomeRows DEF Known
  <2>3. \A v \in idps : v.series # Account
    BY DEF Known, Idp, Account
  <2> HIDE DEF idps, accounts
  <2>4. i = <<Account, Newest(accounts)>>
    BY <2>1, <2>2, <2>3, CoverageReads
  <2> QED BY <2>4 DEF accounts
<1>13. Coverage # RealRate
  BY DEF Coverage, RealRate
<1> QED BY <1>9, <1>10, <1>11, <1>12, <1>13 DEF Stands

LEMMA ScoreOneAccount ==
  ASSUME RevisionInv, NEW p, NEW c \in Cycles, cutoffs[c] # None, p.cycle = c,
         p.asOf = cutoffs[c], p.calculated = now,
         p.components = ScoreResult(vintages, derived, ledger, cutoffs[c], c).components
  PROVE  OneAccount(p)
<1> DEFINE K == Known(vintages, Account, cutoffs[c])
<1> SUFFICES ASSUME NEW v \in ReadBy(p, Account, Account), NEW w \in ReadBy(p, Coverage, Account),
                    OwnSnapshot(p, Coverage), ~LateWrite(p.asOf, p.asOf.at, p.calculated)
             PROVE  v = w
  BY DEF OneAccount
<1>1. PICK a \in Components : a.key = Account /\ a.kind = "level" /\ a.source = Account
  BY ComponentsAssumption
<1>2. PICK d \in Components : d.key = Coverage /\ d.kind = "snapshot"
  BY ComponentsAssumption
<1>3. p.components[Account].current = LevelSeries(K, a, cutoffs[c]).current
  BY <1>1, ComponentScored, LevelsRead
<1>4. p.components[Coverage].current = SnapshotSeries(derived, d, cutoffs[c], c).current
  BY <1>2, ComponentScored, SnapshotsRead
<1>5. /\ K # {}
      /\ v = CHOOSE x \in NotFuture(K, a, cutoffs[c]) :
               \A u \in NotFuture(K, a, cutoffs[c]) : u.period =< x.period
  <2>1. LevelSeries(K, a, cutoffs[c]).current # None
    BY <1>3 DEF ReadBy
  <2>2. PICK i \in LevelSeries(K, a, cutoffs[c]).current.inputs : v = i[2]
    BY <1>3 DEF ReadBy
  <2> HIDE DEF K
  <2> QED BY <2>1, <2>2, LevelRead
<1>6. w = Newest(K)
  <2>1. SnapshotSeries(derived, d, cutoffs[c], c).current # None
    BY <1>4 DEF ReadBy
  <2>2. PICK i \in SnapshotSeries(derived, d, cutoffs[c], c).current.inputs :
          w = i[2] /\ i[2].series = Account
    BY <1>4 DEF ReadBy
  <2>3. PICK o \in derived : o.key = Coverage /\ o.cycle = c
    BY DEF OwnSnapshot
  <2> QED BY <1>2, <2>1, <2>2, <2>3, CoverageRead
<1>7. cutoffs[c].day \in Int /\ \A x \in K : x.period =< cutoffs[c].day
  <2>1. NoneAhead /\ Revised(vintages)
    BY LedgerRevised DEF RevisionInv
  <2> QED BY <2>1 DEF NoneAhead, Known, Revised
<1>8. Newest(K) = CHOOSE x \in NotFuture(K, a, cutoffs[c]) :
                    \A u \in NotFuture(K, a, cutoffs[c]) : u.period =< x.period
  BY <1>5, <1>7, LedgerRevised, OneRevision
<1> QED BY <1>5, <1>6, <1>8

LEMMA OneAccountNext ==
  ASSUME RevisionInv, SameRevision, [CycleNext]_cycleVars
  PROVE  SameRevision'
<1>1. /\ Stamped /\ \A p \in scores : OneAccount(p) /\ p.calculated < now
  BY DEF RevisionInv, RetryInv, SameRevision, OneAccount, Stamped
<1>2. \/ UNCHANGED derived
      \/ \E s : derived' = derived \cup {s} /\ s.created = now
  BY <1>1, StepsDerive, DeriveStores
<1>3. vintages \subseteq vintages'
  BY DEF CycleNext, cycleVars, NewDay, Fetch, CommitVintage, WithVintage, Lose, ImportPrice,
         ImportIdentity, ImportInstrument, Add, TakeCutoff, Score, Derive
<1>4. ASSUME NEW p \in scores PROVE OneAccount(p)'
  <2>1. LateWrite(p.asOf, p.asOf.at, p.calculated) => LateWrite(p.asOf, p.asOf.at, p.calculated)'
    BY <1>3 DEF LateWrite
  <2>2. OwnSnapshot(p, Coverage)' => OwnSnapshot(p, Coverage)
    <3>1. \A s : s.created = now => ~(s.created < p.calculated)
      BY <1>1, <1>4 DEF Stamped
    <3> QED BY <1>2, <3>1 DEF OwnSnapshot
  <2>3. \A key : ReadBy(p, key, Account)' = ReadBy(p, key, Account)
    BY DEF ReadBy
  <2> QED BY <1>1, <1>4, <2>1, <2>2, <2>3 DEF OneAccount
<1>5. CASE UNCHANGED scores
  BY <1>4, <1>5 DEF SameRevision, OneAccount
<1>6. ASSUME NEW c \in Cycles, Score(c) PROVE SameRevision'
  <2>1. PICK n : /\ scores' = scores \cup {n} /\ n.asOf = cutoffs[c] /\ n.calculated = now
                 /\ n.cycle = c /\ cutoffs[c] # None
                 /\ n.components = ScoreResult(vintages, derived, ledger, cutoffs[c], c).components
    BY <1>1, <1>6, ScoreStores
  <2>2. OneAccount(n)
    BY <2>1, ScoreOneAccount
  <2>3. OneAccount(n)'
    BY <1>6, <2>2 DEF Score, OneAccount, LateWrite, OwnSnapshot, ReadBy
  <2> QED BY <1>4, <2>1, <2>3 DEF SameRevision, OneAccount
<1>7. CASE \/ UNCHANGED cycleVars \/ NewDay
           \/ \E e \in feed.observations : Fetch(e)
           \/ \E v \in pending : CommitVintage(v) \/ Lose(v)
           \/ \E e \in feed.prices : ImportPrice(e)
           \/ \E e \in feed.identities : ImportIdentity(e)
           \/ \E e \in feed.instruments : ImportInstrument(e)
           \/ \E c \in Cycles : TakeCutoff(c)
           \/ \E c \in Cycles, key \in feed.keys : Derive(c, key)
  BY <1>5, <1>7 DEF cycleVars, NewDay, Fetch, CommitVintage, Lose, ImportPrice, ImportIdentity,
                    ImportInstrument, Add, TakeCutoff, Derive
<1> QED BY <1>6, <1>7 DEF CycleNext

LEMMA RevisionNext ==
  ASSUME RevisionInv, [CycleNext]_cycleVars
  PROVE  RevisionInv'
BY RetryNext, ForwardNext, OwnedStep, RevisionsStep, AheadStep, OwnedSnapshotsStep
   DEF RevisionInv, ForwardInv

(* The level and the coverage of a score read one revision of the current     *)
(* account, whatever the order of its revisions, unless a late write came     *)
(* or the cycle has no coverage of its own.                                  *)
THEOREM RevisionShared == CycleSpec => []SameRevision
<1>1. CycleInit => RevisionInv /\ SameRevision
  <2> SUFFICES ASSUME CycleInit PROVE RevisionInv /\ SameRevision
    OBVIOUS
  <2>1. scores = {} /\ derived = {} /\ \A c \in Cycles : cutoffs[c] = None
    BY DEF CycleInit
  <2> QED BY <2>1, RetryInit, ForwardInit, RevisionsInit
          DEF RevisionInv, CutoffsOwned, SnapshotsOwned, SameRevision
<1>2. RevisionInv /\ SameRevision /\ [CycleNext]_cycleVars => RevisionInv' /\ SameRevision'
  BY RevisionNext, OneAccountNext
<1> QED BY <1>1, <1>2, PTL DEF CycleSpec

=============================================================================
