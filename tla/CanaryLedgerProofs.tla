------------------------- MODULE CanaryLedgerProofs -------------------------
(***************************************************************************)
(* Proofs about CanaryLedger: what its run checks holds for any number of  *)
(* dates, windows, workers and operations, and any catalog.                *)
(***************************************************************************)
EXTENDS CanaryLedger, TLAPS

(* The two values an IBGE row may take are integers: the current one is the *)
(* greater.                                                                *)
LEMMA MaxOfTwo ==
  ASSUME NEW a \in Int, NEW b \in Int
  PROVE /\ Max({a, b}) \in {a, b}
        /\ Max({a, b}) >= a /\ Max({a, b}) >= b
<1>1. \E x \in {a, b} : \A y \in {a, b} : x >= y
  <2>1. CASE a >= b
    BY <2>1
  <2>2. CASE b >= a
    BY <2>2
  <2> QED BY <2>1, <2>2
<1>2. /\ Max({a, b}) \in {a, b}
      /\ \A y \in {a, b} : Max({a, b}) >= y
  BY <1>1 DEF Max
<1> QED BY <1>2

LEMMA BatchRows ==
  ASSUME NEW b \in Batches
  PROVE /\ Rows(b) \subseteq Dates
        /\ \A d \in Rows(b) : b[d] \in Values
        /\ \A d \in Dates : b[d] \in Int /\ (d \notin Rows(b) => b[d] = 0)
BY LedgerAssumption DEF Batches, Rows, Values

LEMMA EmptyBatch ==
  /\ NoBatch \in Batches /\ Rows(NoBatch) = {}
  /\ NoReceipt \in [route : Routes \cup {"none"}, batch : Batches]
BY LedgerAssumption DEF Batches, Rows, NoBatch, NoReceipt

LEMMA UptoBatch == ASSUME NEW b \in Batches, NEW as_of PROVE Upto(b, as_of) \in Batches
BY LedgerAssumption DEF Batches, Upto

LEMMA CohortBatch == ASSUME NEW b \in Batches PROVE Cohort(b) \in Batches
BY LedgerAssumption DEF Batches, Cohort

-----------------------------------------------------------------------------
(* What a commit does to the tables *)

LedgerType ==
  /\ current \in Batches
  /\ vintages \in [Dates -> SUBSET Values]
  /\ receipts \in [Ids -> [route : Routes \cup {"none"}, batch : Batches]]
  /\ origins \in [Ids -> SUBSET (Dates \X Values)]

Origins == \A i \in Ids : origins[i] = {<<d, receipts[i].batch[d]>> : d \in Rows(receipts[i].batch)}

LEMMA StoredRows ==
  ASSUME LedgerType, NEW b \in Batches, NEW changed \in SUBSET Rows(b)
  PROVE /\ Stored(b, changed) \in Batches
        /\ \A d \in Dates \ changed : Stored(b, changed)[d] = current[d]
        /\ \A d \in changed : /\ Stored(b, changed)[d] \in {current[d], b[d]}
                              /\ source = "bcb_sgs" => Stored(b, changed)[d] = b[d]
                              /\ current[d] <= b[d] => Stored(b, changed)[d] = b[d]
<1>1. \A d \in Dates : current[d] \in Int /\ b[d] \in Int /\ current[d] \in 0 .. MaxRevision
                       /\ b[d] \in 0 .. MaxRevision
  BY LedgerAssumption DEF LedgerType, Batches
<1>2. ASSUME NEW d \in Dates
      PROVE /\ Max({current[d], b[d]}) \in {current[d], b[d]}
            /\ current[d] <= b[d] => Max({current[d], b[d]}) = b[d]
  <2>1. /\ Max({current[d], b[d]}) \in {current[d], b[d]}
        /\ Max({current[d], b[d]}) >= current[d] /\ Max({current[d], b[d]}) >= b[d]
    BY <1>1, MaxOfTwo
  <2> QED BY <1>1, <2>1
<1>3. changed \subseteq Dates
  BY BatchRows
<1> QED BY <1>1, <1>2, <1>3 DEF Stored, Batches

LEMMA AppendedRows ==
  ASSUME LedgerType, NEW b \in Batches, NEW changed \in SUBSET Rows(b)
  PROVE /\ Appended(b, changed) \in [Dates -> SUBSET Values]
        /\ \A d \in Dates : vintages[d] \subseteq Appended(b, changed)[d]
        /\ \A d \in changed : b[d] \in Appended(b, changed)[d]
<1>1. changed \subseteq Dates /\ \A d \in changed : b[d] \in Values
  BY BatchRows
<1> QED BY <1>1 DEF Appended, LedgerType

(* Every stored value keeps a vintage through the write of a batch. *)
LEMMA ValuesStayStored ==
  ASSUME LedgerType, ValuesHaveVintages, NEW b \in Batches, NEW changed \in SUBSET Rows(b),
         current' = Stored(b, changed), vintages' = Appended(b, changed)
  PROVE /\ \A d \in Rows(current') : current'[d] \in vintages'[d]
        /\ \A i \in Ids : \A p \in origins[i] : p[2] \in vintages'[p[1]]
<1>1. \A d \in Dates : vintages[d] \subseteq vintages'[d]
  BY AppendedRows
<1>2. ASSUME NEW d \in Rows(current') PROVE current'[d] \in vintages'[d]
  <2>1. d \in Dates /\ current'[d] # 0
    BY DEF Rows
  <2>2. CASE d \notin changed
    BY <1>1, <2>1, <2>2, StoredRows DEF ValuesHaveVintages, Rows
  <2>3. CASE d \in changed
    BY <1>1, <2>1, <2>3, StoredRows, AppendedRows DEF ValuesHaveVintages, Rows
  <2> QED BY <2>2, <2>3
<1>3. ASSUME NEW i \in Ids, NEW p \in origins[i] PROVE p[2] \in vintages'[p[1]]
  <2>1. p[1] \in Dates
    BY DEF LedgerType
  <2> QED BY <1>1, <2>1 DEF ValuesHaveVintages
<1> QED BY <1>2, <1>3

LEMMA UpsertedKeeps ==
  ASSUME LedgerType, Origins, ValuesHaveVintages, NEW b \in Batches, Upserted(b)
  PROVE /\ LedgerType' /\ Origins' /\ ValuesHaveVintages'
        /\ \A d \in Dates : vintages[d] \subseteq vintages'[d]
        /\ receipts' = receipts
<1>1. LedgerType'
  BY StoredRows, AppendedRows DEF Upserted, LedgerType
<1>2. ValuesHaveVintages'
  BY ValuesStayStored DEF Upserted, ValuesHaveVintages
<1> QED BY <1>1, <1>2, AppendedRows DEF Upserted, Origins

LEMMA CommittedKeeps ==
  ASSUME LedgerType, Origins, ValuesHaveVintages,
         NEW id \in Ids, NEW route \in Routes, NEW b \in Batches, NEW changed \in SUBSET Rows(b),
         \A d \in Rows(b) \ changed : b[d] \in vintages[d],
         Committed(id, route, b, changed)
  PROVE /\ LedgerType' /\ Origins' /\ ValuesHaveVintages'
        /\ \A d \in Dates : vintages[d] \subseteq vintages'[d]
        /\ receipts'[id] = [route |-> route, batch |-> b]
        /\ \A i \in Ids \ {id} : receipts'[i] = receipts[i]
<1>1. /\ \A d \in Dates : vintages[d] \subseteq vintages'[d]
      /\ \A d \in changed : b[d] \in vintages'[d]
  BY AppendedRows DEF Committed
<1>2. /\ receipts'[id] = [route |-> route, batch |-> b]
      /\ \A i \in Ids \ {id} : receipts'[i] = receipts[i]
      /\ receipts' \in [Ids -> [route : Routes \cup {"none"}, batch : Batches]]
  BY DEF Committed, LedgerType
<1>3. /\ origins'[id] = {<<d, b[d]>> : d \in Rows(b)}
      /\ \A i \in Ids \ {id} : origins'[i] = origins[i]
  BY DEF Committed, LedgerType
<1>4. {<<d, b[d]>> : d \in Rows(b)} \in SUBSET (Dates \X Values)
  BY BatchRows
<1>5. LedgerType'
  <2>1. origins' \in [Ids -> SUBSET (Dates \X Values)]
    BY <1>4 DEF Committed, LedgerType
  <2> QED BY <1>2, <2>1, StoredRows, AppendedRows DEF Committed, LedgerType
<1>6. Origins'
  BY <1>2, <1>3 DEF Origins
<1>7. ValuesHaveVintages'
  <2>1. /\ \A d \in Rows(current') : current'[d] \in vintages'[d]
        /\ \A i \in Ids : \A p \in origins[i] : p[2] \in vintages'[p[1]]
    BY ValuesStayStored DEF Committed
  <2>2. ASSUME NEW d \in Rows(b) PROVE b[d] \in vintages'[d]
    BY <1>1, BatchRows
  <2>3. ASSUME NEW p \in origins'[id] PROVE p[2] \in vintages'[p[1]]
    BY <1>3, <2>2
  <2> QED BY <1>3, <2>1, <2>3 DEF ValuesHaveVintages
<1> QED BY <1>1, <1>2, <1>5, <1>6, <1>7

-----------------------------------------------------------------------------
(* What a step of a refresh does to its window, its attempts and the row *)

LEMMA RowsOfTheBreaker ==
  ASSUME TypeOK, NEW w \in Windows
  PROVE /\ ReleasedRow \in Breaker /\ ClaimedRow(w) \in Breaker /\ SucceededRow(w) \in Breaker
        /\ \A opens \in BOOLEAN : FailedRow(opens) \in Breaker
BY DEF TypeOK, Breaker, ReleasedRow, ClaimedRow, SucceededRow, FailedRow

LEMMA FinishedMoves ==
  ASSUME TypeOK, NEW w \in Windows, NEW route \in Routes, NEW status \in Statuses,
         Finished(w, route, status)
  PROVE /\ attempts' \in [Windows -> [Routes -> Statuses]]
        /\ \A v \in Windows \ {w} : attempts'[v] = attempts[v]
        /\ \A r \in Routes \ {route} : attempts'[w][r] = attempts[w][r]
        /\ attempts'[w][route] = IF attempts[w][route] = "running" THEN status ELSE attempts[w][route]
BY DEF TypeOK, Finished, Attempt

(* The window's own fields, but for its flags.                             *)
Same(v) ==
  /\ window'[v].pc = window[v].pc /\ window'[v].route = window[v].route
  /\ window'[v].batch = window[v].batch /\ window'[v].seen = window[v].seen
  /\ window'[v].probe => window[v].probe

SelectFrame(w) ==
  /\ breaker' \in Breaker
  /\ window' \in [Windows -> WindowType]
  /\ attempts' \in [Windows -> [Routes -> Statuses]]
  /\ \A v \in Windows \ {w} : Same(v) /\ attempts'[v] = attempts[v]

LEMMA EndMoves ==
  ASSUME TypeOK, NEW w \in Windows, NEW step \in Over
  PROVE /\ At(w, step) \in [Windows -> WindowType]
        /\ \A v \in Windows \ {w} : At(w, step)[v] = window[v]
        /\ At(w, step)[w].pc = step /\ ~At(w, step)[w].probe
BY EmptyBatch DEF TypeOK, At, WindowType, Over, Unfetched

LEMMA EndFails ==
  ASSUME TypeOK, NEW w \in Windows
  PROVE /\ At(w, "failed") \in [Windows -> WindowType]
        /\ \A v \in Windows \ {w} : At(w, "failed")[v] = window[v]
        /\ At(w, "failed")[w].pc = "failed" /\ ~At(w, "failed")[w].probe
BY EndMoves DEF Over

LEMMA GivesUpFrame ==
  ASSUME TypeOK, NEW w \in Windows, GivesUp(w, ReleasedRow)
  PROVE SelectFrame(w) /\ window'[w].pc = "failed" /\ ~window'[w].probe
<1> DEFINE ws == At(w, "failed")
<1>1. /\ ws \in [Windows -> WindowType]
      /\ \A v \in Windows \ {w} : ws[v] = window[v]
      /\ ws[w].pc = "failed" /\ ~ws[w].probe
  BY EndFails
<1>2. window' = Probes(ws, ReleasedRow) /\ breaker' = ReleasedRow
  BY DEF GivesUp
<1>3. /\ attempts' \in [Windows -> [Routes -> Statuses]]
      /\ \A v \in Windows \ {w} : attempts'[v] = attempts[v]
  BY FinishedMoves DEF GivesUp, Routes, Statuses
<1> HIDE DEF ws
<1>4. /\ window' \in [Windows -> WindowType]
      /\ \A v \in Windows :
           /\ window'[v].pc = ws[v].pc /\ window'[v].route = ws[v].route
           /\ window'[v].batch = ws[v].batch /\ window'[v].seen = ws[v].seen
           /\ window'[v].probe => ws[v].probe
  BY ZenonT(60), <1>1, <1>2 DEF Probes, WindowType
<1>5. breaker' \in Breaker
  BY <1>2, RowsOfTheBreaker
<1> QED BY <1>1, <1>3, <1>4, <1>5 DEF SelectFrame, Same

LEMMA FailsFrame ==
  ASSUME TypeOK, NEW w \in Windows, NEW opens \in BOOLEAN, Fails(w, opens)
  PROVE SelectFrame(w) /\ window'[w].pc = "failed" /\ ~window'[w].probe
<1> DEFINE ws == At(w, "failed")
           old == Outdated(ws)
<1>1. /\ ws \in [Windows -> WindowType]
      /\ \A v \in Windows \ {w} : ws[v] = window[v]
      /\ ws[w].pc = "failed" /\ ~ws[w].probe
  BY EndFails
<1>2. window' = Probes(old, FailedRow(opens)) /\ breaker' = FailedRow(opens)
  BY DEF Fails
<1>3. /\ attempts' \in [Windows -> [Routes -> Statuses]]
      /\ \A v \in Windows \ {w} : attempts'[v] = attempts[v]
  BY FinishedMoves DEF Fails, Routes, Statuses
<1> HIDE DEF ws
<1>4. old \in [Windows -> WindowType]
  BY <1>1 DEF old, Outdated, WindowType
<1>5. \A v \in Windows :
        /\ old[v].pc = ws[v].pc /\ old[v].route = ws[v].route
        /\ old[v].batch = ws[v].batch /\ old[v].seen = ws[v].seen
        /\ old[v].probe => ws[v].probe
  BY <1>1 DEF old, Outdated, WindowType
<1> HIDE DEF old
<1>6. /\ window' \in [Windows -> WindowType]
      /\ \A v \in Windows :
           /\ window'[v].pc = old[v].pc /\ window'[v].route = old[v].route
           /\ window'[v].batch = old[v].batch /\ window'[v].seen = old[v].seen
           /\ window'[v].probe => old[v].probe
  BY ZenonT(60), <1>2, <1>4 DEF Probes, WindowType
<1>7. breaker' \in Breaker
  BY <1>2, RowsOfTheBreaker
<1> QED BY <1>1, <1>3, <1>5, <1>6, <1>7 DEF SelectFrame, Same

LEMMA UnstoredFrame ==
  ASSUME TypeOK, NEW w \in Windows, NEW status \in Statuses, Unstored(w, status)
  PROVE SelectFrame(w) /\ window'[w].pc = "failed" /\ ~window'[w].probe
<1>1. window' = At(w, "failed")
  BY DEF Unstored, Moves
<1>2. /\ window' \in [Windows -> WindowType]
      /\ \A v \in Windows \ {w} : window'[v] = window[v]
      /\ window'[w].pc = "failed" /\ ~window'[w].probe
  BY <1>1, EndFails
<1>3. /\ attempts' \in [Windows -> [Routes -> Statuses]]
      /\ \A v \in Windows \ {w} : attempts'[v] = attempts[v]
  <2>1. CASE window[w].route = "candidate"
    BY <2>1, FinishedMoves DEF Unstored, Routes
  <2>2. CASE window[w].route # "candidate"
    BY <2>2 DEF Unstored, TypeOK
  <2> QED BY <2>1, <2>2
<1>4. breaker' \in Breaker
  BY RowsOfTheBreaker DEF Unstored, TypeOK
<1> QED BY <1>2, <1>3, <1>4 DEF SelectFrame, Same

-----------------------------------------------------------------------------
(* Each step of a refresh *)

(* What it leaves of the tables.                                           *)
LedgerStep(w) ==
  /\ LedgerType' /\ Origins' /\ ValuesHaveVintages'
  /\ \A d \in Dates : vintages[d] \subseteq vintages'[d]
  /\ \A i \in Ids \ {w} : receipts'[i] = receipts[i]

(* What it does to the candidate's row, unless it claims it.               *)
RowStep(w) ==
  /\ ~Probing(w)'
  /\ \/ breaker' \in {breaker, ReleasedRow}
     \/ breaker'.state = "open" /\ breaker'.waits
     \/ \A v \in Windows : ~Probing(v)'

SelectStep(w) == SelectFrame(w) /\ LedgerStep(w) /\ WindowSound(w)' /\ Truthful(w)'

LEMMA LedgerStays ==
  ASSUME LedgerInv, UNCHANGED <<ledger>>, NEW w
  PROVE LedgerStep(w) /\ receipts' = receipts
BY DEF LedgerInv, TypeOK, AllOrNothing, ledger, LedgerStep, LedgerType, Origins, ValuesHaveVintages

LEMMA Facts ==
  ASSUME LedgerInv, NEW w \in Windows
  PROVE /\ TypeOK /\ LedgerType /\ Origins /\ w \in Ids
        /\ WindowSound(w) /\ Truthful(w)
        /\ window[w] \in WindowType /\ attempts[w] \in [Routes -> Statuses]
        /\ receipts[w] \in [route : Routes \cup {"none"}, batch : Batches]
        /\ published \in Batches /\ current \in Batches
BY SelectionAssumption DEF LedgerInv, TypeOK, LedgerType, Origins, AllOrNothing, WindowsSound,
   AttemptsTrue

(* A window that gives up keeps its record as true as it was, its candidate's  *)
(* attempt excepted, which is closed.                                        *)
LEMMA EndsTrue ==
  ASSUME LedgerInv, NEW w \in Windows, window[w].pc # "saved", receipts'[w] = receipts[w],
         window'[w].pc = "failed",
         \/ attempts'[w] = attempts[w]
         \/ /\ attempts[w]["candidate"] = "running"
            /\ attempts'[w]["primary"] = attempts[w]["primary"]
            /\ \/ attempts'[w]["candidate"] = "failed"
               \/ attempts'[w]["candidate"] = "persistence_error" /\ Receiptless(w)
         \/ Receiptless(w) /\ attempts'[w]["candidate"] = "none"
  PROVE WindowSound(w)' /\ Truthful(w)'
<1>1. Truthful(w)
  BY DEF LedgerInv, AttemptsTrue
<1>2. Receiptless(w) => receipts[w].route = "none"
  BY DEF Receiptless, NoReceipt
<1>3. Truthful(w)'
  BY <1>1, <1>2 DEF Truthful
<1>4. WindowSound(w)'
  BY DEF WindowSound, Over
<1> QED BY <1>3, <1>4

LEMMA BeginStep ==
  ASSUME LedgerInv, NEW w \in Windows, BeginWindow(w)
  PROVE SelectStep(w) /\ RowStep(w)
<1>1. LedgerStep(w) /\ receipts' = receipts
  BY LedgerStays DEF BeginWindow
<1>2. SelectFrame(w)
  <2>1. /\ window' \in [Windows -> WindowType]
        /\ \A v \in Windows \ {w} : window'[v] = window[v]
    <3> DEFINE rows == IF source = "ibge_sidra" THEN current ELSE NoBatch
    <3>1. rows \in Batches /\ window \in [Windows -> WindowType]
      BY Facts, EmptyBatch DEF TypeOK
    <3>2. window' = [window EXCEPT ![w] = [@ EXCEPT !.pc = "primary", !.seen = rows]]
      BY DEF BeginWindow
    <3> HIDE DEF rows
    <3> QED BY ZenonT(60), <3>1, <3>2 DEF WindowType
  <2>2. /\ attempts' \in [Windows -> [Routes -> Statuses]]
        /\ \A v \in Windows \ {w} : attempts'[v] = attempts[v]
    BY Facts DEF BeginWindow, TypeOK, Attempt, Routes, Statuses
  <2> QED BY <2>1, <2>2, Facts DEF BeginWindow, SelectFrame, Same, TypeOK
<1>3. /\ window'[w].pc = "primary" /\ Receiptless(w)
      /\ attempts'[w]["primary"] = "running" /\ attempts'[w]["candidate"] = "none"
  BY Facts DEF BeginWindow, TypeOK, WindowType, Attempt, Routes, Statuses, WindowSound, Asked
<1>4. WindowSound(w)' /\ Truthful(w)'
  BY <1>1, <1>3 DEF WindowSound, Truthful, Receiptless, NoReceipt, Asked
<1>5. breaker' = breaker
  BY DEF BeginWindow
<1> QED BY <1>1, <1>2, <1>3, <1>4, <1>5 DEF SelectStep, RowStep, Probing

LEMMA LegacyStep ==
  ASSUME LedgerInv, NEW w \in Windows, LegacyWindow(w), source' = source
  PROVE SelectStep(w) /\ RowStep(w)
<1>1. LedgerStep(w) /\ receipts' = receipts
  <2>1. CASE Upserted(published)
    BY <2>1, Facts, UpsertedKeeps DEF LedgerStep, LedgerInv
  <2>2. CASE UNCHANGED ledger
    BY <2>2, LedgerStays
  <2> QED BY <2>1, <2>2 DEF LegacyWindow
<1>2. /\ window' \in [Windows -> WindowType]
      /\ \A v \in Windows \ {w} : window'[v] = window[v]
      /\ window'[w].pc \in Over
  <2>1. PICK step \in Over : window' = At(w, step)
    BY DEF LegacyWindow, Moves, Over
  <2> QED BY <2>1, Facts, EndMoves
<1>3. attempts' = attempts /\ breaker' = breaker
  BY DEF LegacyWindow
<1>4. SelectFrame(w)
  BY <1>2, <1>3, Facts DEF SelectFrame, Same, TypeOK
<1>5. Receiptless(w) /\ Asked(w, "none", "none")
  BY Facts DEF LegacyWindow, WindowSound
<1>6. WindowSound(w)' /\ Truthful(w)'
  BY <1>1, <1>2, <1>3, <1>5 DEF WindowSound, Truthful, Receiptless, NoReceipt, Asked, Over
<1> QED BY <1>1, <1>2, <1>3, <1>4, <1>6 DEF SelectStep, RowStep, Probing, Over

LEMMA PrimaryAnswersStep ==
  ASSUME LedgerInv, NEW w \in Windows, PrimaryAnswers(w)
  PROVE SelectStep(w) /\ RowStep(w)
<1>1. LedgerStep(w) /\ receipts' = receipts
  BY LedgerStays DEF PrimaryAnswers
<1>2. PICK step \in {"persist", "unsure"} :
        window' = [window EXCEPT ![w] = [@ EXCEPT !.pc = step, !.route = "primary",
                                                  !.batch = published, !.seen = NoBatch]]
  BY DEF PrimaryAnswers
<1>3. /\ window' \in [Windows -> WindowType]
      /\ \A v \in Windows \ {w} : window'[v] = window[v]
      /\ window'[w].pc = step /\ window'[w].route = "primary"
  <2>1. window \in [Windows -> WindowType] /\ published \in Batches /\ NoBatch \in Batches
    BY Facts, EmptyBatch DEF TypeOK
  <2>2. window' \in [Windows -> WindowType]
    BY ZenonT(60), <1>2, <2>1 DEF WindowType, Routes
  <2> QED BY <1>2, <2>1, <2>2 DEF WindowType
<1>4. /\ attempts' \in [Windows -> [Routes -> Statuses]]
      /\ \A v \in Windows \ {w} : attempts'[v] = attempts[v]
      /\ attempts'[w]["candidate"] = attempts[w]["candidate"]
      /\ attempts'[w]["primary"] = IF attempts[w]["primary"] = "running" THEN "success"
                                   ELSE attempts[w]["primary"]
  BY Facts, FinishedMoves DEF PrimaryAnswers, Routes, Statuses
<1>5. Receiptless(w) /\ Asked(w, "running", "none")
  BY Facts DEF PrimaryAnswers, WindowSound
<1>6. WindowSound(w)' /\ Truthful(w)'
  BY <1>1, <1>3, <1>4, <1>5
     DEF WindowSound, Truthful, Receiptless, NoReceipt, Asked, ByRoute, Over
<1>7. breaker' = breaker
  BY DEF PrimaryAnswers
<1>8. SelectFrame(w)
  BY <1>3, <1>4, <1>7, Facts DEF SelectFrame, Same, TypeOK
<1> QED BY <1>1, <1>3, <1>6, <1>7, <1>8 DEF SelectStep, RowStep, Probing

(* The steps that move a window on and leave its batch.                    *)
LEMMA OnMoves ==
  ASSUME TypeOK, NEW w \in Windows, NEW step \in {"claim", "stored"}, Moves(w, step)
  PROVE /\ window' \in [Windows -> WindowType]
        /\ \A v \in Windows \ {w} : window'[v] = window[v]
        /\ window'[w] = [window[w] EXCEPT !.pc = step]
<1>0. step \notin Over
  BY DEF Over
<1>1. window \in [Windows -> WindowType] /\ window' = [window EXCEPT ![w] = [@ EXCEPT !.pc = step]]
  BY <1>0 DEF Moves, At, TypeOK
<1>2. [window[w] EXCEPT !.pc = step] \in WindowType
  BY <1>1 DEF WindowType
<1> QED BY <1>1, <1>2

LEMMA FallsStep ==
  ASSUME LedgerInv, NEW w \in Windows, Falls(w)
  PROVE SelectStep(w) /\ RowStep(w)
<1>1. LedgerStep(w) /\ receipts' = receipts
  BY LedgerStays DEF Falls
<1>2. /\ window' \in [Windows -> WindowType]
      /\ \A v \in Windows \ {w} : window'[v] = window[v]
      /\ window'[w].pc = "claim"
  BY Facts, OnMoves DEF Falls, WindowType
<1>3. /\ attempts' \in [Windows -> [Routes -> Statuses]]
      /\ \A v \in Windows \ {w} : attempts'[v] = attempts[v]
      /\ attempts'[w]["candidate"] = "running" /\ attempts'[w]["primary"] = "failed"
  BY Facts DEF Falls, TypeOK, Routes, Statuses
<1>4. Receiptless(w)
  BY Facts DEF Falls, WindowSound
<1>5. WindowSound(w)' /\ Truthful(w)'
  BY <1>1, <1>2, <1>3, <1>4 DEF WindowSound, Truthful, Receiptless, NoReceipt, Asked, Over
<1>6. breaker' = breaker
  BY DEF Falls
<1>7. SelectFrame(w)
  BY <1>2, <1>3, <1>6, Facts DEF SelectFrame, Same, TypeOK
<1> QED BY <1>1, <1>2, <1>5, <1>6, <1>7 DEF SelectStep, RowStep, Probing

LEMMA PrimaryRefusesStep ==
  ASSUME LedgerInv, NEW w \in Windows, PrimaryRefuses(w)
  PROVE SelectStep(w) /\ RowStep(w)
<1>1. LedgerStep(w) /\ receipts' = receipts
  BY LedgerStays DEF PrimaryRefuses
<1>2. /\ window' \in [Windows -> WindowType]
      /\ \A v \in Windows \ {w} : window'[v] = window[v]
      /\ window'[w].pc = "failed"
  BY Facts, EndFails DEF PrimaryRefuses, Moves
<1>3. /\ attempts' \in [Windows -> [Routes -> Statuses]]
      /\ \A v \in Windows \ {w} : attempts'[v] = attempts[v]
      /\ attempts'[w]["candidate"] = attempts[w]["candidate"]
  <2>1. CASE Finished(w, "primary", "failed")
    BY <2>1, Facts, FinishedMoves DEF Routes, Statuses
  <2>2. CASE UNCHANGED attempts
    BY <2>2, Facts DEF TypeOK
  <2> QED BY <2>1, <2>2 DEF PrimaryRefuses
<1>4. Receiptless(w) /\ attempts[w]["candidate"] = "none" /\ window[w].pc = "primary"
  BY Facts DEF PrimaryRefuses, WindowSound, Asked
<1>5. WindowSound(w)' /\ Truthful(w)'
  BY <1>1, <1>2, <1>3, <1>4, EndsTrue
<1>6. breaker' = breaker
  BY DEF PrimaryRefuses
<1>7. SelectFrame(w)
  BY <1>2, <1>3, <1>6, Facts DEF SelectFrame, Same, TypeOK
<1> QED BY <1>1, <1>2, <1>5, <1>6, <1>7 DEF SelectStep, RowStep, Probing

LEMMA ClaimStep ==
  ASSUME LedgerInv, NEW w \in Windows, ClaimCandidate(w)
  PROVE /\ SelectStep(w)
        /\ breaker' = ClaimedRow(w) /\ Claimable
        /\ window'[w].probe <=> breaker.state # "closed"
<1>1. LedgerStep(w) /\ receipts' = receipts
  BY LedgerStays DEF ClaimCandidate
<1>2. /\ window' \in [Windows -> WindowType]
      /\ \A v \in Windows \ {w} :
           /\ window'[v].pc = window[v].pc /\ window'[v].route = window[v].route
           /\ window'[v].batch = window[v].batch /\ window'[v].seen = window[v].seen
           /\ window'[v].probe = window[v].probe
      /\ window'[w].pc = "asking"
      /\ window'[w].probe <=> breaker.state # "closed"
  <2> DEFINE ws == Outdated(window)
             probe == breaker.state # "closed"
  <2>1. /\ ws \in [Windows -> WindowType]
        /\ \A v \in Windows :
             /\ ws[v].pc = window[v].pc /\ ws[v].route = window[v].route
             /\ ws[v].batch = window[v].batch /\ ws[v].seen = window[v].seen
             /\ ws[v].probe = window[v].probe
    BY ZenonT(60), Facts DEF Outdated, TypeOK, WindowType
  <2>2. window' = [ws EXCEPT ![w] =
                            [@ EXCEPT !.pc = "asking", !.latest = TRUE, !.probe = probe]]
    BY DEF ClaimCandidate
  <2>3. probe \in BOOLEAN
    OBVIOUS
  <2> HIDE DEF ws, probe
  <2>4. [ws[w] EXCEPT !.pc = "asking", !.latest = TRUE, !.probe = probe] \in WindowType
    BY ZenonT(60), <2>1, <2>3 DEF WindowType
  <2>5. /\ window' \in [Windows -> WindowType]
        /\ window'[w] = [ws[w] EXCEPT !.pc = "asking", !.latest = TRUE, !.probe = probe]
        /\ \A v \in Windows \ {w} : window'[v] = ws[v]
    BY <2>1, <2>2, <2>4
  <2>6. window'[w].pc = "asking" /\ window'[w].probe = probe
    BY <2>1, <2>5 DEF WindowType
  <2> QED BY ZenonT(60), <2>1, <2>5, <2>6 DEF probe
<1>3. attempts' = attempts /\ breaker' = ClaimedRow(w) /\ Claimable
  BY DEF ClaimCandidate
<1>4. Receiptless(w) /\ Asked(w, "failed", "running")
  BY Facts DEF ClaimCandidate, WindowSound
<1>5. WindowSound(w)' /\ Truthful(w)'
  BY <1>1, <1>2, <1>3, <1>4 DEF WindowSound, Truthful, Receiptless, NoReceipt, Asked, Over
<1>6. SelectFrame(w)
  BY <1>2, <1>3, Facts, RowsOfTheBreaker DEF SelectFrame, Same, TypeOK
<1> QED BY <1>1, <1>2, <1>3, <1>5, <1>6 DEF SelectStep

LEMMA GivesUpStep ==
  ASSUME LedgerInv, NEW w \in Windows, window[w].pc \in {"claim", "asking"}, GivesUp(w, ReleasedRow)
  PROVE SelectStep(w) /\ RowStep(w)
<1>1. LedgerStep(w) /\ receipts' = receipts
  BY LedgerStays DEF GivesUp
<1>2. SelectFrame(w) /\ window'[w].pc = "failed" /\ ~window'[w].probe
  BY Facts, GivesUpFrame
<1>3. Asked(w, "failed", "running") /\ window[w].pc # "saved"
  BY Facts DEF WindowSound
<1>4. /\ attempts'[w]["candidate"] = "failed"
      /\ attempts'[w]["primary"] = attempts[w]["primary"]
  BY <1>3, Facts, FinishedMoves DEF GivesUp, Routes, Statuses, Asked
<1>5. WindowSound(w)' /\ Truthful(w)'
  BY <1>1, <1>2, <1>3, <1>4, EndsTrue DEF Asked
<1>6. breaker' = ReleasedRow
  BY DEF GivesUp
<1> QED BY <1>1, <1>2, <1>5, <1>6 DEF SelectStep, RowStep, Probing

LEMMA DeniedStep ==
  ASSUME LedgerInv, NEW w \in Windows, DeniedCandidate(w)
  PROVE SelectStep(w) /\ RowStep(w)
BY GivesUpStep DEF DeniedCandidate

LEMMA CandidateFailsStep ==
  ASSUME LedgerInv, NEW w \in Windows, CandidateFails(w)
  PROVE SelectStep(w) /\ RowStep(w)
<1>1. CASE GivesUp(w, ReleasedRow)
  BY <1>1, GivesUpStep DEF CandidateFails
<1>2. ASSUME NEW opens \in BOOLEAN, Fails(w, opens)
      PROVE SelectStep(w) /\ RowStep(w)
  <2>1. LedgerStep(w) /\ receipts' = receipts
    BY <1>2, LedgerStays DEF Fails
  <2>2. SelectFrame(w) /\ window'[w].pc = "failed" /\ ~window'[w].probe
    BY <1>2, Facts, FailsFrame
  <2>3. Asked(w, "failed", "running") /\ window[w].pc # "saved"
    BY Facts DEF WindowSound, CandidateFails
  <2>4. /\ attempts'[w]["candidate"] = "failed"
        /\ attempts'[w]["primary"] = attempts[w]["primary"]
    BY <1>2, <2>3, Facts, FinishedMoves DEF Fails, Routes, Statuses, Asked
  <2>5. WindowSound(w)' /\ Truthful(w)'
    BY <2>1, <2>2, <2>3, <2>4, EndsTrue DEF Asked
  <2>6. \/ breaker'.state = "open" /\ breaker'.waits
        \/ \A v \in Windows : ~Probing(v)'
    <3>1. CASE opens
      BY <1>2, <3>1 DEF Fails, FailedRow
    <3>2. CASE ~opens
      <4> DEFINE ws == At(w, "failed")
      <4>1. breaker'.state = "closed" /\ window' = Probes(Outdated(ws), breaker')
        BY <1>2, <3>2 DEF Fails, FailedRow
      <4>2. ws \in [Windows -> WindowType]
        BY Facts, EndFails
      <4> HIDE DEF ws
      <4>3. Outdated(ws) \in [Windows -> WindowType]
        BY <4>2 DEF Outdated, WindowType
      <4> QED BY <4>1, <4>3 DEF Probes, Probing, WindowType
    <3> QED BY <3>1, <3>2
  <2> QED BY <2>1, <2>2, <2>5, <2>6 DEF SelectStep, RowStep, Probing
<1> QED BY <1>1, <1>2 DEF CandidateFails

LEMMA CandidateAnswersStep ==
  ASSUME LedgerInv, NEW w \in Windows, CandidateAnswers(w)
  PROVE SelectStep(w) /\ RowStep(w)
<1> DEFINE ws == [window EXCEPT ![w] =
             [@ EXCEPT !.pc = "check", !.route = "candidate", !.batch = published,
                       !.latest = FALSE, !.probe = FALSE]]
<1>1. LedgerStep(w) /\ receipts' = receipts
  BY LedgerStays DEF CandidateAnswers
<1>2. window \in [Windows -> WindowType] /\ published \in Batches
  BY Facts DEF TypeOK
<1>3. /\ ws \in [Windows -> WindowType]
      /\ \A v \in Windows \ {w} : ws[v] = window[v]
      /\ ws[w].pc = "check" /\ ws[w].route = "candidate" /\ ws[w].probe = FALSE
  BY <1>2 DEF WindowType, Routes
<1>4. window' = Probes(ws, breaker') /\ breaker' = SucceededRow(w) /\ attempts' = attempts
  BY DEF CandidateAnswers
<1> HIDE DEF ws
<1>5. /\ window' \in [Windows -> WindowType]
      /\ \A v \in Windows :
           /\ window'[v].pc = ws[v].pc /\ window'[v].route = ws[v].route
           /\ window'[v].batch = ws[v].batch /\ window'[v].seen = ws[v].seen
           /\ window'[v].probe => ws[v].probe
           /\ breaker'.state = "closed" => window'[v].probe = FALSE
  BY ZenonT(60), <1>3, <1>4 DEF Probes, WindowType
<1>6. breaker' \in Breaker /\ (breaker' = breaker \/ breaker'.state = "closed")
  BY <1>4, Facts, RowsOfTheBreaker DEF SucceededRow
<1>7. SelectFrame(w)
  BY <1>3, <1>4, <1>5, <1>6, Facts DEF SelectFrame, Same, TypeOK
<1>8. Receiptless(w) /\ Asked(w, "failed", "running")
  BY Facts DEF CandidateAnswers, WindowSound
<1>9. WindowSound(w)' /\ Truthful(w)'
  BY <1>1, <1>3, <1>4, <1>5, <1>8
     DEF WindowSound, Truthful, Receiptless, NoReceipt, Asked, ByRoute, Over
<1>10. RowStep(w)
  BY <1>3, <1>5, <1>6 DEF RowStep, Probing
<1> QED BY <1>1, <1>7, <1>9, <1>10 DEF SelectStep

LEMMA CheckStep ==
  ASSUME LedgerInv, NEW w \in Windows, CheckBatch(w)
  PROVE SelectStep(w) /\ RowStep(w)
<1> DEFINE rows == IF source = "bcb_sgs" THEN current ELSE window[w].seen
           step == IF Accepted(window[w].batch, rows) THEN "persist" ELSE "unsure"
<1>1. LedgerStep(w) /\ receipts' = receipts
  BY LedgerStays DEF CheckBatch
<1>2. window \in [Windows -> WindowType] /\ rows \in Batches
  BY Facts DEF TypeOK, WindowType
<1>3. /\ window' = [window EXCEPT ![w] = [@ EXCEPT !.seen = rows, !.pc = step]]
      /\ attempts' = attempts /\ breaker' = breaker
  BY DEF CheckBatch
<1>4. /\ step \in {"persist", "unsure"}
      /\ step = "persist" => ~Revises(window[w].batch, rows)
  BY DEF Accepted
<1> HIDE DEF rows, step
<1>5. /\ window' \in [Windows -> WindowType]
      /\ \A v \in Windows \ {w} : window'[v] = window[v]
      /\ window'[w].pc = step /\ window'[w].seen = rows
      /\ window'[w].route = window[w].route /\ window'[w].batch = window[w].batch
  BY <1>2, <1>3, <1>4 DEF WindowType
<1>6. Receiptless(w) /\ ByRoute(w)
  BY Facts DEF CheckBatch, WindowSound
<1>7. WindowSound(w)' /\ Truthful(w)'
  BY <1>1, <1>3, <1>4, <1>5, <1>6
     DEF WindowSound, Truthful, Receiptless, NoReceipt, Asked, ByRoute, Over, Revises, Rows
<1>8. SelectFrame(w)
  BY <1>3, <1>5, Facts DEF SelectFrame, Same, TypeOK
<1>9. RowStep(w)
  BY <1>3, <1>4, <1>5 DEF RowStep, Probing
<1> QED BY <1>1, <1>7, <1>8, <1>9 DEF SelectStep

LEMMA PersistStep ==
  ASSUME LedgerInv, NEW w \in Windows, PersistWindow(w), source' = source
  PROVE SelectStep(w) /\ RowStep(w)
<1> DEFINE batch == window[w].batch
<1>1. /\ Receiptless(w) /\ ByRoute(w) /\ batch \in Batches
      /\ window[w].route \in Routes /\ window \in [Windows -> WindowType]
  BY Facts DEF PersistWindow, WindowSound, ByRoute, Routes, TypeOK, WindowType
<1>2. attempts' = attempts /\ breaker' = breaker
  BY DEF PersistWindow
<1>3. PICK step \in {"stored", "unsure"} :
        /\ window' = [window EXCEPT ![w] = [@ EXCEPT !.pc = step, !.seen = NoBatch]]
        /\ \/ Committed(w, window[w].route, batch, Rows(batch))
           \/ step = "unsure" /\ UNCHANGED ledger
  BY DEF PersistWindow, Compared
<1>4. /\ window' \in [Windows -> WindowType]
      /\ \A v \in Windows \ {w} : window'[v] = window[v]
      /\ window'[w].pc = step
      /\ window'[w].route = window[w].route /\ window'[w].batch = batch
  BY ZenonT(60), <1>1, <1>3, EmptyBatch DEF WindowType
<1>5. /\ LedgerStep(w)
      /\ \/ receipts'[w] = [route |-> window[w].route, batch |-> batch]
         \/ step = "unsure" /\ receipts' = receipts
  <2>1. CASE Committed(w, window[w].route, batch, Rows(batch))
    BY <1>1, <2>1, Facts, CommittedKeeps DEF LedgerStep, LedgerInv
  <2>2. CASE step = "unsure" /\ UNCHANGED ledger
    BY <2>2, LedgerStays
  <2> QED BY <1>3, <2>1, <2>2
<1> HIDE DEF batch
<1>6. WindowSound(w)'
  BY <1>1, <1>2, <1>4, <1>5
     DEF WindowSound, Receiptless, Receipted, Asked, ByRoute, Over
<1>7. Truthful(w)'
  BY <1>1, <1>2, <1>4, <1>5
     DEF Truthful, Receiptless, NoReceipt, Asked, ByRoute
<1>8. SelectFrame(w)
  BY <1>2, <1>4, Facts DEF SelectFrame, Same, TypeOK
<1>9. RowStep(w)
  BY <1>2, <1>4 DEF RowStep, Probing
<1> QED BY <1>5, <1>6, <1>7, <1>8, <1>9 DEF SelectStep

(* A window whose commit is not proven, or not closed, ends as failed.     *)
LEMMA UnstoredStep ==
  ASSUME LedgerInv, NEW w \in Windows, NEW status \in {"persistence_error", "failed"},
         Unstored(w, status), window[w].pc \in {"unsure", "stored"},
         status = "persistence_error" => Receiptless(w)
  PROVE SelectStep(w) /\ RowStep(w)
<1>1. LedgerStep(w) /\ receipts' = receipts
  BY LedgerStays DEF Unstored
<1>2. SelectFrame(w) /\ window'[w].pc = "failed" /\ ~window'[w].probe
  BY Facts, UnstoredFrame DEF Statuses
<1>3. ByRoute(w)
  BY Facts DEF WindowSound
<1>4. WindowSound(w)' /\ Truthful(w)'
  <2>1. CASE window[w].route = "candidate"
    <3>1. attempts[w]["candidate"] = "running"
      BY <1>3, <2>1 DEF ByRoute, Asked
    <3>2. attempts'[w]["candidate"] = status /\ attempts'[w]["primary"] = attempts[w]["primary"]
      BY <2>1, <3>1, Facts, FinishedMoves DEF Unstored, Routes, Statuses
    <3> QED BY <1>1, <1>2, <3>1, <3>2, EndsTrue
  <2>2. CASE window[w].route # "candidate"
    <3>1. attempts' = attempts
      BY <2>2 DEF Unstored
    <3> QED BY <1>1, <1>2, <3>1, EndsTrue
  <2> QED BY <2>1, <2>2
<1>5. breaker' \in {breaker, ReleasedRow}
  BY DEF Unstored
<1> QED BY <1>1, <1>2, <1>4, <1>5 DEF SelectStep, RowStep, Probing

LEMMA ReconcileStep ==
  ASSUME LedgerInv, NEW w \in Windows, ReconcileWindow(w)
  PROVE SelectStep(w) /\ RowStep(w)
<1>1. ByRoute(w) /\ (Receiptless(w) \/ Receipted(w)) /\ window[w].pc = "unsure"
  BY Facts DEF WindowSound, ReconcileWindow
<1>2. CASE Receipted(w) /\ Moves(w, "stored") /\ UNCHANGED <<ledger, breaker, attempts>>
  <2>1. LedgerStep(w) /\ receipts' = receipts
    BY <1>2, LedgerStays
  <2>2. /\ window' \in [Windows -> WindowType]
        /\ \A v \in Windows \ {w} : window'[v] = window[v]
        /\ window'[w].pc = "stored" /\ window'[w].route = window[w].route
        /\ window'[w].batch = window[w].batch
    BY ZenonT(60), <1>2, Facts, OnMoves DEF WindowType
  <2>3. attempts' = attempts /\ breaker' = breaker
    BY <1>2
  <2>4. WindowSound(w)' /\ Truthful(w)'
    BY <1>1, <1>2, <2>1, <2>2, <2>3, Facts
       DEF WindowSound, Truthful, Receiptless, Receipted, Asked, ByRoute, Over
  <2>5. SelectFrame(w)
    BY <2>2, <2>3, Facts DEF SelectFrame, Same, TypeOK
  <2> QED BY <2>1, <2>2, <2>3, <2>4, <2>5 DEF SelectStep, RowStep, Probing
<1>3. CASE ~Receipted(w) /\ Unstored(w, "persistence_error")
  BY <1>1, <1>3, UnstoredStep
<1>4. CASE Unstored(w, "failed")
  BY <1>1, <1>4, UnstoredStep
<1> QED BY <1>2, <1>3, <1>4 DEF ReconcileWindow

LEMMA CloseStep ==
  ASSUME LedgerInv, NEW w \in Windows, CloseWindow(w)
  PROVE SelectStep(w) /\ RowStep(w)
<1>1. ByRoute(w) /\ Receipted(w) /\ window[w].pc = "stored"
  BY Facts DEF WindowSound, CloseWindow
<1>2. CASE Unstored(w, "failed")
  BY <1>1, <1>2, UnstoredStep
<1>3. CASE ~Unstored(w, "failed")
  <2>1. /\ IF window[w].route = "candidate" THEN Finished(w, "candidate", "success")
           ELSE UNCHANGED attempts
        /\ Moves(w, "saved")
        /\ UNCHANGED <<ledger, breaker>>
    BY <1>3 DEF CloseWindow
  <2>2. LedgerStep(w) /\ receipts' = receipts
    BY <2>1, LedgerStays
  <2>3. /\ window' \in [Windows -> WindowType]
        /\ \A v \in Windows \ {w} : window'[v] = window[v]
        /\ window'[w].pc = "saved"
    BY <2>1, Facts, EndMoves DEF Moves, Over
  <2>4. /\ attempts' \in [Windows -> [Routes -> Statuses]]
        /\ \A v \in Windows \ {w} : attempts'[v] = attempts[v]
        /\ attempts'[w]["primary"] = attempts[w]["primary"]
        /\ window[w].route = "candidate" => attempts'[w]["candidate"] = "success"
        /\ window[w].route # "candidate" => attempts' = attempts
    <3>1. CASE window[w].route = "candidate"
      BY <1>1, <2>1, <3>1, Facts, FinishedMoves DEF ByRoute, Asked, Routes, Statuses
    <3>2. CASE window[w].route # "candidate"
      BY <2>1, <3>2, Facts DEF TypeOK
    <3> QED BY <3>1, <3>2
  <2>5. receipts[w].route = window[w].route
    BY <1>1 DEF Receipted
  <2>6. Truthful(w)'
    BY <1>1, <2>2, <2>3, <2>4, <2>5 DEF Truthful, ByRoute, Asked, Routes
  <2>7. WindowSound(w)'
    BY <2>3 DEF WindowSound
  <2>8. SelectFrame(w)
    BY <2>1, <2>3, <2>4, Facts DEF SelectFrame, Same, TypeOK
  <2>9. RowStep(w)
    BY <2>1, <2>3 DEF RowStep, Probing
  <2> QED BY <2>2, <2>6, <2>7, <2>8, <2>9 DEF SelectStep
<1> QED BY <1>2, <1>3

LEMMA DiesStep ==
  ASSUME LedgerInv, NEW w \in Windows, WindowDies(w)
  PROVE SelectStep(w) /\ RowStep(w)
<1>1. LedgerStep(w) /\ receipts' = receipts
  BY LedgerStays DEF WindowDies
<1>2. /\ window' \in [Windows -> WindowType]
      /\ \A v \in Windows \ {w} : window'[v] = window[v]
      /\ window'[w].pc = "failed"
  BY Facts, EndFails DEF WindowDies, Moves
<1>3. attempts' = attempts /\ breaker' = breaker /\ window[w].pc # "saved"
  BY DEF WindowDies, Alive, Over
<1>4. WindowSound(w)' /\ Truthful(w)'
  BY <1>1, <1>2, <1>3, EndsTrue
<1>5. SelectFrame(w)
  BY <1>2, <1>3, Facts DEF SelectFrame, Same, TypeOK
<1> QED BY <1>1, <1>2, <1>3, <1>4, <1>5 DEF SelectStep, RowStep, Probing

LEMMA AgainStep ==
  ASSUME LedgerInv, NEW w \in Windows, Again(w)
  PROVE SelectStep(w) /\ RowStep(w)
<1>1. LedgerStep(w) /\ receipts' = receipts
  BY LedgerStays DEF Again
<1>2. /\ window' \in [Windows -> WindowType]
      /\ \A v \in Windows \ {w} : window'[v] = window[v]
      /\ window'[w].pc = "idle"
  BY Facts, EmptyBatch DEF Again, Unfetched, TypeOK, WindowType
<1>3. /\ attempts' \in [Windows -> [Routes -> Statuses]]
      /\ \A v \in Windows \ {w} : attempts'[v] = attempts[v]
      /\ attempts'[w]["primary"] = "none" /\ attempts'[w]["candidate"] = "none"
  BY Facts DEF Again, Unasked, TypeOK, Routes, Statuses
<1>4. Receiptless(w) /\ breaker' = breaker
  BY DEF Again
<1>5. WindowSound(w)' /\ Truthful(w)'
  BY <1>1, <1>2, <1>3, <1>4 DEF WindowSound, Truthful, Receiptless, NoReceipt, Asked, Over
<1>6. SelectFrame(w)
  BY <1>2, <1>3, <1>4, Facts DEF SelectFrame, Same, TypeOK
<1> QED BY <1>1, <1>2, <1>4, <1>5, <1>6 DEF SelectStep, RowStep, Probing

-----------------------------------------------------------------------------
(* The steps of a refresh keep the invariant *)

LEMMA SelectKeeps ==
  ASSUME LedgerInv, NEW w \in Windows, SelectStep(w),
         UNCHANGED <<source, published, deployed, canaries>>
  PROVE /\ TypeOK' /\ RequestsSound' /\ WindowsSound'
        /\ AllOrNothing' /\ ValuesHaveVintages' /\ AttemptsTrue'
<1>1. TypeOK /\ w \in Ids /\ w \notin Ops
  BY Facts, CanaryAssumption
<1>2. bindings' = bindings /\ extractions' = extractions /\ request' = request
  BY DEF canaries
<1>3. LedgerStep(w) /\ SelectFrame(w)
  BY DEF SelectStep
<1>4. TypeOK'
  BY <1>1, <1>2, <1>3 DEF TypeOK, LedgerStep, LedgerType, SelectFrame
<1>5. RequestsSound'
  <2> SUFFICES ASSUME NEW q \in Requests PROVE RequestSound(q)'
    BY DEF RequestsSound
  <2>1. RequestSound(q) /\ Rows(request[q].batch) \subseteq Dates
    BY DEF LedgerInv, RequestsSound, Rows
  <2>2. \A d \in Dates : vintages[d] \subseteq vintages'[d]
    BY <1>3 DEF LedgerStep
  <2> QED BY <1>2, <2>1, <2>2 DEF RequestSound
<1>6. ASSUME NEW v \in Windows \ {w}
      PROVE WindowSound(v)' /\ Truthful(v)'
  <2>1. WindowSound(v) /\ Truthful(v)
    BY Facts
  <2>2. receipts'[v] = receipts[v] /\ attempts'[v] = attempts[v] /\ Same(v)
    BY <1>3, SelectionAssumption DEF LedgerStep, SelectFrame
  <2>3. WindowSound(v)'
    BY <2>1, <2>2
       DEF WindowSound, Same, Receiptless, Receipted, Asked, ByRoute, Revises, Rows
  <2>4. Truthful(v)'
    BY <2>1, <2>2 DEF Truthful, Same
  <2> QED BY <2>3, <2>4
<1>7. WindowsSound' /\ AttemptsTrue'
  BY <1>6 DEF SelectStep, WindowsSound, AttemptsTrue
<1>8. AllOrNothing'
  <2>1. \A o \in Ops : receipts'[o] = receipts[o]
    BY <1>1, <1>3, CanaryAssumption DEF LedgerStep
  <2>2. \A o \in Ops : (Bound(o) <=> ~Receiptless(o))'
    BY <1>2, <2>1 DEF LedgerInv, AllOrNothing, Bound, Receiptless
  <2> QED BY <1>3, <2>2 DEF LedgerStep, Origins, AllOrNothing
<1> QED BY <1>3, <1>4, <1>5, <1>7, <1>8 DEF LedgerStep

(* A released row waits, and a probe that still asks is safe by that wait. *)
LEMMA RowKeeps ==
  ASSUME LedgerInv, NEW w \in Windows, SelectFrame(w), RowStep(w)
  PROVE ProbeGuarded' /\ OneCandidateProbe'
<1>1. ASSUME NEW v \in Windows, Probing(v)' PROVE v # w /\ Probing(v)
  BY <1>1 DEF SelectFrame, Same, RowStep, Probing
<1>2. OneCandidateProbe'
  BY <1>1 DEF LedgerInv, OneCandidateProbe
<1>3. ASSUME NEW v \in Windows, Probing(v)'
      PROVE (\/ breaker.state = "half_open" /\ breaker.holder = v
             \/ breaker.state = "open" /\ breaker.waits)'
  <2>1. \/ breaker.state = "half_open" /\ breaker.holder = v
        \/ breaker.state = "open" /\ breaker.waits
    BY <1>1, <1>3 DEF LedgerInv, ProbeGuarded
  <2>2. CASE breaker' = breaker
    BY <2>1, <2>2
  <2>3. CASE breaker' = ReleasedRow
    BY <2>1, <2>3, Facts DEF ReleasedRow, TypeOK, Breaker
  <2>4. CASE breaker'.state = "open" /\ breaker'.waits
    BY <2>4
  <2> QED BY <1>3, <2>2, <2>3, <2>4 DEF RowStep
<1> QED BY <1>2, <1>3 DEF ProbeGuarded

(* A claim of an open circuit finds nobody asking.                         *)
LEMMA ClaimKeeps ==
  ASSUME LedgerInv, NEW w \in Windows, ClaimCandidate(w)
  PROVE ProbeGuarded' /\ OneCandidateProbe'
<1>1. /\ SelectFrame(w) /\ breaker' = ClaimedRow(w) /\ Claimable
      /\ window'[w].probe <=> breaker.state # "closed"
  BY ClaimStep DEF SelectStep
<1>2. ASSUME NEW v \in Windows \ {w}, Probing(v)' PROVE Probing(v)
  BY <1>1, <1>2 DEF SelectFrame, Same, Probing
<1>3. ASSUME NEW v \in Windows PROVE ~Probing(v)
  BY <1>1, SelectionAssumption, Facts
     DEF LedgerInv, ProbeGuarded, Claimable, Leased, TypeOK, Breaker
<1>4. Probing(w)' => breaker.state # "closed"
  BY <1>1 DEF Probing
<1>5. breaker.state # "closed" => breaker'.state = "half_open" /\ breaker'.holder = w
  BY <1>1, Facts DEF ClaimedRow, TypeOK, Breaker
<1> QED BY <1>2, <1>3, <1>4, <1>5 DEF ProbeGuarded, OneCandidateProbe

LEMMA RefreshKeeps ==
  ASSUME LedgerInv, Refresh, UNCHANGED canaries
  PROVE LedgerInv'
<1>1. UNCHANGED <<source, published, deployed>>
  BY DEF Refresh
<1>2. ASSUME NEW w \in Windows, Select(w)
      PROVE SelectStep(w) /\ ProbeGuarded' /\ OneCandidateProbe'
  <2>1. CASE ClaimCandidate(w)
    BY <2>1, ClaimStep, ClaimKeeps
  <2>2. CASE ~ClaimCandidate(w)
    <3>1. SelectStep(w) /\ RowStep(w)
      BY <1>1, <1>2, <2>2, BeginStep, LegacyStep, PrimaryAnswersStep, PrimaryRefusesStep,
         FallsStep, DeniedStep, CandidateAnswersStep, CandidateFailsStep, CheckStep,
         PersistStep, ReconcileStep, CloseStep, DiesStep, AgainStep DEF Select
    <3> QED BY <3>1, RowKeeps DEF SelectStep
  <2> QED BY <2>1, <2>2
<1>3. CASE \E w \in Windows : Select(w)
  BY <1>1, <1>2, <1>3, SelectKeeps DEF LedgerInv
<1>4. ASSUME breaker' \in Breaker, UNCHANGED <<ledger, attempts, window>>,
             ProbeGuarded'
      PROVE LedgerInv'
  <2>1. TypeOK'
    BY <1>1, <1>4 DEF LedgerInv, TypeOK, ledger, canaries
  <2>2. RequestsSound' /\ AllOrNothing' /\ ValuesHaveVintages'
    BY <1>4 DEF LedgerInv, RequestsSound, RequestSound, AllOrNothing, ValuesHaveVintages,
       ledger, canaries, Bound, Receiptless
  <2>3. WindowsSound' /\ AttemptsTrue' /\ OneCandidateProbe'
    BY <1>4 DEF LedgerInv, WindowsSound, WindowSound, AttemptsTrue, Truthful, OneCandidateProbe,
       ledger, Receiptless, Receipted, Asked, ByRoute, Probing
  <2> QED BY <1>4, <2>1, <2>2, <2>3 DEF LedgerInv
<1>5. CASE WaitEnds
  <2>1. breaker' \in Breaker
    BY <1>5 DEF WaitEnds, LedgerInv, TypeOK, Breaker
  <2>2. ProbeGuarded'
    BY <1>5 DEF WaitEnds, ProbeGuarded, Probing
  <2> QED BY <1>4, <1>5, <2>1, <2>2 DEF WaitEnds
<1>6. CASE LeaseEnds
  <2>1. breaker' = [breaker EXCEPT !.holder = NoHolder] /\ breaker \in Breaker
    BY <1>6 DEF LeaseEnds, LedgerInv, TypeOK
  <2>2. breaker' \in Breaker /\ breaker'.state = breaker.state /\ breaker'.waits = breaker.waits
    BY <2>1 DEF Breaker
  <2>3. ProbeGuarded'
    BY <1>6, <2>2 DEF LeaseEnds, LedgerInv, ProbeGuarded, Probing
  <2> QED BY <1>4, <1>6, <2>2, <2>3 DEF LeaseEnds
<1> QED BY <1>3, <1>5, <1>6 DEF Refresh

-----------------------------------------------------------------------------
(* The steps of a canary keep the invariant *)

(* A step that writes none of the tables.                                  *)
LEMMA CanaryReads ==
  ASSUME LedgerInv, NEW q \in Requests,
         request' \in [Requests -> RequestType],
         \A p \in Requests \ {q} : request'[p] = request[p],
         RequestSound(q)', extractions' \in SUBSET Ops,
         UNCHANGED <<ledger, bindings, source, published, deployed, selection>>
  PROVE LedgerInv'
<1>1. TypeOK'
  BY DEF LedgerInv, TypeOK, ledger, selection
<1>2. RequestsSound'
  <2>1. ASSUME NEW p \in Requests \ {q} PROVE RequestSound(p)'
    BY DEF LedgerInv, RequestsSound, RequestSound, ledger
  <2> QED BY <2>1 DEF RequestsSound
<1>3. AllOrNothing' /\ ValuesHaveVintages'
  BY DEF LedgerInv, AllOrNothing, ValuesHaveVintages, ledger, Bound, Receiptless
<1>4. WindowsSound' /\ AttemptsTrue' /\ OneCandidateProbe' /\ ProbeGuarded'
  BY DEF LedgerInv, WindowsSound, WindowSound, AttemptsTrue, Truthful, OneCandidateProbe,
     ProbeGuarded, ledger, selection, Receiptless, Receipted, Asked, ByRoute, Probing
<1> QED BY <1>1, <1>2, <1>3, <1>4 DEF LedgerInv

LEMMA IdleRequest == Idle \in RequestType /\ Idle.pc = "idle"
BY EmptyBatch, LedgerAssumption DEF Idle, RequestType

(* What a request knows of itself.                                         *)
LEMMA RequestFacts ==
  ASSUME LedgerInv, NEW q \in Requests
  PROVE /\ TypeOK /\ LedgerType /\ Origins /\ RequestSound(q)
        /\ request \in [Requests -> RequestType] /\ request[q] \in RequestType
        /\ request[q].batch \in Batches /\ published \in Batches /\ current \in Batches
BY DEF LedgerInv, TypeOK, LedgerType, Origins, AllOrNothing, RequestsSound, RequestType

LEMMA RepliesKeeps ==
  ASSUME LedgerInv, NEW q \in Requests, Replies(q), extractions' \in SUBSET Ops,
         UNCHANGED <<ledger, bindings, source, published, deployed, selection>>
  PROVE LedgerInv'
<1>1. /\ request' \in [Requests -> RequestType]
      /\ \A p \in Requests \ {q} : request'[p] = request[p]
      /\ request'[q].pc = "idle"
  BY RequestFacts, IdleRequest DEF Replies
<1>2. RequestSound(q)'
  BY <1>1 DEF RequestSound, Working
<1> QED BY <1>1, <1>2, CanaryReads

LEMMA EnterKeeps ==
  ASSUME LedgerInv, NEW q \in Requests, Enter(q),
         UNCHANGED <<source, published, deployed, selection>>
  PROVE LedgerInv'
<1>1. PICK o \in Ops : request' = [request EXCEPT ![q] = [Idle EXCEPT !.pc = "start", !.op = o]]
  BY DEF Enter
<1>2. /\ request' \in [Requests -> RequestType]
      /\ \A p \in Requests \ {q} : request'[p] = request[p]
      /\ request'[q].pc = "start" /\ request'[q].op \in Ops
  <2> DEFINE entered == [Idle EXCEPT !.pc = "start", !.op = o]
  <2>1. entered \in RequestType /\ entered.pc = "start" /\ entered.op = o
    BY IdleRequest DEF RequestType, Working
  <2>2. request' = [request EXCEPT ![q] = entered]
    BY <1>1
  <2> HIDE DEF entered
  <2> QED BY <2>1, <2>2, RequestFacts
<1>3. RequestSound(q)'
  BY <1>2 DEF RequestSound, Working
<1>4. extractions' \in SUBSET Ops
  BY RequestFacts DEF Enter, TypeOK
<1> QED BY <1>2, <1>3, <1>4, CanaryReads DEF Enter

LEMMA StartKeeps ==
  ASSUME LedgerInv, NEW q \in Requests, Start(q),
         UNCHANGED <<source, published, deployed, selection>>
  PROVE LedgerInv'
<1>1. request[q].op \in Ops /\ extractions \in SUBSET Ops
  BY RequestFacts DEF Start, RequestSound, TypeOK
<1>2. CASE Replies(q) /\ UNCHANGED extractions
  BY <1>1, <1>2, RepliesKeeps DEF Start
<1>3. ASSUME NEW a \in AsOfs, extractions' = extractions \cup {request[q].op},
             request' = [request EXCEPT ![q] = [@ EXCEPT !.pc = "candidate", !.as_of = a]]
      PROVE LedgerInv'
  <2>1. a \in Dates /\ a \in 0 .. LastDay
    BY LedgerAssumption DEF AsOfs, Dates
  <2>2. /\ request' \in [Requests -> RequestType]
        /\ \A p \in Requests \ {q} : request'[p] = request[p]
        /\ request'[q].pc = "candidate" /\ request'[q].op \in Ops /\ request'[q].as_of \in Dates
    BY <1>1, <1>3, <2>1, RequestFacts DEF RequestType, Working
  <2>3. RequestSound(q)'
    BY <2>2 DEF RequestSound
  <2> QED BY <1>1, <1>3, <2>2, <2>3, CanaryReads DEF Start
<1> QED BY <1>2, <1>3 DEF Start

LEMMA AcquirePrimaryKeeps ==
  ASSUME LedgerInv, NEW q \in Requests, AcquirePrimary(q),
         UNCHANGED <<source, published, deployed, selection>>
  PROVE LedgerInv'
<1>1. extractions' \in SUBSET Ops
  BY RequestFacts DEF AcquirePrimary, TypeOK
<1>2. CASE Replies(q)
  BY <1>1, <1>2, RepliesKeeps DEF AcquirePrimary
<1>3. CASE request' = [request EXCEPT ![q] =
                         [@ EXCEPT !.pc = "compare", !.batch = FromPrimary(q)]]
  <2>1. FromPrimary(q) \in Batches
    BY RequestFacts, UptoBatch, CohortBatch DEF FromPrimary, Answered
  <2>2. /\ request' \in [Requests -> RequestType]
        /\ \A p \in Requests \ {q} : request'[p] = request[p]
        /\ request'[q].pc = "compare" /\ request'[q].op = request[q].op
        /\ request'[q].as_of = request[q].as_of
    BY <1>3, <2>1, RequestFacts DEF RequestType, Working
  <2>3. RequestSound(q)'
    BY <2>2, RequestFacts DEF RequestSound, AcquirePrimary, Working
  <2> QED BY <1>1, <2>2, <2>3, CanaryReads DEF AcquirePrimary
<1> QED BY <1>2, <1>3 DEF AcquirePrimary

LEMMA AcquireCandidateKeeps ==
  ASSUME LedgerInv, NEW q \in Requests, AcquireCandidate(q),
         UNCHANGED <<source, published, deployed, selection>>
  PROVE LedgerInv'
<1>1. extractions' \in SUBSET Ops
  BY RequestFacts DEF AcquireCandidate, TypeOK
<1>2. CASE Replies(q)
  BY <1>1, <1>2, RepliesKeeps DEF AcquireCandidate
<1>3. CASE To(q, "prior")
  <2>1. /\ request' \in [Requests -> RequestType]
        /\ \A p \in Requests \ {q} : request'[p] = request[p]
        /\ request'[q].pc = "prior" /\ request'[q].op = request[q].op
        /\ request'[q].as_of = request[q].as_of
    BY <1>3, RequestFacts DEF To, RequestType, Working
  <2>2. RequestSound(q)'
    BY <2>1, RequestFacts DEF RequestSound, AcquireCandidate, Working
  <2> QED BY <1>1, <2>1, <2>2, CanaryReads DEF AcquireCandidate
<1> QED BY <1>2, <1>3 DEF AcquireCandidate

(* What is no new row is stored already, and no conflict: it has a vintage. *)
LEMMA ReadPriorKeeps ==
  ASSUME LedgerInv, NEW q \in Requests, ReadPrior(q),
         UNCHANGED <<source, published, deployed, selection>>
  PROVE LedgerInv'
<1> DEFINE batch == request[q].batch
<1>1. extractions' \in SUBSET Ops
  BY RequestFacts DEF ReadPrior, TypeOK
<1>2. CASE Replies(q)
  BY <1>1, <1>2, RepliesKeeps DEF ReadPrior
<1>3. CASE /\ ~Conflicts(batch)
           /\ request' = [request EXCEPT ![q] =
                            [@ EXCEPT !.pc = "persist", !.inserted = Inserted(batch)]]
  <2>1. Inserted(batch) \in SUBSET Dates /\ vintages' = vintages
    BY RequestFacts, BatchRows DEF Inserted, ReadPrior, ledger
  <2>2. /\ request' \in [Requests -> RequestType]
        /\ \A p \in Requests \ {q} : request'[p] = request[p]
        /\ request'[q].pc = "persist" /\ request'[q].op = request[q].op
        /\ request'[q].as_of = request[q].as_of
        /\ request'[q].batch = batch /\ request'[q].inserted = Inserted(batch)
    BY <1>3, <2>1, RequestFacts DEF RequestType, Working
  <2>3. ASSUME NEW d \in Rows(batch) \ Inserted(batch) PROVE batch[d] \in vintages[d]
    <3>1. d \in Dates /\ current[d] # 0 /\ current[d] = batch[d]
      BY <1>3 DEF Inserted, Conflicts, Revises, Rows
    <3> QED BY <3>1 DEF LedgerInv, ValuesHaveVintages, Rows
  <2> HIDE DEF batch
  <2>4. Inserted(batch) \subseteq Rows(batch)
    BY DEF Inserted
  <2>5. RequestSound(q)'
    BY <2>1, <2>2, <2>3, <2>4, RequestFacts DEF RequestSound, ReadPrior, Working
  <2> QED BY <1>1, <2>2, <2>5, CanaryReads DEF ReadPrior
<1> QED BY <1>2, <1>3 DEF ReadPrior

LEMMA PersistKeeps ==
  ASSUME LedgerInv, NEW q \in Requests, Persist(q),
         UNCHANGED <<source, published, deployed, selection>>
  PROVE LedgerInv'
<1> DEFINE o == request[q].op
           batch == request[q].batch
<1>1. extractions' \in SUBSET Ops
  BY RequestFacts DEF Persist, TypeOK
<1>2. CASE UNCHANGED <<ledger, bindings>>
  BY <1>1, <1>2, RepliesKeeps DEF Persist
<1>3. CASE Committed(o, "candidate", batch, Changed(q)) /\ Binds(q)
  <2>1. /\ o \in Ops /\ o \in Ids /\ o \notin Windows
        /\ request[q].as_of \in Dates /\ request[q].as_of \in 0 .. LastDay
        /\ request[q].as_of # 0
    BY RequestFacts, CanaryAssumption, LedgerAssumption
       DEF Persist, RequestSound, Working, RequestType, Dates
  <2>2. /\ batch \in Batches /\ Changed(q) \in SUBSET Rows(batch)
        /\ \A d \in Rows(batch) \ Changed(q) : batch[d] \in vintages[d]
    BY RequestFacts DEF Changed, Persist, RequestSound
  <2> HIDE DEF batch
  <2>3. LedgerStep(o) /\ receipts'[o] = [route |-> "candidate", batch |-> batch]
    BY <1>3, <2>1, <2>2, RequestFacts, CommittedKeeps DEF LedgerInv, LedgerStep, Routes
  <2>4. /\ request' \in [Requests -> RequestType]
        /\ \A p \in Requests \ {q} : request'[p] = request[p]
        /\ request'[q].pc = "idle"
    BY RequestFacts, IdleRequest DEF Persist, Replies
  <2>5. /\ bindings' \in [Ops -> 0 .. LastDay]
        /\ bindings'[o] = request[q].as_of
        /\ \A p \in Ops \ {o} : bindings'[p] = bindings[p]
    BY <1>3, <2>1, RequestFacts DEF Binds, TypeOK
  <2> HIDE DEF o
  <2>6. TypeOK'
    BY <1>1, <2>3, <2>4, <2>5, RequestFacts DEF TypeOK, LedgerStep, LedgerType, selection
  <2>7. ASSUME NEW p \in Requests PROVE RequestSound(p)'
    <3>1. CASE p = q
      BY <2>4, <3>1 DEF RequestSound, Working
    <3>2. CASE p # q
      <4>1. RequestSound(p) /\ Rows(request[p].batch) \subseteq Dates /\ request'[p] = request[p]
        BY <2>4, <3>2, RequestFacts, BatchRows
      <4>2. \A d \in Dates : vintages[d] \subseteq vintages'[d]
        BY <2>3 DEF LedgerStep
      <4> QED BY <4>1, <4>2 DEF RequestSound
    <3> QED BY <3>1, <3>2
  <2>8. \A w \in Windows : receipts'[w] = receipts[w]
    BY <2>1, <2>3, SelectionAssumption DEF LedgerStep
  <2>9. WindowsSound' /\ AttemptsTrue' /\ OneCandidateProbe' /\ ProbeGuarded'
    BY <2>8 DEF LedgerInv, WindowsSound, WindowSound, AttemptsTrue, Truthful, OneCandidateProbe,
       ProbeGuarded, selection, Receiptless, Receipted, Asked, ByRoute, Probing
  <2>10. AllOrNothing'
    <3>1. ASSUME NEW p \in Ops PROVE (Bound(p) <=> ~Receiptless(p))'
      <4>1. CASE p = o
        BY <2>1, <2>3, <2>5, <4>1 DEF Bound, Receiptless, NoReceipt
      <4>2. CASE p # o
        <5>1. receipts'[p] = receipts[p]
          BY <2>3, <4>2, CanaryAssumption DEF LedgerStep
        <5> QED BY <2>5, <4>2, <5>1 DEF LedgerInv, AllOrNothing, Bound, Receiptless
      <4> QED BY <4>1, <4>2
    <3> QED BY <2>3, <3>1 DEF LedgerStep, Origins, AllOrNothing
  <2> QED BY <2>3, <2>6, <2>7, <2>9, <2>10 DEF LedgerInv, LedgerStep, RequestsSound
<1> QED BY <1>2, <1>3 DEF Persist

LEMMA CanaryKeeps ==
  ASSUME LedgerInv, NEW q \in Requests, Canary(q)
  PROVE LedgerInv'
<1>1. UNCHANGED <<source, published, deployed, selection>>
  BY DEF Canary
<1>2. CASE Die(q)
  BY <1>1, <1>2, RepliesKeeps, RequestFacts DEF Die, TypeOK
<1> QED BY <1>1, <1>2, EnterKeeps, StartKeeps, AcquirePrimaryKeeps, AcquireCandidateKeeps,
           ReadPriorKeeps, PersistKeeps DEF Canary

-----------------------------------------------------------------------------
(* The invariant holds *)

LEMMA InitHolds == Init => LedgerInv
<1> SUFFICES ASSUME Init PROVE LedgerInv
  OBVIOUS
<1> USE DEF Init, InitSelection, InitLedger
<1>1. /\ breaker \in Breaker /\ attempts \in [Windows -> [Routes -> Statuses]]
      /\ window \in [Windows -> WindowType]
  BY EmptyBatch DEF Breaker, Unasked, Unfetched, Routes, Statuses, WindowType
<1>2. /\ current \in Batches /\ published \in Batches
      /\ vintages \in [Dates -> SUBSET Values]
      /\ receipts \in [Ids -> [route : Routes \cup {"none"}, batch : Batches]]
      /\ origins \in [Ids -> SUBSET (Dates \X Values)]
  BY EmptyBatch
<1>3. bindings \in [Ops -> 0 .. LastDay] /\ request \in [Requests -> RequestType]
  BY IdleRequest, LedgerAssumption
<1>4. TypeOK
  BY <1>1, <1>2, <1>3 DEF TypeOK
<1>5. RequestsSound
  BY DEF RequestsSound, RequestSound, Idle, Working
<1>6. WindowsSound /\ AttemptsTrue /\ ProbeGuarded /\ OneCandidateProbe
  BY SelectionAssumption DEF WindowsSound, WindowSound, AttemptsTrue, Truthful, ProbeGuarded, OneCandidateProbe,
     Probing, Unfetched, Unasked, Asked, Receiptless, NoReceipt, Routes
<1>7. AllOrNothing
  BY EmptyBatch, CanaryAssumption DEF AllOrNothing, Bound, Receiptless, NoReceipt
<1>8. ValuesHaveVintages
  BY EmptyBatch DEF ValuesHaveVintages
<1> QED BY <1>4, <1>5, <1>6, <1>7, <1>8 DEF LedgerInv

LEMMA NextKeeps == LedgerInv /\ [Next]_vars => LedgerInv'
<1> SUFFICES ASSUME LedgerInv, [Next]_vars PROVE LedgerInv'
  OBVIOUS
<1>1. ASSUME published' \in Batches,
             UNCHANGED <<source, deployed, ledger, selection, canaries>>
      PROVE LedgerInv'
  BY <1>1 DEF LedgerInv, TypeOK, RequestsSound, RequestSound, WindowsSound, WindowSound,
     ProbeGuarded, AllOrNothing, ValuesHaveVintages, AttemptsTrue, Truthful, OneCandidateProbe,
     ledger, selection, canaries, Bound, Receiptless, Receipted, Asked, ByRoute, Probing
<1>2. CASE Publish
  <2>1. published' \in Batches
    BY <1>2, LedgerAssumption DEF Publish, Published, LedgerInv, TypeOK, Batches
  <2> QED BY <1>1, <1>2, <2>1 DEF Publish
<1>3. CASE UNCHANGED vars
  BY <1>1, <1>3 DEF vars, LedgerInv, TypeOK
<1> QED BY <1>2, <1>3, CanaryKeeps, RefreshKeeps DEF Next

(* The inductive invariant of CanaryLedger.                                *)
THEOREM LedgerHolds == Spec => []LedgerInv
BY InitHolds, NextKeeps, PTL DEF Spec

(* A canary leaves its binding, its receipt and the origins of its batch   *)
(* together or not at all (_persist_current_and_vintages), for any number  *)
(* of workers, operation ids and windows, whatever a crash cut short.      *)
THEOREM CanaryWhole == Spec => []AllOrNothing
<1>1. LedgerInv => AllOrNothing
  BY DEF LedgerInv
<1> QED BY <1>1, LedgerHolds, PTL

(* No current value and no attested value is without its vintage, though a *)
(* canary writes vintages for the rows only that were new when it read.    *)
THEOREM ValuesAttested == Spec => []ValuesHaveVintages
<1>1. LedgerInv => ValuesHaveVintages
  BY DEF LedgerInv
<1> QED BY <1>1, LedgerHolds, PTL

(* The rows of source_acquisition_attempts never contradict the receipt of *)
(* their window, whatever failed or died after its commit.                 *)
THEOREM AttemptsTell == Spec => []AttemptsTrue
<1>1. LedgerInv => AttemptsTrue
  BY DEF LedgerInv
<1> QED BY <1>1, LedgerHolds, PTL

(* At most one window at a time probes the candidate, although a denied    *)
(* request releases a lease that is another's.                             *)
THEOREM OneProbeOfCandidate == Spec => []OneCandidateProbe
<1>1. LedgerInv => OneCandidateProbe
  BY DEF LedgerInv
<1> QED BY <1>1, LedgerHolds, PTL

-----------------------------------------------------------------------------
(* A candidate revises nothing *)

(* A window's receipt is written by the commit of its batch and by no other *)
(* step.                                                                   *)
LEMMA ReceiptWritten ==
  ASSUME LedgerInv, [Next]_vars, NEW w \in Windows, receipts'[w] # receipts[w]
  PROVE /\ window[w].pc = "persist" /\ source' = source
        /\ Committed(w, window[w].route, window[w].batch, Rows(window[w].batch))
<1>1. ASSUME NEW q \in Requests, Canary(q) PROVE FALSE
  <2>1. receipts' # receipts
    OBVIOUS
  <2>2. Persist(q) /\ Committed(request[q].op, "candidate", request[q].batch, Changed(q))
    BY <1>1, <2>1 DEF Canary, Enter, Start, AcquirePrimary, AcquireCandidate, ReadPrior, Persist,
       Die, ledger
  <2>3. request[q].op \in Ops
    BY <2>2, RequestFacts DEF Persist, RequestSound
  <2> QED BY <2>2, <2>3, Facts, CanaryAssumption DEF Committed, LedgerType
<1>2. CASE Refresh
  <2>1. PICK v \in Windows : Select(v)
    BY <1>2 DEF Refresh, WaitEnds, LeaseEnds, ledger
  <2>2. /\ window[v].pc = "persist"
        /\ Committed(v, window[v].route, window[v].batch, Rows(window[v].batch))
    BY <2>1 DEF Select, BeginWindow, LegacyWindow, PrimaryAnswers, PrimaryRefuses, Falls,
       ClaimCandidate, DeniedCandidate, GivesUp, Fails, CandidateAnswers, CandidateFails,
       CheckBatch, PersistWindow, ReconcileWindow, CloseWindow, Unstored, WindowDies, Again,
       Upserted, ledger
  <2>3. v = w
    BY <2>2, Facts DEF Committed, LedgerType
  <2> QED BY <1>2, <2>2, <2>3 DEF Refresh
<1>3. CASE Publish \/ UNCHANGED vars
  BY <1>3 DEF Publish, vars, ledger
<1> QED BY <1>1, <1>2, <1>3 DEF Next

(* The commit of a candidate changes a value only if another commit put it *)
(* there after the candidate's batch was compared with the rows.           *)
THEOREM CandidateNeverRevises == Spec => CandidateKeeps
<1>1. ASSUME LedgerInv, [Next]_vars, NEW w \in Windows, NEW d \in Dates,
             receipts[w] = NoReceipt, receipts'[w].route = "candidate",
             current[d] # 0, current'[d] # current[d]
      PROVE current[d] # window[w].seen[d]
  <2> DEFINE batch == window[w].batch
  <2>1. /\ window[w].pc = "persist"
        /\ Committed(w, window[w].route, batch, Rows(batch))
    BY <1>1, ReceiptWritten DEF NoReceipt
  <2>2. window[w].route = "candidate"
    BY <1>1, <2>1, Facts DEF Committed, LedgerType
  <2>3. ~Revises(batch, window[w].seen) /\ batch \in Batches
    BY <1>1, <2>1, <2>2, Facts DEF WindowSound, WindowType
  <2>4. /\ d \in Rows(batch) /\ current'[d] = batch[d]
    BY <1>1, <2>1, <2>3, StoredRows, Facts DEF Committed
  <2> QED BY <1>1, <2>3, <2>4 DEF Revises
<1>2. LedgerInv /\ [Next]_vars =>
        [\A w \in Windows, d \in Dates :
           /\ receipts[w] = NoReceipt /\ receipts'[w].route = "candidate"
           /\ current[d] # 0 /\ current'[d] # current[d]
           => current[d] # window[w].seen[d]]_vars
  BY <1>1
<1> QED BY <1>2, LedgerHolds, PTL DEF Spec, CandidateKeeps

=============================================================================
