------------------------- MODULE CandidateSelection -------------------------
(***************************************************************************)
(* The refresh of one window of a series that has a reviewed alternative   *)
(* endpoint, its candidate (src/backend/candidate_acquisition.py): the     *)
(* primary is asked first; after a failure that says nothing of the data   *)
(* the candidate is, under a breaker of its own; one of the two batches is *)
(* committed with its receipt.  Each request has a row of                  *)
(* source_acquisition_attempts.  bcb_sgs.py and ibge_sidra.py say what is  *)
(* asked, what a candidate's batch is compared with, and how it is stored. *)
(*                                                                         *)
(* A window is an extraction of its own, run by any of several processes.  *)
(* A process may die, a write may fail, and the reply of a commit that     *)
(* stands may be lost.                                                     *)
(*                                                                         *)
(* An operator named X_Y above X is X with the mistake Y.                  *)
(***************************************************************************)
EXTENDS ObservationLedger, CandidateEligibility

CONSTANTS
  Windows,        \* the refreshes' windows
  Catalog,        \* what was deployed: profile, approval, contract
  MinReferences,  \* least references of a candidate's answer (10)
  ApprovedUntil   \* latest_reference of the approval's proof

NoHolder == "nobody"

ASSUME SelectionAssumption ==
  /\ IsFiniteSet(Windows) /\ Windows \subseteq Ids /\ NoHolder \notin Windows
  /\ MinReferences \in Nat /\ ApprovedUntil \in 0 .. LastDay

VARIABLES
  deployed,  \* of the catalog, which does not change
  breaker,   \* the candidate's breaker row
  attempts,  \* source_acquisition_attempts: window -> route -> status
  window     \* the windows

selection == <<breaker, attempts, window>>

Breaker ==
  [state : {"closed", "open", "half_open"}, waits : BOOLEAN,
   holder : Windows \cup {NoHolder}]

\* "failed" stands for the names _attempt_status gives to any other failure.
Statuses == {"none", "running", "success", "persistence_error", "failed"}

Unasked == [r \in Routes |-> "none"]

\* latest: admission_generation of the row is still that of the window's admission.
Unfetched ==
  [pc |-> "idle", route |-> "none", batch |-> NoBatch, seen |-> NoBatch,
   latest |-> FALSE, probe |-> FALSE]

Over == {"saved", "failed"}
Alive(w) == window[w].pc \notin {"idle"} \cup Over

\* Steps that change the window's place only, and its attempt; what a window
\* knew ends with it.
At(w, step) ==
  [window EXCEPT ![w] = IF step \in Over THEN [Unfetched EXCEPT !.pc = step]
                        ELSE [window[w] EXCEPT !.pc = step]]
Moves(w, step) == window' = At(w, step)
Attempt(w, route, status) == attempts' = [attempts EXCEPT ![w][route] = status]

\* finish_source_acquisition_attempt: the first of two writes stands.
Finished(w, route, status) ==
  Attempt(w, route, IF attempts[w][route] = "running" THEN status ELSE attempts[w][route])

-----------------------------------------------------------------------------
(* The candidate's breaker row *)

\* The lease outlasts the requests of its holder.
Leased == breaker.holder # NoHolder

Claimable ==
  \/ breaker.state = "closed"
  \/ breaker.state = "open" /\ ~breaker.waits /\ ~Leased
  \/ breaker.state = "half_open" /\ ~Leased

\* claim_source_access_probe.
ClaimedRow(w) ==
  IF breaker.state = "closed" THEN breaker
  ELSE [breaker EXCEPT !.state = "half_open", !.holder = w]

\* release_source_access_probe, whoever holds the lease.
ReleasedRow_AtOnce ==
  IF breaker.state # "half_open" THEN breaker
  ELSE [breaker EXCEPT !.state = "open", !.waits = FALSE, !.holder = NoHolder]
ReleasedRow ==
  IF breaker.state # "half_open" THEN breaker
  ELSE [breaker EXCEPT !.state = "open", !.waits = TRUE, !.holder = NoHolder]

\* record_source_access_failure: opened for long enough, or else closed.
FailedRow(opens) ==
  [state |-> IF opens THEN "open" ELSE "closed", waits |-> opens, holder |-> NoHolder]

\* record_source_access_success, of the generation that was admitted.
SucceededRow(w) ==
  IF ~window[w].latest THEN breaker
  ELSE [state |-> "closed", waits |-> FALSE, holder |-> NoHolder]

\* A closed circuit ends the probes of it; an admission or a failure makes every
\* other generation old.
Probes(ws, row) ==
  IF row.state # "closed" THEN ws ELSE [w \in Windows |-> [ws[w] EXCEPT !.probe = FALSE]]
Outdated(ws) == [w \in Windows |-> [ws[w] EXCEPT !.latest = FALSE]]

-----------------------------------------------------------------------------
(* The primary *)

Qualified == Resolved(deployed)

\* start_attempt(primary); the IBGE series is read before it is asked.
BeginWindow(w) ==
  /\ window[w].pc = "idle" /\ Qualified
  /\ window' = [window EXCEPT ![w] =
       [@ EXCEPT !.pc = "primary", !.seen = IF source = "ibge_sidra" THEN current ELSE NoBatch]]
  /\ Attempt(w, "primary", "running")
  /\ UNCHANGED <<ledger, breaker>>

\* Without an eligible candidate the window is fetched as ever.
LegacyWindow(w) ==
  /\ window[w].pc = "idle" /\ ~Qualified
  /\ \/ Rows(published) # {} /\ Upserted(published) /\ Moves(w, "saved")
     \/ UNCHANGED ledger /\ Moves(w, "failed")
  /\ UNCHANGED <<breaker, attempts>>

\* The IBGE batch must cover what was there before it was asked, by either route.
Covers(batch, rows) == source = "ibge_sidra" => Rows(rows) \subseteq Rows(batch)

PrimaryAnswers(w) ==
  /\ window[w].pc = "primary" /\ Rows(published) # {}
  /\ window' = [window EXCEPT ![w] =
       [@ EXCEPT !.pc = IF Covers(published, window[w].seen) THEN "persist" ELSE "unsure",
                 !.route = "primary", !.batch = published, !.seen = NoBatch]]
  /\ Finished(w, "primary", "success")
  /\ UNCHANGED <<ledger, breaker>>

\* After a timeout, a reset, a 5xx without advice or an envelope that is none the
\* candidate's attempt starts (start_attempt); after CircuitOpen too, if the
\* primary's row names no time to come back.  That row moves with every operation
\* on the publisher (SourceAccess): what a window meets there is any of its states.
Falls(w) ==
  /\ window[w].pc = "primary" /\ Moves(w, "claim")
  /\ attempts' = [attempts EXCEPT ![w]["primary"] = "failed", ![w]["candidate"] = "running"]
  /\ UNCHANGED <<ledger, breaker>>

\* A payload that is invalid or empty, a 429 or a 5xx with advice, too little
\* time, a write that fails: raised, and no candidate is asked.
PrimaryRefuses(w) ==
  /\ window[w].pc = "primary" /\ Moves(w, "failed")
  /\ Finished(w, "primary", "failed") \/ UNCHANGED attempts
  /\ UNCHANGED <<ledger, breaker>>

-----------------------------------------------------------------------------
(* The candidate *)

\* The window ends without a batch, its attempt closed, the row moved.
GivesUp(w, row) ==
  /\ breaker' = row
  /\ window' = Probes(At(w, "failed"), row)
  /\ Finished(w, "candidate", "failed")
  /\ UNCHANGED ledger

Fails(w, opens) ==
  /\ breaker' = FailedRow(opens)
  /\ window' = Probes(Outdated(At(w, "failed")), FailedRow(opens))
  /\ Finished(w, "candidate", "failed")
  /\ UNCHANGED ledger

\* claim_candidate_breaker.
ClaimCandidate(w) ==
  /\ window[w].pc = "claim" /\ Claimable
  /\ breaker' = ClaimedRow(w)
  /\ window' = [Outdated(window) EXCEPT ![w] =
       [@ EXCEPT !.pc = "asking", !.latest = TRUE, !.probe = breaker.state # "closed"]]
  /\ UNCHANGED <<ledger, attempts>>

\* A request the breaker denies, or one that would pass by a quota of the primary
\* that is out (safe_for_candidate), releases the row all the same: the lease of
\* whoever holds it.
DeniedCandidate(w) ==
  /\ window[w].pc = "claim"
  /\ GivesUp(w, ReleasedRow)

\* validate_live_references.
LiveReferences(w, batch) ==
  /\ Cardinality(Rows(batch)) >= MinReferences
  /\ Latest(batch) >= ApprovedUntil
  /\ Latest(batch) >= Latest(IF source = "bcb_sgs" THEN current ELSE window[w].seen)

CandidateAnswers(w) ==
  /\ window[w].pc = "asking"
  /\ LiveReferences(w, published) /\ Rows(published) # {}
  /\ breaker' = SucceededRow(w)
  /\ window' = Probes([window EXCEPT ![w] =
       [@ EXCEPT !.pc = "check", !.route = "candidate", !.batch = published,
                 !.latest = FALSE, !.probe = FALSE]], breaker')
  /\ UNCHANGED <<ledger, attempts>>

\* A failure of the endpoint or a 429, which is recorded; an answer that is none
\* of these, or no time for one.
CandidateFails(w) ==
  /\ window[w].pc = "asking"
  /\ \/ \E opens \in BOOLEAN : Fails(w, opens)
     \/ GivesUp(w, ReleasedRow)

-----------------------------------------------------------------------------
(* The commit *)

\* A candidate may revise nothing.
Accepted_AnyRevision(batch, rows) == Covers(batch, rows)
Accepted(batch, rows) == Covers(batch, rows) /\ ~Revises(batch, rows)

\* _reject_sgs_candidate_revisions reads the rows now; the IBGE series was read
\* before.
CheckBatch(w) ==
  /\ window[w].pc = "check"
  /\ LET rows == IF source = "bcb_sgs" THEN current ELSE window[w].seen
     IN window' = [window EXCEPT ![w] =
          [@ EXCEPT !.seen = rows,
                    !.pc = IF Accepted(window[w].batch, rows) THEN "persist" ELSE "unsure"]]
  /\ UNCHANGED <<ledger, breaker, attempts>>

\* The rows that were compared are not looked at again.
Compared(w, step) == window' = [window EXCEPT ![w] = [@ EXCEPT !.pc = step, !.seen = NoBatch]]

PersistWindow(w) ==
  /\ window[w].pc = "persist"
  /\ \/ /\ Receiptless(w)
        /\ Committed(w, window[w].route, window[w].batch, Rows(window[w].batch))
        /\ \E step \in {"stored", "unsure"} : Compared(w, step)
     \/ Compared(w, "unsure") /\ UNCHANGED ledger
  /\ UNCHANGED <<breaker, attempts>>

\* commit_receipt_matches on a new connection.
Receipted_AnyRoute(w) == TRUE
Receipted(w) == receipts[w] = [route |-> window[w].route, batch |-> window[w].batch]

\* The outcome of a failed commit: the attempt of a candidate is closed, and its
\* failure counts as no failure of the endpoint.
Unstored(w, status) ==
  /\ breaker' = IF window[w].route = "candidate" THEN ReleasedRow ELSE breaker
  /\ IF window[w].route = "candidate" THEN Finished(w, "candidate", status)
     ELSE UNCHANGED attempts
  /\ Moves(w, "failed")
  /\ UNCHANGED ledger

ReconcileWindow(w) ==
  /\ window[w].pc = "unsure"
  /\ \/ Receipted(w) /\ Moves(w, "stored") /\ UNCHANGED <<ledger, breaker, attempts>>
     \/ ~Receipted(w) /\ Unstored(w, "persistence_error")
     \/ Unstored(w, "failed")    \* the read fails

\* finish_attempt(success); if it fails, the window fails with its batch stored.
CloseWindow(w) ==
  /\ window[w].pc = "stored"
  /\ \/ /\ IF window[w].route = "candidate" THEN Finished(w, "candidate", "success")
           ELSE UNCHANGED attempts
        /\ Moves(w, "saved")
        /\ UNCHANGED <<ledger, breaker>>
     \/ window[w].route = "candidate" /\ Unstored(w, "failed")

\* Its process dies; or no write succeeds any more.
WindowDies(w) ==
  /\ Alive(w)
  /\ Moves(w, "failed")
  /\ UNCHANGED <<ledger, breaker, attempts>>

-----------------------------------------------------------------------------
(* Others, and time *)

\* A lease ends after the deadline of its holder, a wait lasts five minutes,
\* longer than the lease of anyone admitted before it began.
Probing(w) == window[w].pc = "asking" /\ window[w].probe
WaitEnds ==
  /\ breaker.waits /\ \A w \in Windows : ~Probing(w)
  /\ breaker' = [breaker EXCEPT !.waits = FALSE]
  /\ UNCHANGED <<ledger, attempts, window>>
LeaseEnds ==
  /\ Leased /\ window[breaker.holder].pc # "asking"
  /\ breaker' = [breaker EXCEPT !.holder = NoHolder]
  /\ UNCHANGED <<ledger, attempts, window>>

\* A window that failed and stored nothing is fetched again by a later refresh,
\* under an id of its own: the model takes the same one.
Again(w) ==
  /\ window[w].pc = "failed" /\ Receiptless(w)
  /\ window' = [window EXCEPT ![w] = Unfetched]
  /\ attempts' = [attempts EXCEPT ![w] = Unasked]
  /\ UNCHANGED <<ledger, breaker>>

Select(w) ==
  \/ BeginWindow(w) \/ LegacyWindow(w)
  \/ PrimaryAnswers(w) \/ PrimaryRefuses(w)
  \/ Falls(w) \/ ClaimCandidate(w) \/ DeniedCandidate(w)
  \/ CandidateAnswers(w) \/ CandidateFails(w)
  \/ CheckBatch(w) \/ PersistWindow(w) \/ ReconcileWindow(w) \/ CloseWindow(w)
  \/ WindowDies(w) \/ Again(w)

Refresh ==
  /\ (\E w \in Windows : Select(w)) \/ WaitEnds \/ LeaseEnds
  /\ UNCHANGED <<source, published, deployed>>

InitSelection ==
  /\ InitLedger
  /\ deployed \in Catalog
  /\ breaker = [state |-> "closed", waits |-> FALSE, holder |-> NoHolder]
  /\ attempts = [w \in Windows |-> Unasked]
  /\ window = [w \in Windows |-> Unfetched]

=============================================================================
