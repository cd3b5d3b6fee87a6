--------------------------- MODULE ProductionImport ---------------------------
(***************************************************************************)
(* The append-only import of audited history into production: directly over *)
(* a connection (src/backend/macro_score/production_import.py), or through  *)
(* the Supabase CLI, whose calls are a transaction each and stage the rows  *)
(* in a private schema before one of them promotes all                      *)
(* (src/backend/macro_score/supabase_cli_import.py).                       *)
(*                                                                         *)
(* Operators run both against one database, may be interrupted between any  *)
(* two calls or lose the reply of one, and run them again.  Meanwhile the   *)
(* refresh inserts observation vintages of its own.  What an import          *)
(* inserted is journaled to its batch, for a rollback.                      *)
(***************************************************************************)
EXTENDS Integers, FiniteSets

CONSTANTS
  Operators,  \* processes of an administrator
  Rows,       \* row identities of the five ledgers, in the order of a bundle
  Vintages,   \* those of observation_vintages, which the refresh inserts too
  Bundles,    \* source bundles, by the hash of their manifest
  RowsOf      \* bundle -> its rows; bundles may overlap

ASSUME ImportAssumption ==
  /\ Rows \subseteq Nat /\ IsFiniteSet(Rows) /\ Vintages \subseteq Rows
  /\ RowsOf \in [Bundles -> SUBSET Rows]

\* A batch is a bundle with the vintages it reuses: its resolved manifest.  With
\* none reused that is the manifest of the source.
Bundle(id) == id[1]
Reused(id) == id[2]
Ids == {id \in Bundles \X SUBSET Vintages : Reused(id) \subseteq RowsOf[Bundle(id)]}

VARIABLES
  ledger,   \* row -> "absent", "source" (as in the bundles) or "live" (other times)
  batch,    \* production_data_import_batches.state
  journal,  \* production_data_import_batch_rows
  staging,  \* xbray_import_private: batch -> its staged import
  op        \* operator -> the command it executes

public == <<ledger, batch, journal>>
vars == <<public, staging, op>>

Snapshot == [ledger |-> ledger, batch |-> batch, journal |-> journal]

Idle == [pc |-> "idle", id |-> <<>>, view |-> <<>>, plan |-> {}, inserted |-> {}]
Unstaged == [state |-> "none", baseline |-> <<>>, count |-> 0, rows |-> {}]

To(p, step) == op' = [op EXCEPT ![p] = [@ EXCEPT !.pc = step]]
Inserts(p, k) ==
  op' = [op EXCEPT ![p] = [@ EXCEPT !.inserted = op[p].inserted \cup {k}]]
Ends(p) == op' = [op EXCEPT ![p] = Idle]

\* pg_advisory_xact_lock: a direct import holds it over its whole transaction.
Unlocked == \A q \in Operators : op[q].pc # "insert"

-----------------------------------------------------------------------------
(* Planning *)

\* Rows of a bundle that are stored with other times than the bundle's.
Differing(b, rows) == {k \in RowsOf[b] : rows[k] = "live"}

Planned(b, rows) == {k \in RowsOf[b] : rows[k] = "absent"}

-----------------------------------------------------------------------------
(* run_import: one transaction at READ COMMITTED *)

\* A stored row that differs stops it, and so does a batch that was rolled back;
\* a committed batch is reported, without a write.
DirectBegin(p, b) ==
  /\ op[p].pc = "idle" /\ Unlocked
  /\ Differing(b, ledger) = {}
  /\ batch[<<b, {}>>] = "none"
  /\ op' = [op EXCEPT ![p] = [Idle EXCEPT !.pc = "insert", !.id = <<b, {}>>,
                                          !.plan = Planned(b, ledger)]]
  /\ UNCHANGED <<public, staging>>

\* INSERT ... ON CONFLICT DO NOTHING; a row the refresh inserted since the plan
\* was read is read back and found to differ: everything is rolled back.
Acceptable_Upserts(k) == TRUE
Acceptable(k) == ledger[k] = "absent"

DirectInsert(p) ==
  /\ op[p].pc = "insert"
  /\ \E k \in op[p].plan \ op[p].inserted :
       /\ \A j \in op[p].plan \ op[p].inserted : k <= j
       /\ IF Acceptable(k) THEN Inserts(p, k) ELSE Ends(p)
  /\ UNCHANGED <<public, staging>>

\* Rows, journal and batch become visible together.
Journaled_Bundle(id, rows) == RowsOf[Bundle(id)]
Journaled(id, rows) == rows

Import(id, rows) ==
  /\ ledger' = [k \in Rows |-> IF k \in rows THEN "source" ELSE ledger[k]]
  /\ journal' = [journal EXCEPT ![id] = Journaled(id, rows)]
  /\ batch' = [batch EXCEPT ![id] = "committed"]

DirectCommit(p) ==
  /\ op[p].pc = "insert" /\ op[p].inserted = op[p].plan
  /\ Import(op[p].id, op[p].inserted)
  /\ Ends(p)
  /\ UNCHANGED staging

-----------------------------------------------------------------------------
(* rollback_import: one transaction; nobody else changes or deletes a row   *)

\* "Remove only journaled rows from one batch, refusing shared row ownership."
Removable(id) == journal[id]

Rollback(id) ==
  /\ Unlocked
  /\ batch[id] = "committed"
  /\ journal[id] # {}
  /\ \A other \in Ids \ {id} : journal[id] \cap journal[other] = {}
  /\ \A k \in journal[id] : ledger[k] = "source"
  /\ ledger' = [k \in Rows |-> IF k \in Removable(id) THEN "absent" ELSE ledger[k]]
  /\ journal' = [journal EXCEPT ![id] = {}]
  /\ batch' = [batch EXCEPT ![id] = "rolled_back"]
  /\ UNCHANGED <<staging, op>>

-----------------------------------------------------------------------------
(* run_supabase_import: a call of the CLI is a transaction *)

\* _preflight reads page by page, between two equal fingerprints of all tables,
\* and plans; with --reuse-equivalent-vintages a vintage with other times is
\* left as it is and becomes part of the batch's identity.
StagePlan(p, b, reuse) ==
  /\ op[p].pc = "idle"
  /\ LET differing == Differing(b, ledger)
     IN /\ differing \subseteq Vintages
        /\ differing = {} \/ reuse
        /\ op' = [op EXCEPT ![p] = [Idle EXCEPT !.pc = "known", !.id = <<b, differing>>,
                                      !.view = Snapshot, !.plan = Planned(b, ledger)]]
  /\ UNCHANGED <<public, staging>>

\* Any batch of the same source bundle ends the import: committed, it is
\* reported; rolled back, it is refused.
Known_ByOwnId(id) == batch[id] # "none"
Known(id) == \E other \in Ids : Bundle(other) = Bundle(id) /\ batch[other] # "none"

CheckKnown(p) ==
  /\ op[p].pc = "known"
  /\ IF Known(op[p].id)
     THEN Ends(p)
     ELSE To(p, "register")
  /\ UNCHANGED <<public, staging>>

\* A staged batch left by an interrupted import is resumed if it was planned on
\* the same snapshot.
Register(p) ==
  /\ op[p].pc = "register"
  /\ LET id == op[p].id
         fresh == [state |-> "staging", baseline |-> op[p].view,
                   count |-> Cardinality(op[p].plan), rows |-> {}]
     IN IF staging[id].state = "none"
        THEN staging' = [staging EXCEPT ![id] = fresh] /\ To(p, "stage")
        ELSE /\ UNCHANGED staging
             /\ IF staging[id].baseline = fresh.baseline /\ staging[id].count = fresh.count
                THEN To(p, "stage") ELSE Ends(p)
  /\ UNCHANGED public

\* _insert_stage: a chunk takes its ordinals unless they are taken, and is read
\* back; without a batch row the foreign key refuses it.
Ordinal(k, plan) == Cardinality({j \in plan : j < k})

StageRow(p) ==
  /\ op[p].pc = "stage"
  /\ LET id == op[p].id
     IN \E k \in op[p].plan \ op[p].inserted :
          /\ \A j \in op[p].plan \ op[p].inserted : k <= j
          /\ LET chunk == <<Ordinal(k, op[p].plan), k>>
                 taken == {r \in staging[id].rows : r[1] = chunk[1]}
             IN IF staging[id].state = "none" \/ taken \notin {{}, {chunk}}
                THEN Ends(p) /\ UNCHANGED staging
                ELSE /\ staging' = [staging EXCEPT ![id] =
                          [@ EXCEPT !.rows = staging[id].rows \cup {chunk}]]
                     /\ Inserts(p, k)
  /\ UNCHANGED public

StageReady(p) ==
  /\ op[p].pc = "stage" /\ op[p].inserted = op[p].plan
  /\ staging' = [staging EXCEPT ![op[p].id] =
       IF @.state = "staging" THEN [@ EXCEPT !.state = "ready"] ELSE @]
  /\ To(p, "promote")
  /\ UNCHANGED public

\* The promotion takes the advisory lock, locks every table against writers and
\* compares the fingerprints of all of them with those of the plan.
Current(id) == staging[id].baseline = Snapshot
Complete_Never(id) == TRUE
Complete(id) == Cardinality(staging[id].rows) = staging[id].count

\* Each staged row must be inserted by the promotion itself ("staged append-only
\* row conflicted"): none is stored already, and none is staged twice.
Staged(id) == {r[2] : r \in staging[id].rows}
Inserting(id) ==
  /\ \A k \in Staged(id) : ledger[k] = "absent"
  /\ Cardinality(Staged(id)) = Cardinality(staging[id].rows)

Promotable(id) ==
  /\ staging[id].state = "ready"
  /\ Current(id) /\ Complete(id) /\ Inserting(id)
  /\ batch[id] = "none"

Promote(p) ==
  /\ op[p].pc = "promote" /\ Unlocked
  /\ LET id == op[p].id
     IN IF Promotable(id)
        THEN /\ Import(id, Staged(id))
             /\ staging' = [staging EXCEPT ![id] = Unstaged]
        ELSE UNCHANGED <<public, staging>>
  /\ Ends(p)

\* discard_staging_batch.
Discard(id) ==
  /\ Unlocked
  /\ staging[id].state # "none" /\ batch[id] = "none"
  /\ staging' = [staging EXCEPT ![id] = Unstaged]
  /\ UNCHANGED <<public, op>>

-----------------------------------------------------------------------------
\* A command fails or is killed; a call whose reply is lost has had its effect.
Interrupt(p) ==
  /\ op[p].pc # "idle"
  /\ Ends(p)
  /\ UNCHANGED <<public, staging>>

\* _persist_current_and_vintages, ON CONFLICT DO NOTHING; it waits for an import
\* that has inserted the row and not committed.
RefreshInserts(k) ==
  /\ k \in Vintages /\ ledger[k] = "absent"
  /\ \A p \in Operators : op[p].pc = "insert" => k \notin op[p].inserted
  /\ ledger' = [ledger EXCEPT ![k] = "live"]
  /\ UNCHANGED <<batch, journal, staging, op>>

Init ==
  /\ ledger = [k \in Rows |-> "absent"]
  /\ batch = [id \in Ids |-> "none"]
  /\ journal = [id \in Ids |-> {}]
  /\ staging = [id \in Ids |-> Unstaged]
  /\ op = [p \in Operators |-> Idle]

Command(p) ==
  \/ \E b \in Bundles : DirectBegin(p, b)
  \/ DirectInsert(p) \/ DirectCommit(p)
  \/ \E b \in Bundles, reuse \in BOOLEAN : StagePlan(p, b, reuse)
  \/ CheckKnown(p) \/ Register(p) \/ StageRow(p) \/ StageReady(p) \/ Promote(p)
  \/ Interrupt(p)

Next ==
  \/ \E p \in Operators : Command(p)
  \/ \E id \in Ids : Rollback(id) \/ Discard(id)
  \/ \E k \in Rows : RefreshInserts(k)

Spec == Init /\ [][Next]_vars

-----------------------------------------------------------------------------
(* Properties *)

\* Every row an import stored is owned by exactly one batch, a committed one, and
\* is as the batch left it: a rollback may always remove it, and can never find
\* its rows shared (rollback_import).
Owners(k) == {id \in Ids : k \in journal[id]}
OneOwner ==
  /\ \A k \in Rows : IF ledger[k] = "source" THEN \E id \in Ids : Owners(k) = {id}
                     ELSE Owners(k) = {}
  /\ \A id \in Ids : journal[id] # {} => batch[id] = "committed"

\* A bundle is imported once, under one resolved manifest, and not again after
\* its rollback, whatever vintages the refresh captured in between
\* (run_supabase_import: "matching batch exists in a non-committed state").
ImportedOnce ==
  \A id \in Ids, other \in Ids :
    batch[id] # "none" /\ batch[other] # "none" /\ Bundle(id) = Bundle(other) => id = other

\* "Nenhum valor econômico, timestamp de produção ou histórico existente é
\* atualizado": no import and no rollback changes or removes what the refresh
\* captured.
LiveKept == [][\A k \in Rows : ledger[k] = "live" => ledger'[k] = "live"]_vars

\* A batch commits with its whole bundle stored: the rows it reuses live, all
\* others as in the bundle, whoever staged them.
CommitsWhole ==
  [][\A id \in Ids : batch[id] = "none" /\ batch'[id] = "committed" =>
       \A k \in RowsOf[Bundle(id)] :
         ledger'[k] = IF k \in Reused(id) THEN "live" ELSE "source"]_vars

-----------------------------------------------------------------------------
(* The inductive invariant *)

Ledgers == [Rows -> {"absent", "source", "live"}]
Batches == [Ids -> {"none", "committed", "rolled_back"}]
Journals == [Ids -> SUBSET Rows]
Snapshots == [ledger : Ledgers, batch : Batches, journal : Journals]

OfSupabase == {"known", "register", "stage", "promote"}
StagingType ==
  [state : {"none", "staging", "ready"}, baseline : Snapshots \cup {<<>>}, count : Nat,
   rows : SUBSET (Nat \X Rows)]
OpType ==
  [pc : {"idle", "insert"} \cup OfSupabase, id : Ids \cup {<<>>}, view : Snapshots \cup {<<>>},
   plan : SUBSET Rows, inserted : SUBSET Rows]

TypeOK ==
  /\ ledger \in Ledgers /\ batch \in Batches /\ journal \in Journals
  /\ staging \in [Ids -> StagingType] /\ op \in [Operators -> OpType]

\* No batch of the same source bundle is known to a snapshot.
Unknown(id, batches) ==
  \A other \in Ids : Bundle(other) = Bundle(id) => batches[other] = "none"

\* A direct import has the tables to itself, but for the refresh.
DirectSound(x) ==
  /\ x.id \in Ids /\ Reused(x.id) = {} /\ Unknown(x.id, batch)
  /\ \A k \in RowsOf[Bundle(x.id)] \ x.plan : ledger[k] = "source"
  /\ x.inserted \subseteq x.plan /\ x.plan \subseteq RowsOf[Bundle(x.id)]
  /\ \A k \in x.inserted : ledger[k] = "absent"

\* What a plan says of the snapshot it was made on; a batch once known stays so.
PlanOf(id, view) ==
  /\ id \in Ids /\ view \in Snapshots
  /\ Differing(Bundle(id), view.ledger) = Reused(id)
SupabaseSound(x) ==
  /\ PlanOf(x.id, x.view) /\ x.plan = Planned(Bundle(x.id), x.view.ledger)
  /\ \A other \in Ids : x.view.batch[other] # "none" => batch[other] # "none"
  /\ x.pc # "known" => Unknown(x.id, x.view.batch)

OpsSound ==
  /\ \A p \in Operators :
       /\ op[p].pc = "insert" => DirectSound(op[p])
       /\ op[p].pc \in OfSupabase => SupabaseSound(op[p])
  /\ \A p, q \in Operators : op[p].pc = "insert" /\ op[q].pc = "insert" => p = q

\* A staged batch belongs to the snapshot of its baseline; its rows may have been
\* planned on another.
StagedSound(id, x) ==
  /\ PlanOf(id, x.baseline) /\ Unknown(id, x.baseline.batch)
  /\ x.count = Cardinality(Planned(Bundle(id), x.baseline.ledger))
  /\ \A row \in x.rows : row[2] \in RowsOf[Bundle(id)]
StagingSound ==
  \A id \in Ids : staging[id].state # "none" => StagedSound(id, staging[id])

ReusedLive ==
  \A id \in Ids : batch[id] # "none" => \A k \in Reused(id) : ledger[k] = "live"

ImportInv ==
  /\ TypeOK /\ OpsSound /\ StagingSound /\ ReusedLive /\ OneOwner /\ ImportedOnce

=============================================================================
