----------------------- MODULE ProductionImportProofs -----------------------
(***************************************************************************)
(* Proofs about ProductionImport: what its run checks of two operators and *)
(* two bundles holds for any number of them, and any bundles.              *)
(***************************************************************************)
EXTENDS ProductionImport, FiniteSetTheorems, TLAPS

LEMMA Facts ==
  ASSUME ImportInv, NEW p \in Operators
  PROVE /\ TypeOK /\ op \in [Operators -> OpType] /\ op[p] \in OpType
        /\ staging \in [Ids -> StagingType]
        /\ op[p].pc = "insert" => DirectSound(op[p])
        /\ op[p].pc \in OfSupabase => SupabaseSound(op[p])
BY DEF ImportInv, TypeOK, OpsSound

LEMMA IdleOp == Idle \in OpType /\ Idle.pc = "idle"
BY DEF Idle, OpType

LEMMA PlansAreRows ==
  ASSUME NEW b \in Bundles, NEW rows
  PROVE Planned(b, rows) \in SUBSET Rows /\ Differing(b, rows) \in SUBSET Rows
BY ImportAssumption DEF Planned, Differing

LEMMA BundleOf ==
  ASSUME NEW id \in Ids
  PROVE /\ Bundle(id) \in Bundles /\ Reused(id) \in SUBSET Vintages
        /\ Reused(id) \subseteq RowsOf[Bundle(id)] /\ RowsOf[Bundle(id)] \in SUBSET Rows
BY ImportAssumption DEF Ids, Bundle, Reused

(* A batch is named by its bundle and the vintages it reuses.              *)
LEMMA IdOf ==
  ASSUME NEW b \in Bundles, NEW v \in SUBSET Vintages, v \subseteq RowsOf[b]
  PROVE /\ <<b, v>> \in Ids /\ Bundle(<<b, v>>) = b /\ Reused(<<b, v>>) = v
        /\ \A other \in Ids : Bundle(other) = b /\ Reused(other) = v => other = <<b, v>>
BY DEF Ids, Bundle, Reused

LEMMA SnapshotTyped == TypeOK => Snapshot \in Snapshots
BY DEF TypeOK, Snapshot, Snapshots

-----------------------------------------------------------------------------
(* A command that writes no table *)

LEMMA OpMoves ==
  ASSUME ImportInv, NEW p \in Operators, NEW x \in OpType, op' = [op EXCEPT ![p] = x],
         UNCHANGED public,
         x.pc = "insert" => DirectSound(x) /\ (op[p].pc = "insert" \/ Unlocked),
         x.pc \in OfSupabase => SupabaseSound(x)
  PROVE /\ op' \in [Operators -> OpType] /\ OpsSound'
        /\ ledger' \in Ledgers /\ batch' \in Batches /\ journal' \in Journals
        /\ ReusedLive' /\ OneOwner' /\ ImportedOnce'
<1>1. /\ op' \in [Operators -> OpType] /\ op'[p] = x
      /\ \A q \in Operators \ {p} : op'[q] = op[q]
  BY Facts
<1>2. ledger' = ledger /\ batch' = batch /\ journal' = journal
  BY DEF public
<1>3. ASSUME NEW q \in Operators
      PROVE /\ op'[q].pc = "insert" => DirectSound(op'[q])
            /\ op'[q].pc \in OfSupabase => SupabaseSound(op'[q])
  BY <1>1, Facts
<1>4. ASSUME NEW q \in Operators
      PROVE /\ op'[q].pc = "insert" => DirectSound(op[q])'
            /\ op'[q].pc \in OfSupabase => SupabaseSound(op[q])'
  BY <1>2, <1>3 DEF DirectSound, SupabaseSound, Unknown
<1>5. \A q, r \in Operators : op'[q].pc = "insert" /\ op'[r].pc = "insert" => q = r
  BY <1>1 DEF ImportInv, OpsSound, Unlocked
<1>6. OpsSound'
  BY <1>4, <1>5 DEF OpsSound
<1> QED BY <1>1, <1>2, <1>6, Facts DEF TypeOK, ImportInv, ReusedLive, OneOwner, Owners, ImportedOnce

(* ... nor the staged batches.                                             *)
LEMMA OpMovesAlone ==
  ASSUME ImportInv, NEW p \in Operators, NEW x \in OpType, op' = [op EXCEPT ![p] = x],
         UNCHANGED <<public, staging>>,
         x.pc = "insert" => DirectSound(x) /\ (op[p].pc = "insert" \/ Unlocked),
         x.pc \in OfSupabase => SupabaseSound(x)
  PROVE ImportInv'
<1>1. StagingSound'
  BY DEF ImportInv, StagingSound
<1> QED BY <1>1, OpMoves, Facts DEF ImportInv, TypeOK

LEMMA EndsKeeps ==
  ASSUME ImportInv, NEW p \in Operators, Ends(p), UNCHANGED <<public, staging>>
  PROVE ImportInv'
BY IdleOp, OpMovesAlone DEF Ends, OfSupabase

(* A command of the CLI that goes on to its next call.                     *)
LEMMA ToTyped ==
  ASSUME ImportInv, NEW p \in Operators, NEW step \in OfSupabase
  PROVE LET x == [op[p] EXCEPT !.pc = step]
        IN /\ x \in OpType /\ x.pc = step
           /\ SupabaseSound(op[p]) /\ (step # "known" => Unknown(op[p].id, op[p].view.batch))
              => SupabaseSound(x)
BY Facts DEF OpType, SupabaseSound

-----------------------------------------------------------------------------
(* What an import does to the tables *)

LEMMA ImportKeeps ==
  ASSUME ImportInv, NEW id \in Ids, NEW rows \in SUBSET Rows, Import(id, rows),
         \A k \in rows : ledger[k] = "absent",
         Unknown(id, batch), \A k \in Reused(id) : ledger[k] = "live"
  PROVE /\ ledger' \in Ledgers /\ batch' \in Batches /\ journal' \in Journals
        /\ ReusedLive' /\ OneOwner' /\ ImportedOnce'
        /\ \A other \in Ids : batch[other] # "none" => batch'[other] # "none"
        /\ \A k \in Rows : ledger'[k] = IF k \in rows THEN "source" ELSE ledger[k]
        /\ \A other \in Ids \ {id} : batch'[other] = batch[other]
<1>1. ledger \in Ledgers /\ batch \in Batches /\ journal \in Journals
  BY DEF ImportInv, TypeOK
<1>2. /\ ledger' \in Ledgers
      /\ \A k \in Rows : ledger'[k] = IF k \in rows THEN "source" ELSE ledger[k]
  BY <1>1 DEF Import, Ledgers
<1>3. /\ batch' \in Batches /\ batch'[id] = "committed" /\ batch[id] = "none"
      /\ \A other \in Ids \ {id} : batch'[other] = batch[other]
  BY <1>1 DEF Import, Batches, Unknown
<1>4. /\ journal' \in Journals /\ journal'[id] = rows
      /\ \A other \in Ids \ {id} : journal'[other] = journal[other]
  BY <1>1 DEF Import, Journals, Journaled
<1>5. journal[id] = {}
  BY <1>3 DEF ImportInv, OneOwner
<1>6. OneOwner'
  <2>1. ASSUME NEW k \in Rows
        PROVE IF ledger'[k] = "source" THEN \E i \in Ids : Owners(k)' = {i} ELSE Owners(k)' = {}
    <3>1. CASE k \in rows
      <4>1. Owners(k) = {} /\ ledger'[k] = "source"
        BY <1>2, <3>1 DEF ImportInv, OneOwner
      <4>2. Owners(k)' = {id}
        BY <1>4, <3>1, <4>1 DEF Owners
      <4> QED BY <4>1, <4>2
    <3>2. CASE k \notin rows
      <4>1. Owners(k)' = Owners(k) /\ ledger'[k] = ledger[k]
        BY <1>2, <1>4, <1>5, <3>2 DEF Owners
      <4> QED BY <4>1 DEF ImportInv, OneOwner
    <3> QED BY <3>1, <3>2
  <2>2. \A i \in Ids : journal'[i] # {} => batch'[i] = "committed"
    BY <1>3, <1>4 DEF ImportInv, OneOwner
  <2> QED BY <2>1, <2>2 DEF OneOwner
<1>7. ImportedOnce'
  BY <1>3 DEF ImportInv, ImportedOnce, Unknown
<1>8. ReusedLive'
  <2>1. ASSUME NEW i \in Ids, batch'[i] # "none", NEW k \in Reused(i) PROVE ledger'[k] = "live"
    <3>1. ledger[k] = "live"
      BY <1>3, <2>1 DEF ImportInv, ReusedLive
    <3>2. k \in Rows
      BY BundleOf
    <3> QED BY <1>2, <3>1, <3>2
  <2> QED BY <2>1 DEF ReusedLive
<1> QED BY <1>2, <1>3, <1>4, <1>6, <1>7, <1>8

(* What the other commands know outlives any step that forgets no batch.   *)
LEMMA OthersSound ==
  ASSUME ImportInv, NEW q \in Operators, op[q].pc # "insert", op'[q] = op[q],
         \A other \in Ids : batch[other] # "none" => batch'[other] # "none"
  PROVE /\ (op[q].pc = "insert" => DirectSound(op[q]))'
        /\ (op[q].pc \in OfSupabase => SupabaseSound(op[q]))'
BY Facts DEF SupabaseSound

-----------------------------------------------------------------------------
(* Each step *)

LEMMA DirectBeginKeeps ==
  ASSUME ImportInv, NEW p \in Operators, NEW b \in Bundles, DirectBegin(p, b)
  PROVE ImportInv'
<1> DEFINE id == <<b, {}>>
           plan == Planned(b, ledger)
           x == [Idle EXCEPT !.pc = "insert", !.id = id, !.plan = plan]
<1>1. /\ id \in Ids /\ Bundle(id) = b /\ Reused(id) = {} /\ plan \in SUBSET Rows
      /\ \A other \in Ids : Bundle(other) = b /\ Reused(other) = {} => other = id
      /\ plan \subseteq RowsOf[b]
  BY IdOf, PlansAreRows DEF Planned
<1>2. op' = [op EXCEPT ![p] = x]
  BY DEF DirectBegin
<1>3. /\ x \in OpType /\ x.pc = "insert" /\ x.id = id /\ x.plan = plan /\ x.inserted = {}
  BY <1>1 DEF OpType, Idle
<1>4. Unknown(id, batch)
  <2>1. ASSUME NEW other \in Ids, Bundle(other) = b, batch[other] # "none" PROVE FALSE
    <3>1. Reused(other) # {}
      BY <1>1, <2>1 DEF DirectBegin
    <3>2. PICK k \in Reused(other) : ledger[k] = "live"
      BY <2>1, <3>1 DEF ImportInv, ReusedLive
    <3>3. k \in Differing(b, ledger)
      BY <2>1, <3>2, BundleOf DEF Differing
    <3> QED BY <3>3 DEF DirectBegin
  <2> QED BY <1>1, <2>1 DEF Unknown
<1>5. \A k \in RowsOf[b] \ plan : ledger[k] = "source"
  <2>1. \A k \in RowsOf[b] : k \in Rows /\ ledger[k] # "live"
    BY ImportAssumption DEF DirectBegin, Differing
  <2> QED BY <2>1 DEF Planned, ImportInv, TypeOK, Ledgers
<1> HIDE DEF id, plan, x
<1>6. DirectSound(x)
  BY <1>1, <1>3, <1>4, <1>5 DEF DirectSound
<1> QED BY <1>2, <1>3, <1>6, OpMovesAlone DEF DirectBegin, OfSupabase

LEMMA DirectInsertKeeps ==
  ASSUME ImportInv, NEW p \in Operators, DirectInsert(p)
  PROVE ImportInv'
<1>1. CASE Ends(p)
  BY <1>1, EndsKeeps DEF DirectInsert
<1>2. ASSUME NEW k \in op[p].plan \ op[p].inserted, ledger[k] = "absent", Inserts(p, k)
      PROVE ImportInv'
  <2> DEFINE x == [op[p] EXCEPT !.inserted = op[p].inserted \cup {k}]
  <2>1. op[p] \in OpType /\ DirectSound(op[p]) /\ op[p].pc = "insert"
    BY Facts DEF DirectInsert
  <2>2. /\ x \in OpType /\ x.pc = "insert" /\ x.id = op[p].id /\ x.plan = op[p].plan
        /\ x.inserted = op[p].inserted \cup {k}
    BY <2>1 DEF OpType
  <2>3. op' = [op EXCEPT ![p] = x]
    BY <1>2 DEF Inserts
  <2> HIDE DEF x
  <2>4. DirectSound(x)
    BY <1>2, <2>1, <2>2 DEF DirectSound
  <2> QED BY <2>1, <2>2, <2>3, <2>4, OpMovesAlone DEF DirectInsert, OfSupabase
<1> QED BY <1>1, <1>2 DEF DirectInsert, Acceptable

(* What a direct commit imports.                                           *)
LEMMA DirectImports ==
  ASSUME ImportInv, NEW p \in Operators, DirectCommit(p)
  PROVE /\ op[p].id \in Ids /\ op[p].inserted \in SUBSET Rows
        /\ Import(op[p].id, op[p].inserted)
        /\ \A k \in op[p].inserted : ledger[k] = "absent"
        /\ Unknown(op[p].id, batch) /\ Reused(op[p].id) = {}
        /\ \A k \in RowsOf[Bundle(op[p].id)] \ op[p].inserted : ledger[k] = "source"
BY Facts DEF DirectCommit, DirectSound, OpType

(* A step that imports and ends its command.                               *)
LEMMA ImportEnds ==
  ASSUME ImportInv, NEW p \in Operators, Ends(p),
         \A q \in Operators \ {p} : op[q].pc # "insert",
         NEW id \in Ids, NEW rows \in SUBSET Rows, Import(id, rows),
         \A k \in rows : ledger[k] = "absent",
         Unknown(id, batch), \A k \in Reused(id) : ledger[k] = "live",
         staging' \in [Ids -> StagingType], StagingSound'
  PROVE ImportInv'
<1>1. /\ ledger' \in Ledgers /\ batch' \in Batches /\ journal' \in Journals
      /\ ReusedLive' /\ OneOwner' /\ ImportedOnce'
      /\ \A other \in Ids : batch[other] # "none" => batch'[other] # "none"
  BY ImportKeeps
<1>2. /\ op' \in [Operators -> OpType] /\ op'[p].pc = "idle"
      /\ \A q \in Operators \ {p} : op'[q] = op[q]
  BY IdleOp, Facts DEF Ends
<1>3. OpsSound'
  <2>1. ASSUME NEW q \in Operators
        PROVE /\ (op[q].pc = "insert" => DirectSound(op[q]))'
              /\ (op[q].pc \in OfSupabase => SupabaseSound(op[q]))'
              /\ op'[q].pc # "insert"
    <3>1. CASE q = p
      BY <1>2, <3>1 DEF OfSupabase
    <3>2. CASE q # p
      BY <1>1, <1>2, <3>2, OthersSound
    <3> QED BY <3>1, <3>2
  <2> QED BY <2>1 DEF OpsSound
<1> QED BY <1>1, <1>2, <1>3 DEF ImportInv, TypeOK

LEMMA DirectCommitKeeps ==
  ASSUME ImportInv, NEW p \in Operators, DirectCommit(p)
  PROVE ImportInv'
<1>1. StagingSound' /\ staging' \in [Ids -> StagingType]
  BY Facts DEF DirectCommit, ImportInv, StagingSound
<1>2. \A q \in Operators \ {p} : op[q].pc # "insert"
  BY DEF DirectCommit, ImportInv, OpsSound
<1> QED BY <1>1, <1>2, DirectImports, ImportEnds DEF DirectCommit

LEMMA RollbackKeeps ==
  ASSUME ImportInv, NEW id \in Ids, Rollback(id)
  PROVE ImportInv'
<1>1. ledger \in Ledgers /\ batch \in Batches /\ journal \in Journals
  BY DEF ImportInv, TypeOK
<1>2. /\ ledger' \in Ledgers
      /\ \A k \in Rows : ledger'[k] = IF k \in journal[id] THEN "absent" ELSE ledger[k]
  BY <1>1 DEF Rollback, Removable, Ledgers
<1>3. /\ batch' \in Batches /\ batch'[id] = "rolled_back" /\ batch[id] = "committed"
      /\ \A other \in Ids \ {id} : batch'[other] = batch[other]
  BY <1>1 DEF Rollback, Batches
<1>4. /\ journal' \in Journals /\ journal'[id] = {}
      /\ \A other \in Ids \ {id} : journal'[other] = journal[other]
  BY <1>1 DEF Rollback, Journals
<1>5. OneOwner'
  <2>1. ASSUME NEW k \in Rows
        PROVE IF ledger'[k] = "source" THEN \E i \in Ids : Owners(k)' = {i} ELSE Owners(k)' = {}
    <3>1. CASE k \in journal[id]
      <4>1. Owners(k) = {id}
        BY <3>1 DEF ImportInv, OneOwner, Owners
      <4>2. Owners(k)' = {} /\ ledger'[k] = "absent"
        BY <1>2, <1>4, <3>1, <4>1 DEF Owners
      <4> QED BY <4>2
    <3>2. CASE k \notin journal[id]
      <4>1. Owners(k)' = Owners(k) /\ ledger'[k] = ledger[k]
        BY <1>2, <1>4, <3>2 DEF Owners
      <4> QED BY <4>1 DEF ImportInv, OneOwner
    <3> QED BY <3>1, <3>2
  <2>2. \A i \in Ids : journal'[i] # {} => batch'[i] = "committed"
    BY <1>3, <1>4 DEF ImportInv, OneOwner
  <2> QED BY <2>1, <2>2 DEF OneOwner
<1>6. ImportedOnce'
  BY <1>3 DEF ImportInv, ImportedOnce
<1>7. ReusedLive'
  <2>1. ASSUME NEW i \in Ids, batch'[i] # "none", NEW k \in Reused(i) PROVE ledger'[k] = "live"
    <3>1. ledger[k] = "live"
      BY <1>3, <2>1 DEF ImportInv, ReusedLive
    <3>2. k \in Rows /\ k \notin journal[id]
      BY <3>1, BundleOf DEF Rollback
    <3> QED BY <1>2, <3>1, <3>2
  <2> QED BY <2>1 DEF ReusedLive
<1>8. OpsSound'
  <2>1. ASSUME NEW q \in Operators
        PROVE /\ (op[q].pc = "insert" => DirectSound(op[q]))'
              /\ (op[q].pc \in OfSupabase => SupabaseSound(op[q]))'
              /\ op'[q].pc # "insert"
    BY <1>3, OthersSound DEF Rollback, Unlocked
  <2> QED BY <2>1 DEF OpsSound
<1>9. StagingSound' /\ TypeOK'
  BY <1>2, <1>3, <1>4 DEF Rollback, ImportInv, StagingSound, Staged, TypeOK
<1> QED BY <1>5, <1>6, <1>7, <1>8, <1>9 DEF ImportInv

LEMMA StagePlanKeeps ==
  ASSUME ImportInv, NEW p \in Operators, NEW b \in Bundles, NEW reuse \in BOOLEAN,
         StagePlan(p, b, reuse)
  PROVE ImportInv'
<1> DEFINE differing == Differing(b, ledger)
           id == <<b, differing>>
           plan == Planned(b, ledger)
           x == [Idle EXCEPT !.pc = "known", !.id = id, !.view = Snapshot, !.plan = plan]
<1>1. /\ id \in Ids /\ Bundle(id) = b /\ Reused(id) = differing /\ plan \in SUBSET Rows
  BY IdOf, PlansAreRows DEF StagePlan, Differing
<1>2. Snapshot \in Snapshots /\ Snapshot.ledger = ledger /\ Snapshot.batch = batch
  BY SnapshotTyped, Facts DEF Snapshot
<1>3. op' = [op EXCEPT ![p] = x]
  BY DEF StagePlan
<1> HIDE DEF id
<1>4. /\ x \in OpType /\ x.pc = "known" /\ x.id = id /\ x.view = Snapshot /\ x.plan = plan
  BY <1>1, <1>2 DEF OpType, Idle, OfSupabase
<1> HIDE DEF x
<1>5. SupabaseSound(x)
  BY <1>1, <1>2, <1>4 DEF SupabaseSound, PlanOf
<1> QED BY <1>3, <1>4, <1>5, OpMovesAlone DEF StagePlan

LEMMA CheckKnownKeeps ==
  ASSUME ImportInv, NEW p \in Operators, CheckKnown(p)
  PROVE ImportInv'
<1>1. CASE Known(op[p].id)
  BY <1>1, EndsKeeps DEF CheckKnown
<1>2. CASE ~Known(op[p].id)
  <2> DEFINE x == [op[p] EXCEPT !.pc = "register"]
  <2>1. SupabaseSound(op[p]) /\ op' = [op EXCEPT ![p] = x]
    BY <1>2, Facts DEF CheckKnown, To, OfSupabase
  <2>2. Unknown(op[p].id, op[p].view.batch)
    BY <1>2, <2>1 DEF Known, Unknown, SupabaseSound
  <2>3. x \in OpType /\ x.pc = "register" /\ SupabaseSound(x)
    BY <2>1, <2>2, ToTyped DEF OfSupabase
  <2> HIDE DEF x
  <2> QED BY <2>1, <2>3, OpMovesAlone DEF CheckKnown
<1> QED BY <1>1, <1>2

(* A command that knows of no batch of its bundle goes on.                 *)
LEMMA GoesOn ==
  ASSUME ImportInv, NEW p \in Operators, op[p].pc \in {"register", "stage"},
         NEW step \in {"stage", "promote"}, To(p, step), UNCHANGED public
  PROVE /\ op' \in [Operators -> OpType] /\ OpsSound'
        /\ ledger' \in Ledgers /\ batch' \in Batches /\ journal' \in Journals
        /\ ReusedLive' /\ OneOwner' /\ ImportedOnce'
<1> DEFINE x == [op[p] EXCEPT !.pc = step]
<1>1. /\ SupabaseSound(op[p]) /\ Unknown(op[p].id, op[p].view.batch)
      /\ op' = [op EXCEPT ![p] = x]
  BY Facts DEF To, OfSupabase, SupabaseSound
<1>2. x \in OpType /\ x.pc = step /\ SupabaseSound(x)
  BY <1>1, ToTyped DEF OfSupabase
<1> HIDE DEF x
<1> QED BY <1>1, <1>2, OpMoves

LEMMA RegisterKeeps ==
  ASSUME ImportInv, NEW p \in Operators, Register(p)
  PROVE ImportInv'
<1>1. SupabaseSound(op[p]) /\ Unknown(op[p].id, op[p].view.batch)
  BY Facts DEF Register, OfSupabase, SupabaseSound
<1>2. PICK id \in Ids : id = op[p].id
  BY <1>1 DEF SupabaseSound, PlanOf
<1> DEFINE fresh == [state |-> "staging", baseline |-> op[p].view,
                     count |-> Cardinality(op[p].plan), rows |-> {}]
<1>3. CASE Ends(p) /\ UNCHANGED staging
  BY <1>3, EndsKeeps DEF Register
<1>4. CASE To(p, "stage") /\ UNCHANGED staging
  <2>1. StagingSound' /\ staging' \in [Ids -> StagingType]
    BY <1>4, Facts DEF ImportInv, StagingSound
  <2> QED BY <1>4, <2>1, GoesOn DEF Register, ImportInv, TypeOK
<1>5. CASE staging' = [staging EXCEPT ![id] = fresh] /\ To(p, "stage")
  <2>1. op[p].plan \in SUBSET Rows /\ Cardinality(op[p].plan) \in Nat
    BY Facts, ImportAssumption, FS_Subset, FS_CardinalityType DEF OpType
  <2>2. fresh \in StagingType /\ StagedSound(id, fresh)
    BY <1>1, <1>2, <2>1 DEF StagingType, SupabaseSound, PlanOf, StagedSound
  <2> HIDE DEF fresh
  <2>3. /\ staging' \in [Ids -> StagingType] /\ staging'[id] = fresh
        /\ \A other \in Ids \ {id} : staging'[other] = staging[other]
    BY <1>5, <2>2, Facts
  <2>4. StagingSound'
    BY <2>2, <2>3 DEF ImportInv, StagingSound
  <2> QED BY <1>5, <2>3, <2>4, GoesOn DEF Register, ImportInv, TypeOK
<1> QED BY <1>2, <1>3, <1>4, <1>5 DEF Register

LEMMA StageRowKeeps ==
  ASSUME ImportInv, NEW p \in Operators, StageRow(p)
  PROVE ImportInv'
<1>1. CASE Ends(p) /\ UNCHANGED staging
  BY <1>1, EndsKeeps DEF StageRow
<1>2. CASE ~(Ends(p) /\ UNCHANGED staging)
  <2>1. SupabaseSound(op[p]) /\ op[p] \in OpType /\ op[p].pc = "stage"
    BY Facts DEF StageRow, OfSupabase
  <2>2. PICK id \in Ids : id = op[p].id
    BY <2>1 DEF SupabaseSound, PlanOf
  <2> DEFINE Chunk(k) == <<Ordinal(k, op[p].plan), k>>
  <2>3. PICK k \in op[p].plan \ op[p].inserted :
          /\ staging[id].state # "none"
          /\ staging' = [staging EXCEPT ![id] =
                          [@ EXCEPT !.rows = staging[id].rows \cup {Chunk(k)}]]
          /\ Inserts(p, k)
    BY <1>2, <2>2 DEF StageRow
  <2>4. k \in Rows /\ k \in RowsOf[Bundle(id)]
    BY <2>1, <2>2, <2>3 DEF SupabaseSound, Planned, OpType
  <2>5. Chunk(k) \in Nat \X Rows /\ Chunk(k)[2] = k
    <3>1. {j \in op[p].plan : j < k} \in SUBSET Rows
      BY <2>1 DEF OpType
    <3>2. Ordinal(k, op[p].plan) \in Nat
      BY <3>1, ImportAssumption, FS_Subset, FS_CardinalityType DEF Ordinal
    <3> QED BY <2>4, <3>2
  <2> DEFINE x == [op[p] EXCEPT !.inserted = op[p].inserted \cup {k}]
             y == [staging[id] EXCEPT !.rows = staging[id].rows \cup {Chunk(k)}]
  <2>6. x \in OpType /\ x.pc = "stage" /\ SupabaseSound(x)
    BY <2>1, <2>4 DEF OpType, SupabaseSound
  <2> HIDE DEF Chunk
  <2>7. y \in StagingType /\ StagedSound(id, y)
    BY <2>3, <2>4, <2>5, Facts DEF StagingType, StagedSound, ImportInv, StagingSound
  <2>8. op' = [op EXCEPT ![p] = x] /\ staging' = [staging EXCEPT ![id] = y]
    BY <2>3 DEF Inserts
  <2> HIDE DEF x, y
  <2>9. StagingSound' /\ staging' \in [Ids -> StagingType]
    BY <2>7, <2>8, Facts DEF ImportInv, StagingSound
  <2> QED BY <2>6, <2>8, <2>9, OpMoves DEF StageRow, ImportInv, TypeOK
<1> QED BY <1>1, <1>2

LEMMA StageReadyKeeps ==
  ASSUME ImportInv, NEW p \in Operators, StageReady(p)
  PROVE ImportInv'
<1>1. PICK id \in Ids : id = op[p].id
  BY Facts DEF StageReady, OfSupabase, SupabaseSound, PlanOf
<1> DEFINE y == IF staging[id].state = "staging" THEN [staging[id] EXCEPT !.state = "ready"]
                ELSE staging[id]
<1>2. staging' = [staging EXCEPT ![id] = y]
  BY <1>1 DEF StageReady
<1>3. y \in StagingType /\ (y.state # "none" => StagedSound(id, y))
  BY Facts DEF ImportInv, StagingSound, StagedSound, StagingType
<1> HIDE DEF y
<1>4. StagingSound' /\ staging' \in [Ids -> StagingType]
  BY <1>2, <1>3, Facts DEF ImportInv, StagingSound
<1> QED BY <1>4, GoesOn DEF StageReady, ImportInv, TypeOK

(* The tables are those of the plan, and what is staged is what it plans:  *)
(* as many rows, each once, all of the bundle and none stored.             *)
LEMMA Promotes ==
  ASSUME ImportInv, NEW id \in Ids, Promotable(id)
  PROVE /\ Staged(id) \in SUBSET Rows /\ Staged(id) = Planned(Bundle(id), ledger)
        /\ \A k \in Staged(id) : ledger[k] = "absent"
        /\ Unknown(id, batch) /\ Reused(id) = Differing(Bundle(id), ledger)
<1>1. /\ StagedSound(id, staging[id]) /\ staging[id].baseline.ledger = ledger
      /\ staging[id].baseline.batch = batch /\ staging[id] \in StagingType
  BY DEF ImportInv, StagingSound, TypeOK, Promotable, Current, Snapshot
<1>2. /\ Unknown(id, batch) /\ Reused(id) = Differing(Bundle(id), ledger)
      /\ staging[id].count = Cardinality(Planned(Bundle(id), ledger))
  BY <1>1 DEF StagedSound, PlanOf
<1>3. /\ \A k \in Staged(id) : ledger[k] = "absent" /\ k \in RowsOf[Bundle(id)] /\ k \in Rows
  BY <1>1, BundleOf DEF Promotable, Inserting, Staged, StagedSound
<1>4. Staged(id) = Planned(Bundle(id), ledger)
  <2>1. Staged(id) \in SUBSET Planned(Bundle(id), ledger)
    BY <1>3 DEF Planned
  <2>2. IsFiniteSet(Planned(Bundle(id), ledger))
    BY BundleOf, PlansAreRows, ImportAssumption, FS_Subset
  <2>3. Cardinality(Staged(id)) = Cardinality(Planned(Bundle(id), ledger))
    BY <1>2 DEF Promotable, Inserting, Complete
  <2> QED BY <2>1, <2>2, <2>3, FS_Subset
<1> QED BY <1>2, <1>3, <1>4

(* A batch that is no longer staged leaves the others sound.               *)
LEMMA UnstagedKeeps ==
  ASSUME ImportInv, NEW id \in Ids, staging' = [staging EXCEPT ![id] = Unstaged]
  PROVE staging' \in [Ids -> StagingType] /\ StagingSound'
<1>1. Unstaged \in StagingType /\ Unstaged.state = "none"
  BY DEF Unstaged, StagingType
<1> QED BY <1>1 DEF ImportInv, TypeOK, StagingSound

LEMMA PromoteKeeps ==
  ASSUME ImportInv, NEW p \in Operators, Promote(p)
  PROVE ImportInv'
<1>1. PICK id \in Ids : id = op[p].id
  BY Facts DEF Promote, OfSupabase, SupabaseSound, PlanOf
<1>2. CASE ~Promotable(id)
  BY <1>1, <1>2, EndsKeeps DEF Promote
<1>3. CASE Promotable(id)
  <2>1. Import(id, Staged(id)) /\ staging' = [staging EXCEPT ![id] = Unstaged] /\ Ends(p)
    BY <1>1, <1>3 DEF Promote
  <2>2. PICK rows : rows = Staged(id)
    OBVIOUS
  <2>3. /\ rows \in SUBSET Rows /\ Import(id, rows) /\ Unknown(id, batch)
        /\ \A k \in rows : ledger[k] = "absent"
        /\ \A k \in Reused(id) : ledger[k] = "live"
    BY <1>3, <2>1, <2>2, Promotes DEF Differing
  <2>4. \A q \in Operators \ {p} : op[q].pc # "insert"
    BY DEF Promote, Unlocked
  <2>5. staging' \in [Ids -> StagingType] /\ StagingSound'
    BY <2>1, UnstagedKeeps
  <2> QED BY <2>1, <2>3, <2>4, <2>5, ImportEnds
<1> QED BY <1>2, <1>3

LEMMA DiscardKeeps ==
  ASSUME ImportInv, NEW id \in Ids, Discard(id)
  PROVE ImportInv'
<1>1. staging' \in [Ids -> StagingType] /\ StagingSound'
  BY UnstagedKeeps DEF Discard
<1> QED BY <1>1 DEF Discard, public, ImportInv, TypeOK, OpsSound, DirectSound, SupabaseSound, Unknown,
       ReusedLive, OneOwner, Owners, ImportedOnce

(* The refresh inserts what is absent: a row of no batch, and none that an *)
(* import under way counts on.                                             *)
LEMMA RefreshInsertsKeeps ==
  ASSUME ImportInv, NEW k \in Rows, RefreshInserts(k)
  PROVE ImportInv'
<1>1. /\ ledger' \in Ledgers /\ ledger[k] = "absent" /\ ledger'[k] = "live"
      /\ \A j \in Rows \ {k} : ledger'[j] = ledger[j]
      /\ UNCHANGED <<batch, journal, staging, op>>
  BY DEF RefreshInserts, ImportInv, TypeOK, Ledgers
<1>2. OneOwner'
  BY <1>1 DEF ImportInv, OneOwner, Owners
<1>3. ReusedLive'
  <2>1. ASSUME NEW i \in Ids, batch'[i] # "none", NEW j \in Reused(i) PROVE ledger'[j] = "live"
    BY <1>1, <2>1, BundleOf DEF ImportInv, ReusedLive
  <2> QED BY <2>1 DEF ReusedLive
<1>4. OpsSound'
  <2>1. ASSUME NEW q \in Operators, op[q].pc = "insert" PROVE DirectSound(op[q])'
    <3>1. DirectSound(op[q]) /\ k \notin op[q].inserted
      BY <2>1, Facts DEF RefreshInserts
    <3>2. RowsOf[Bundle(op[q].id)] \subseteq Rows /\ op[q].inserted \subseteq Rows
      BY <3>1, BundleOf DEF DirectSound
    <3> QED BY <1>1, <3>1, <3>2 DEF DirectSound, Unknown
  <2>2. ASSUME NEW q \in Operators, op[q].pc \in OfSupabase PROVE SupabaseSound(op[q])'
    BY <1>1, <2>2, Facts DEF SupabaseSound
  <2> QED BY <1>1, <2>1, <2>2 DEF ImportInv, OpsSound
<1> QED BY <1>1, <1>2, <1>3, <1>4 DEF ImportInv, TypeOK, StagingSound, ImportedOnce

-----------------------------------------------------------------------------
(* The invariant holds *)

LEMMA InitHolds == Init => ImportInv
<1> SUFFICES ASSUME Init PROVE ImportInv
  OBVIOUS
<1>1. TypeOK
  BY IdleOp DEF Init, TypeOK, Ledgers, Batches, Journals, Unstaged, StagingType
<1>2. OpsSound /\ StagingSound /\ ReusedLive /\ ImportedOnce
  BY DEF Init, Idle, Unstaged, OpsSound, OfSupabase, StagingSound, ReusedLive, ImportedOnce
<1>3. OneOwner
  BY DEF Init, OneOwner, Owners
<1> QED BY <1>1, <1>2, <1>3 DEF ImportInv

LEMMA NextKeeps == ImportInv /\ [Next]_vars => ImportInv'
<1> SUFFICES ASSUME ImportInv, [Next]_vars PROVE ImportInv'
  OBVIOUS
<1>1. CASE UNCHANGED vars
  BY SMTT(60), <1>1 DEF vars, public, ImportInv, TypeOK, OpsSound, DirectSound, SupabaseSound, Unknown,
     StagingSound, ReusedLive, OneOwner, Owners, ImportedOnce
<1>2. ASSUME NEW p \in Operators, Interrupt(p) PROVE ImportInv'
  BY <1>2, EndsKeeps DEF Interrupt
<1>3. ASSUME NEW p \in Operators, Command(p) PROVE ImportInv'
  BY <1>2, <1>3, DirectBeginKeeps, DirectInsertKeeps, DirectCommitKeeps, StagePlanKeeps, CheckKnownKeeps,
     RegisterKeeps, StageRowKeeps, StageReadyKeeps, PromoteKeeps DEF Command
<1> QED BY <1>1, <1>3, RollbackKeeps, DiscardKeeps, RefreshInsertsKeeps DEF Next

(* The inductive invariant of ProductionImport.                            *)
THEOREM ImportHolds == Spec => []ImportInv
BY InitHolds, NextKeeps, PTL DEF Spec

(* Every row an import stored is owned by exactly one batch, a committed   *)
(* one, so a rollback finds its rows whole and its own (rollback_import).  *)
THEOREM RowsOwnedOnce == Spec => []OneOwner
<1>1. ImportInv => OneOwner
  BY DEF ImportInv
<1> QED BY <1>1, ImportHolds, PTL

(* A bundle is imported under one resolved manifest and never again,       *)
(* whatever the refresh captured in between (run_supabase_import).         *)
THEOREM BundleImportedOnce == Spec => []ImportedOnce
<1>1. ImportInv => ImportedOnce
  BY DEF ImportInv
<1> QED BY <1>1, ImportHolds, PTL

-----------------------------------------------------------------------------
(* What no step may do *)

(* The only steps that write the tables.                                   *)
LEMMA PublicSteps ==
  ASSUME ImportInv, [Next]_vars
  PROVE \/ UNCHANGED public
        \/ \E p \in Operators : DirectCommit(p)
        \/ \E p \in Operators, id \in Ids :
             Promotable(id) /\ Import(id, Staged(id))
        \/ \E id \in Ids : Rollback(id)
        \/ \E k \in Rows : RefreshInserts(k)
<1>1. CASE UNCHANGED vars
  BY <1>1 DEF vars
<1>2. ASSUME NEW p \in Operators, Promote(p)
      PROVE UNCHANGED public \/ \E id \in Ids : Promotable(id) /\ Import(id, Staged(id))
  <2>1. PICK id \in Ids : id = op[p].id
    BY <1>2, Facts DEF Promote, OfSupabase, SupabaseSound, PlanOf
  <2> QED BY <1>2, <2>1 DEF Promote
<1>3. ASSUME NEW p \in Operators, Command(p)
      PROVE UNCHANGED public \/ DirectCommit(p) \/ Promote(p)
  BY <1>3 DEF Command, DirectBegin, DirectInsert, StagePlan, CheckKnown, Register, StageRow,
     StageReady, Interrupt
<1> QED BY <1>1, <1>2, <1>3 DEF Next, Discard

(* A batch that commits does so by an import of what its bundle lacked.    *)
LEMMA Commits ==
  ASSUME ImportInv, NEW id \in Ids, NEW rows \in SUBSET Rows, Import(id, rows),
         \A k \in rows : ledger[k] = "absent",
         Unknown(id, batch), \A k \in Reused(id) : ledger[k] = "live",
         \A k \in RowsOf[Bundle(id)] \ (rows \cup Reused(id)) : ledger[k] = "source"
  PROVE /\ \A k \in Rows : ledger[k] = "live" => ledger'[k] = "live"
        /\ \A other \in Ids : batch[other] = "none" /\ batch'[other] = "committed" => other = id
        /\ \A k \in RowsOf[Bundle(id)] :
             ledger'[k] = IF k \in Reused(id) THEN "live" ELSE "source"
BY ImportKeeps, BundleOf

LEMMA DirectCommits ==
  ASSUME ImportInv, NEW p \in Operators, DirectCommit(p)
  PROVE /\ \A k \in Rows : ledger[k] = "live" => ledger'[k] = "live"
        /\ \A id \in Ids : batch[id] = "none" /\ batch'[id] = "committed" =>
             \A k \in RowsOf[Bundle(id)] :
               ledger'[k] = IF k \in Reused(id) THEN "live" ELSE "source"
<1>1. PICK i \in Ids, rows \in SUBSET Rows : i = op[p].id /\ rows = op[p].inserted
  BY DirectImports
<1> QED BY <1>1, DirectImports, Commits

LEMMA PromotionCommits ==
  ASSUME ImportInv, NEW i \in Ids, Promotable(i), Import(i, Staged(i))
  PROVE /\ \A k \in Rows : ledger[k] = "live" => ledger'[k] = "live"
        /\ \A id \in Ids : batch[id] = "none" /\ batch'[id] = "committed" =>
             \A k \in RowsOf[Bundle(id)] :
               ledger'[k] = IF k \in Reused(id) THEN "live" ELSE "source"
<1>1. PICK rows \in SUBSET Rows : rows = Staged(i)
  BY Promotes
<1>2. \A k \in Reused(i) : ledger[k] = "live"
  BY Promotes DEF Differing
<1>3. \A k \in RowsOf[Bundle(i)] \ (rows \cup Reused(i)) : ledger[k] = "source"
  <2>1. \A k \in RowsOf[Bundle(i)] : ledger[k] \in {"absent", "source", "live"}
    BY BundleOf DEF ImportInv, TypeOK, Ledgers
  <2> QED BY <1>1, <2>1, Promotes DEF Planned, Differing
<1> QED BY <1>1, <1>2, <1>3, Promotes, Commits

LEMMA RollbackCommitsNone ==
  ASSUME ImportInv, NEW i \in Ids, Rollback(i)
  PROVE /\ \A k \in Rows : ledger[k] = "live" => ledger'[k] = "live"
        /\ \A id \in Ids : ~(batch[id] = "none" /\ batch'[id] = "committed")
BY DEF Rollback, Removable, ImportInv, TypeOK, Batches

LEMMA RefreshCommitsNone ==
  ASSUME ImportInv, NEW j \in Rows, RefreshInserts(j)
  PROVE /\ \A k \in Rows : ledger[k] = "live" => ledger'[k] = "live"
        /\ \A id \in Ids : ~(batch[id] = "none" /\ batch'[id] = "committed")
BY DEF RefreshInserts, ImportInv, TypeOK, Ledgers

(* No import and no rollback changes or removes a row that the refresh     *)
(* captured (run_import, rollback_import, run_supabase_import).            *)
THEOREM LiveRowsKept == Spec => LiveKept
<1>1. ImportInv /\ [Next]_vars => [\A k \in Rows : ledger[k] = "live" => ledger'[k] = "live"]_vars
  BY PublicSteps, DirectCommits, PromotionCommits, RollbackCommitsNone, RefreshCommitsNone DEF public
<1> QED BY <1>1, ImportHolds, PTL DEF Spec, LiveKept

(* A batch commits with its whole bundle stored, by whichever of the two   *)
(* ways, and whoever staged its rows.                                      *)
THEOREM BundlesCommitWhole == Spec => CommitsWhole
<1>1. ImportInv /\ [Next]_vars =>
        [\A id \in Ids : batch[id] = "none" /\ batch'[id] = "committed" =>
           \A k \in RowsOf[Bundle(id)] :
             ledger'[k] = IF k \in Reused(id) THEN "live" ELSE "source"]_vars
  BY PublicSteps, DirectCommits, PromotionCommits, RollbackCommitsNone, RefreshCommitsNone DEF public
<1> QED BY <1>1, ImportHolds, PTL DEF Spec, CommitsWhole

=============================================================================
