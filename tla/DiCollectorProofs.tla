-------------------------- MODULE DiCollectorProofs --------------------------
(***************************************************************************)
(* Proofs about DiCollector, for any calendar, holidays, limits and number *)
(* of executions: what the ledger holds was served by the publisher,       *)
(* requests keep their distance, no planned month is passed over, and,     *)
(* where no holiday leads a month's candidates, nothing is asked again.    *)
(***************************************************************************)
EXTENDS DiCollector, FiniteSetTheorems, WellFoundedInduction, TLAPS

-----------------------------------------------------------------------------
(* The inductive invariant *)

Candidates == [day : Days, focus : BOOLEAN]
Phases == {"idle", "collecting", "asking", "stored", "importing"}
Execution ==
  [pc : Phases, planned : SUBSET Candidates, wanted : SUBSET Candidates,
   processed : SUBSET Days, satisfied : SUBSET Nat, attempt : 0 .. Tries,
   digest : Versions \cup {"none"}, halted : BOOLEAN, calm : BOOLEAN, todo : SUBSET Days]

\* What an execution that works on a candidate has: a candidate, an attempt, and
\* the digest of what it stored.
Typed ==
  /\ TypeOK /\ run \in Execution
  /\ run.pc = "collecting" => run.attempt < Tries
  /\ run.pc \in {"asking", "stored"} => Left # {}
  /\ run.pc = "stored" => run.digest \in Versions

\* No request is made for a day that has a file.
NoFileAsked == run.pc = "asking" => ~HasArchive(Candidate.day)

\* A file somebody altered is told by the hash its row declares, or was exposed
\* when no row declared one.
AlteredTold ==
  \A d \in Days :
    /\ archive[d].content = "altered" => d \in exposed \/ row[d].hash \in Versions
    /\ row[d].hash = "altered" => d \in exposed

ProvenInv == Typed /\ NoFileAsked /\ AlteredTold /\ LedgerProven

\* The last request shows in the file it stored, or in the row of a day without
\* a file.
Traced(d) ==
  IF HasArchive(d) THEN archive[d].age <= gap
                   ELSE row[d].status \in Requested /\ row[d].age <= gap

\* The pause an execution keeps, and what the next one will go by.
Spaced ==
  /\ run.pc \in {"asking", "stored"} => rest + gap >= Interval
  /\ run.pc = "collecting" => rest + gap >= Interval \/ (run.attempt = 0 /\ unrecorded)
  /\ unrecorded \/ gap = Interval \/ \E d \in Days : Traced(d)
  /\ run.pc = "stored" /\ HasArchive(Candidate.day) => archive[Candidate.day].age <= gap

SpacedInv == ProvenInv /\ Spaced

-----------------------------------------------------------------------------
(* Least and greatest elements *)

LEMMA Positive ==
  /\ LastDay \in Nat /\ 1 <= LastDay /\ Interval \in Nat /\ 1 <= Interval
  /\ Tries \in Nat /\ 1 <= Tries /\ Fallback \in Nat /\ MaxWait \in Nat
  /\ Days \subseteq Nat /\ MonthOf \in [Days -> Nat \ {0}] /\ TradeDay \in [Days -> Days]
  /\ FocusDates \subseteq Days
BY DiAssumption DEF Days

LEMMA OfTwo ==
  ASSUME NEW a \in Int, NEW b \in Int
  PROVE  /\ Min({a, b}) = IF a <= b THEN a ELSE b
         /\ Max({a, b}) = IF a >= b THEN a ELSE b
<1>1. Min({a, b}) \in {a, b} /\ \A y \in {a, b} : Min({a, b}) <= y
  <2>1. \E x \in {a, b} : \A y \in {a, b} : x <= y
    <3>1. CASE a <= b
      BY <3>1
    <3>2. CASE b <= a
      BY <3>2
    <3> QED BY <3>1, <3>2
  <2> QED BY <2>1 DEF Min
<1>2. Max({a, b}) \in {a, b} /\ \A y \in {a, b} : Max({a, b}) >= y
  <2>1. \E x \in {a, b} : \A y \in {a, b} : x >= y
    <3>1. CASE a >= b
      BY <3>1
    <3>2. CASE b >= a
      BY <3>2
    <3> QED BY <3>1, <3>2
  <2> QED BY <2>1 DEF Max
<1> QED BY <1>1, <1>2

LEMMA LeastThere ==
  ASSUME NEW T \in SUBSET Nat, T # {}
  PROVE  \E m \in T : \A u \in T : m <= u
<1>1. PICK n \in T : TRUE
  OBVIOUS
<1>2. PICK S : S = 0 .. n
  OBVIOUS
<1> DEFINE F == {A \in SUBSET S : \E k \in T : k <= n /\ A = 0 .. k}
<1>3. F \in SUBSET (SUBSET S) /\ F # {}
  BY <1>2
<1> HIDE DEF F
<1>4. IsWellFoundedOn(StrictSubsetOrdering(S), SUBSET S)
  <2>1. IsFiniteSet(S)
    BY <1>2, FS_Interval
  <2> QED BY <2>1, FS_StrictSubsetOrderingWellFounded, FS_FiniteSubsetsOfFinite
<1>5. PICK A \in F : \A B \in F : <<B, A>> \notin StrictSubsetOrdering(S)
  BY <1>3, <1>4, WFMin, Zenon
<1>6. PICK m \in T : m <= n /\ A = 0 .. m
  BY DEF F
<1>7. ASSUME NEW k \in T, k < m PROVE FALSE
  <2>1. 0 .. k \in F /\ 0 .. k \subseteq A /\ m \in A /\ m \notin 0 .. k
    BY <1>2, <1>6, <1>7 DEF F
  <2> QED BY <1>3, <1>5, <2>1 DEF StrictSubsetOrdering
<1> QED BY <1>6, <1>7

LEMMA LeastChosen ==
  ASSUME NEW T \in SUBSET Nat, T # {}
  PROVE  Min(T) \in T /\ \A u \in T : Min(T) <= u
<1>1. \E m \in T : \A u \in T : m <= u
  BY LeastThere
<1> QED BY <1>1 DEF Min

LEMMA GreatestChosen ==
  ASSUME NEW n \in Nat, NEW T \in SUBSET (0 .. n), T # {}
  PROVE  Max(T) \in T /\ \A y \in T : Max(T) >= y
<1> DEFINE D == {n - x : x \in T}
<1>1. D \in SUBSET Nat /\ D # {}
  OBVIOUS
<1> HIDE DEF D
<1>2. PICK m \in D : \A u \in D : m <= u
  BY <1>1, LeastThere
<1>3. PICK x \in T : m = n - x
  BY <1>2 DEF D
<1>4. ASSUME NEW y \in T PROVE x >= y
  <2>1. n - y \in D
    BY DEF D
  <2> QED BY <1>2, <1>3, <2>1
<1>5. \E z \in T : \A y \in T : z >= y
  BY <1>4
<1> QED BY <1>5 DEF Max

LEMMA OlderAge ==
  ASSUME NEW a \in 0 .. Interval
  PROVE  Older(a) \in 0 .. Interval /\ Older(a) = IF a < Interval THEN a + 1 ELSE Interval
<1>1. Min({a + 1, Interval}) = IF a + 1 <= Interval THEN a + 1 ELSE Interval
  BY Positive, OfTwo
<1> QED BY <1>1, Positive DEF Older

-----------------------------------------------------------------------------
(* The plan and the candidate in hand *)

LEMMA OnlyPast ==
  ASSUME NEW d \in Days
  PROVE  1 .. d \subseteq Days /\ d \in Nat
<1>1. d \in Nat /\ d <= LastDay /\ LastDay \in Nat
  BY Positive DEF Days
<1> QED BY <1>1 DEF Days

LEMMA PlanTyped ==
  ASSUME today \in Days, NEW current \in BOOLEAN, NEW named \in SUBSET FocusDates
  PROVE  MonthlyCandidates(current, named) \in SUBSET Candidates
<1> DEFINE last == IF current THEN MonthOf[today] ELSE MonthOf[today] - 1
           months == {n \in {MonthOf[d] : d \in 1 .. today} : n <= last}
           ends == {Max({d \in 1 .. today : MonthOf[d] = m}) : m \in months}
<1>1. 1 .. today \subseteq Days /\ today \in Nat
  BY OnlyPast
<1>2. ASSUME NEW e \in ends PROVE e \in 1 .. today
  <2>1. PICK m \in months : e = Max({d \in 1 .. today : MonthOf[d] = m})
    OBVIOUS
  <2> DEFINE T == {d \in 1 .. today : MonthOf[d] = m}
  <2>2. T # {} /\ T \in SUBSET (0 .. today)
    OBVIOUS
  <2>3. e = Max(T) /\ T \subseteq 1 .. today
    BY <2>1
  <2> HIDE DEF T
  <2>4. Max(T) \in T
    BY <1>1, <2>2, GreatestChosen
  <2> QED BY <2>3, <2>4
<1>3. UNION {Preceding(e) : e \in ends} \subseteq Days
  <2>1. ASSUME NEW e \in ends, NEW d \in Preceding(e) PROVE d \in Days
    <3>1. e \in Days /\ d \in 1 .. e
      BY <1>1, <1>2, <2>1 DEF Preceding
    <3> QED BY <3>1, OnlyPast
  <2> HIDE DEF ends
  <2> QED BY <2>1
<1>4. MonthlyCandidates(current, named) =
        {[day |-> d, focus |-> FALSE] : d \in UNION {Preceding(e) : e \in ends}}
        \cup {[day |-> d, focus |-> TRUE] : d \in named \cap 1 .. today}
  BY DEF MonthlyCandidates
<1> HIDE DEF ends
<1>5. named \cap 1 .. today \subseteq Days
  BY <1>1
<1>6. \A d \in Days, f \in BOOLEAN : [day |-> d, focus |-> f] \in Candidates
  BY DEF Candidates
<1>7. {[day |-> d, focus |-> FALSE] : d \in UNION {Preceding(e) : e \in ends}} \subseteq Candidates
  BY <1>3, <1>6
<1>8. {[day |-> d, focus |-> TRUE] : d \in named \cap 1 .. today} \subseteq Candidates
  BY <1>5, <1>6
<1> QED BY <1>4, <1>7, <1>8

LEMMA Product ==
  ASSUME NEW x \in Nat, NEW y \in Nat, 1 <= x
  PROVE  x * y \in Nat /\ x * y >= y
<1>1. x * y \in Nat /\ (x - 1) * y \in Nat
  OBVIOUS
<1>2. x * y = (x - 1) * y + y
  OBVIOUS
<1> QED BY <1>1, <1>2

LEMMA CandidateLeft ==
  ASSUME run \in Execution, Left # {}
  PROVE  /\ Candidate \in Left /\ Candidate \in Candidates /\ Candidate.day \in Days
         /\ Candidate.focus \in BOOLEAN /\ MonthOf[Candidate.day] \in Nat
         /\ \A e \in Left : Order(Candidate) <= Order(e)
<1>1. Left \subseteq Candidates
  BY DEF Left, Execution
<1>2. ASSUME NEW c \in Candidates PROVE Order(c) \in Nat
  <2>1. c.day \in Days /\ MonthOf[c.day] \in Nat \ {0}
    BY Positive DEF Candidates
  <2>2. LastDay \in Nat
    BY Positive
  <2>3. c.day \in Nat /\ c.day <= LastDay
    BY <2>1, <2>2 DEF Days
  <2> DEFINE x == 2 * MonthOf[c.day] + IF c.focus THEN 1 ELSE 0
             y == LastDay + 1
  <2>4. x \in Nat /\ 1 <= x
    BY <2>1
  <2>5. y \in Nat /\ c.day < y
    BY <2>2, <2>3
  <2>6. Order(c) = x * y - c.day
    BY DEF Order
  <2> HIDE DEF x, y
  <2>7. x * y \in Nat /\ x * y >= y
    BY <2>4, <2>5, Product
  <2> DEFINE p == x * y
  <2>8. p \in Nat /\ p >= y /\ Order(c) = p - c.day
    BY <2>6, <2>7
  <2> HIDE DEF p
  <2> QED BY <2>3, <2>5, <2>8
<1> DEFINE T == {Order(c) : c \in Left}
<1>3. T \in SUBSET Nat /\ T # {}
  BY <1>1, <1>2
<1>4. PICK m \in T : \A u \in T : m <= u
  <2> HIDE DEF T
  <2> QED BY <1>3, LeastThere
<1>5. \E c \in Left : \A e \in Left : Order(c) <= Order(e)
  BY <1>4
<1>6. Candidate \in Left /\ \A e \in Left : Order(Candidate) <= Order(e)
  BY <1>5 DEF Candidate
<1>7. Candidate \in Candidates
  BY <1>1, <1>6
<1> QED BY <1>6, <1>7, Positive DEF Candidates

\* The candidate in hand is the same while the plan and what is done of it are.
LEMMA SameCandidate ==
  ASSUME run'.planned = run.planned, run'.processed = run.processed,
         run'.satisfied = run.satisfied
  PROVE  Left' = Left /\ Candidate' = Candidate
<1>1. Left' = Left
  BY DEF Left
<1> QED BY <1>1 DEF Candidate

LEMMA HandledTyped ==
  ASSUME run \in Execution, NEW c \in Candidates, NEW status
  PROVE  /\ Handled(c, status) \in Execution
         /\ Handled(c, status).pc = "collecting" /\ Handled(c, status).attempt = 0
<1>1. c.day \in Days /\ MonthOf[c.day] \in Nat
  BY Positive DEF Candidates
<1> DEFINE months == IF status \in {"downloaded", "cache_hit"} /\ ~c.focus
                     THEN run.satisfied \cup {MonthOf[c.day]} ELSE run.satisfied
           half == [run EXCEPT !.pc = "collecting", !.attempt = 0, !.digest = "none"]
           whole == [half EXCEPT !.processed = run.processed \cup {c.day},
                                 !.satisfied = months, !.halted = status \in {"stopped", "rejected"}]
<1>2. Handled(c, status) = whole
  BY DEF Handled
<1>3. /\ run.processed \cup {c.day} \in SUBSET Days /\ months \in SUBSET Nat
      /\ (status \in {"stopped", "rejected"}) \in BOOLEAN /\ 0 \in 0 .. Tries
  BY <1>1, Positive DEF Execution
<1> HIDE DEF months
<1>4. half \in Execution /\ half.pc = "collecting" /\ half.attempt = 0
  BY <1>3 DEF Execution, Phases
<1> HIDE DEF half
<1>5. whole \in Execution /\ whole.pc = "collecting" /\ whole.attempt = 0
  BY <1>3, <1>4 DEF Execution
<1> QED BY <1>2, <1>5

-----------------------------------------------------------------------------
(* Types *)

ArchiveRow == [content : Contents, age : 0 .. Interval]
ManifestRow ==
  [status : Requested \cup {"none", "cache_hit"}, hash : Readable \cup {"none"},
   age : 0 .. Interval]
Pause == 0 .. Max({Interval, MaxWait})

LEMMA PauseBounds ==
  /\ 0 .. Interval \subseteq Pause /\ 0 .. Interval \subseteq Nat /\ Pause \subseteq Nat
  /\ 0 \in 0 .. Interval /\ Interval \in 0 .. Interval
  /\ \A n \in Pause : Max({n - 1, 0}) \in Pause /\ Max({n - 1, 0}) = IF n = 0 THEN 0 ELSE n - 1
  /\ \A n \in 0 .. MaxWait : Max({n, Interval}) \in Pause /\ Max({n, Interval}) >= Interval
<1>1. Max({Interval, MaxWait}) = IF Interval >= MaxWait THEN Interval ELSE MaxWait
  <2>1. Interval \in Int /\ MaxWait \in Int
    BY Positive
  <2> QED BY <2>1, OfTwo, Zenon
<1>2. ASSUME NEW n \in Nat
      PROVE  /\ Max({n - 1, 0}) = IF n = 0 THEN 0 ELSE n - 1
             /\ Max({n, Interval}) = IF n >= Interval THEN n ELSE Interval
  <2>1. n \in Int /\ n - 1 \in Int /\ 0 \in Int /\ Interval \in Int
    BY Positive
  <2>2. Max({n - 1, 0}) = IF n - 1 >= 0 THEN n - 1 ELSE 0
    BY <2>1, OfTwo, Zenon
  <2>3. Max({n, Interval}) = IF n >= Interval THEN n ELSE Interval
    BY <2>1, OfTwo, Zenon
  <2> QED BY <2>2, <2>3
<1> DEFINE top == Max({Interval, MaxWait})
<1>3. top \in Nat /\ Interval <= top /\ MaxWait <= top /\ Pause = 0 .. top
  BY <1>1, Positive DEF Pause
<1> HIDE DEF top
<1>4. \A n \in Pause : Max({n - 1, 0}) \in Pause /\ Max({n - 1, 0}) = IF n = 0 THEN 0 ELSE n - 1
  <2> SUFFICES ASSUME NEW n \in Pause
               PROVE  Max({n - 1, 0}) \in Pause /\ Max({n - 1, 0}) = IF n = 0 THEN 0 ELSE n - 1
    OBVIOUS
  <2>1. n \in Nat
    BY <1>3
  <2>2. Max({n - 1, 0}) = IF n = 0 THEN 0 ELSE n - 1
    BY <1>2, <2>1, Zenon
  <2> QED BY <1>3, <2>1, <2>2
<1>5. \A n \in 0 .. MaxWait : Max({n, Interval}) \in Pause /\ Max({n, Interval}) >= Interval
  <2> SUFFICES ASSUME NEW n \in 0 .. MaxWait
               PROVE  Max({n, Interval}) \in Pause /\ Max({n, Interval}) >= Interval
    OBVIOUS
  <2>1. n \in Nat /\ n <= MaxWait
    BY Positive
  <2>2. Max({n, Interval}) = IF n >= Interval THEN n ELSE Interval
    BY <1>2, <2>1
  <2> QED BY <1>3, <2>1, <2>2, Positive
<1> QED BY <1>3, <1>4, <1>5, Positive

LEMMA Typing ==
  TypeOK <=>
    /\ today \in Days
    /\ published \in [Days -> {"none"} \cup Versions]
    /\ archive \in [Days -> ArchiveRow]
    /\ row \in [Days -> ManifestRow]
    /\ ledger \subseteq [day : Days, file : Days, content : Readable]
    /\ run.pc \in Phases
    /\ run.attempt \in 0 .. Tries
    /\ rest \in Pause /\ gap \in 0 .. Interval
BY DEF TypeOK, ArchiveRow, ManifestRow, Pause, Phases

\* What a step leaves of the types, said of the next state.
Files ==
  /\ archive \in [Days -> ArchiveRow] /\ row \in [Days -> ManifestRow]
  /\ ledger \subseteq [day : Days, file : Days, content : Readable]
  /\ rest \in Pause /\ gap \in 0 .. Interval
Doing ==
  /\ run \in Execution
  /\ run.pc = "collecting" => run.attempt < Tries
  /\ run.pc \in {"asking", "stored"} => Left # {}
  /\ run.pc = "stored" => run.digest \in Versions
Outside == today \in Days /\ published \in [Days -> {"none"} \cup Versions]

LEMMA TypedParts == Typed <=> Outside /\ Files /\ Doing
<1>1. run \in Execution => run.pc \in Phases /\ run.attempt \in 0 .. Tries
  BY DEF Execution
<1> QED BY <1>1, Typing DEF Typed, Outside, Files, Doing

LEMMA TypedNext == (Outside /\ Files /\ Doing)' => Typed'
BY TypedParts, PTL

LEMMA StoppedDoing ==
  /\ Stopped \in Execution /\ Stopped.pc = "idle" /\ Stopped.attempt = 0
  /\ run = Stopped => Doing
<1>1. Stopped \in Execution /\ Stopped.pc = "idle" /\ Stopped.attempt = 0
  BY Positive DEF Stopped, Execution, Phases
<1> QED BY <1>1 DEF Doing

LEMMA YoungestBound ==
  ASSUME TypeOK
  PROVE  /\ Youngest \in 0 .. Interval
         /\ \A d \in Days : HasArchive(d) => Youngest <= archive[d].age
         /\ \A d \in Days : row[d].status \in Requested => Youngest <= row[d].age
<1> DEFINE T == {Interval} \cup {row[d].age : d \in {e \in Days : row[e].status \in Requested}}
                           \cup {archive[d].age : d \in {e \in Days : HasArchive(e)}}
<1>1. \A d \in Days : row[d].age \in 0 .. Interval /\ archive[d].age \in 0 .. Interval
  BY Typing DEF ArchiveRow, ManifestRow
<1>2. T \in SUBSET (0 .. Interval) /\ Interval \in T
  BY <1>1, PauseBounds
<1>3. Youngest = Min(T)
  BY DEF Youngest
<1>4. \A d \in Days : /\ HasArchive(d) => archive[d].age \in T
                      /\ row[d].status \in Requested => row[d].age \in T
  OBVIOUS
<1> HIDE DEF T
<1>5. Min(T) \in T /\ \A u \in T : Min(T) <= u
  BY <1>2, Positive, LeastChosen
<1> QED BY <1>2, <1>3, <1>4, <1>5

LEMMA InitTyped == Init => Typed
<1> SUFFICES ASSUME Init PROVE Typed
  OBVIOUS
<1>1. Doing
  BY StoppedDoing DEF Init
<1>2. NoArchive \in ArchiveRow /\ NoRow \in ManifestRow
  BY PauseBounds DEF NoArchive, NoRow, ArchiveRow, ManifestRow, Contents, Readable, Versions
<1>3. Files
  BY <1>2, PauseBounds DEF Init, Files
<1>4. Outside
  BY DEF Init, Outside, Versions
<1> QED BY <1>1, <1>3, <1>4, TypedParts

\* The steps that end the work on the candidate in hand.
LEMMA RecordTyped ==
  ASSUME Typed, Left # {}, NEW status \in Requested, NEW hash \in Readable \cup {"none"},
         Record(status, hash)
  PROVE  /\ row' \in [Days -> ManifestRow] /\ Doing'
         /\ run'.pc = "collecting" /\ run'.attempt = 0
         /\ row'[Candidate.day] = [status |-> status, hash |-> hash, age |-> gap]
         /\ \A d \in Days : d # Candidate.day => row'[d] = row[d]
<1>1. Candidate \in Candidates /\ Candidate.day \in Days
  BY CandidateLeft DEF Typed
<1>2. run' \in Execution /\ run'.pc = "collecting" /\ run'.attempt = 0
  BY <1>1, HandledTyped DEF Record, Typed
<1>3. Doing'
  BY <1>2, Positive DEF Doing
<1>4. [status |-> status, hash |-> hash, age |-> gap] \in ManifestRow
  BY TypedParts DEF ManifestRow, Files
<1>5. row \in [Days -> ManifestRow]
  BY TypedParts DEF Files
<1> QED BY <1>1, <1>2, <1>3, <1>4, <1>5 DEF Record

LEMMA CollectTyped ==
  ASSUME Typed, Collect
  PROVE  Typed'
<1>1. Outside /\ Files /\ Doing
  BY TypedParts
<1>2. Outside'
  BY <1>1 DEF Collect, PassOver, CacheHit, Ask, AnswerMissing, AnswerBulletin, RecordBulletin,
       AnswerDeferred, AnswerRefused, AnswerUnavailable, EndCollection, Import, Finish, world,
       Outside
<1>3. ASSUME Left # {} PROVE Candidate \in Candidates /\ Candidate.day \in Days
  BY <1>1, <1>3, CandidateLeft DEF Doing
<1>4. ASSUME UNCHANGED <<archive, row, ledger>>, rest' \in Pause, gap' \in 0 .. Interval PROVE Files'
  BY <1>1, <1>4 DEF Files
<1>5. ASSUME NEW c \in Candidates, NEW status, run' = Handled(c, status) PROVE Doing'
  <2>1. run' \in Execution /\ run'.pc = "collecting" /\ run'.attempt = 0
    BY <1>1, <1>5, HandledTyped DEF Doing
  <2> QED BY <2>1, Positive DEF Doing
<1>6. CASE PassOver
  <2>1. Doing'
    BY <1>3, <1>5, <1>6 DEF PassOver, Collecting
  <2>2. Files'
    BY <1>1, <1>6 DEF PassOver, Files
  <2> QED BY <1>2, <2>1, <2>2, TypedNext
<1>7. CASE CacheHit
  <2>1. Doing' /\ Candidate.day \in Days
    BY <1>3, <1>5, <1>7 DEF CacheHit, Collecting
  <2> DEFINE d == Candidate.day
             new == [status |-> "cache_hit", hash |-> archive[d].content,
                     age |-> IF row[d].status = "none" THEN archive[d].age ELSE row[d].age]
  <2>2. row' = [row EXCEPT ![d] = new]
    BY <1>1, <1>7, <2>1 DEF CacheHit, Files
  <2>3. new \in ManifestRow
    <3>1. archive[d].content \in Readable /\ archive[d].age \in 0 .. Interval
      BY <1>1, <1>7, <2>1 DEF CacheHit, Trusted, IsReadable, Files, ArchiveRow
    <3>2. row[d].age \in 0 .. Interval
      BY <1>1, <2>1 DEF Files, ManifestRow
    <3> QED BY <3>1, <3>2 DEF ManifestRow
  <2> HIDE DEF new, d
  <2>4. row \in [Days -> ManifestRow] /\ row' \in [Days -> ManifestRow]
    BY <1>1, <2>2, <2>3 DEF Files
  <2>5. UNCHANGED <<archive, ledger, rest, gap>>
    BY <1>7 DEF CacheHit
  <2>6. Files'
    BY <1>1, <2>4, <2>5 DEF Files
  <2> QED BY <1>2, <2>1, <2>6, TypedNext
<1>8. CASE Ask
  <2>1. run' = [run EXCEPT !.pc = "asking", !.attempt = run.attempt + 1] /\ Left # {}
        /\ run.pc = "collecting"
    BY <1>8 DEF Ask, Collecting
  <2>2. run.attempt + 1 \in 0 .. Tries
    BY <1>1, <2>1, Positive DEF Doing, Execution
  <2>3. /\ run' \in Execution /\ run'.pc = "asking" /\ run'.planned = run.planned
        /\ run'.processed = run.processed /\ run'.satisfied = run.satisfied
    BY <1>1, <2>1, <2>2 DEF Doing, Execution, Phases
  <2>4. Doing'
    BY <2>1, <2>3, SameCandidate DEF Doing
  <2>5. Files'
    BY <1>1, <1>8, PauseBounds DEF Ask, Files
  <2> QED BY <1>2, <2>4, <2>5, TypedNext
<1>9. CASE AnswerMissing \/ (\E status \in {"stopped", "rejected"} : AnswerRefused(status))
  <2>1. Left # {} /\ \E status \in Requested : Record(status, "none")
    BY <1>1, <1>9 DEF AnswerMissing, AnswerRefused, Doing, Requested
  <2>2. Doing' /\ row' \in [Days -> ManifestRow]
    BY <2>1, RecordTyped
  <2>3. Files'
    BY <1>1, <1>9, <2>2 DEF AnswerMissing, AnswerRefused, Files
  <2> QED BY <1>2, <2>2, <2>3, TypedNext
<1>10. CASE AnswerBulletin
  <2>1. Left # {} /\ published[Candidate.day] \in Versions
    BY <1>1, <1>10 DEF AnswerBulletin, Doing
  <2> DEFINE v == published[Candidate.day]
  <2>2. run' = [run EXCEPT !.pc = "stored", !.digest = v]
    BY <1>10 DEF AnswerBulletin
  <2>3. /\ run' \in Execution /\ run'.pc = "stored" /\ run'.planned = run.planned
        /\ run'.processed = run.processed /\ run'.satisfied = run.satisfied /\ run'.digest = v
    <3> HIDE DEF v
    <3>1. v \in Versions
      BY <2>1 DEF v
    <3> QED BY <1>1, <2>2, <3>1 DEF Doing, Execution, Phases
  <2>4. Doing'
    BY <2>1, <2>3, SameCandidate DEF Doing
  <2>5. [content |-> v, age |-> 0] \in ArchiveRow
    BY <2>1, PauseBounds DEF ArchiveRow, Contents, Readable
  <2>6. Files'
    BY <1>1, <1>10, <2>5 DEF AnswerBulletin, Files
  <2> QED BY <1>2, <2>4, <2>6, TypedNext
<1>11. CASE RecordBulletin
  <2>1. Left # {} /\ run.digest \in Readable \cup {"none"} /\ "downloaded" \in Requested
    BY <1>1, <1>11 DEF RecordBulletin, Doing, Readable, Requested
  <2>2. Doing' /\ row' \in [Days -> ManifestRow]
    BY <1>11, <2>1, RecordTyped DEF RecordBulletin
  <2>3. Files'
    BY <1>1, <1>11, <2>2 DEF RecordBulletin, Files
  <2> QED BY <1>2, <2>2, <2>3, TypedNext
<1>12. ASSUME NEW wait \in 0 .. MaxWait + 1, AnswerUnavailable(wait) PROVE Typed'
  <2>1. Left # {}
    BY <1>1, <1>12 DEF AnswerUnavailable, Doing
  <2>2. CASE run.attempt < Tries /\ wait <= MaxWait
    <3>1. run' = [run EXCEPT !.pc = "collecting"] /\ rest' = Max({wait, Interval})
          /\ UNCHANGED <<archive, row, ledger, gap>>
      BY <1>12, <2>2 DEF AnswerUnavailable
    <3>2. run' \in Execution /\ run'.pc = "collecting" /\ run'.attempt = run.attempt
      BY <1>1, <3>1 DEF Doing, Execution, Phases
    <3>3. wait \in 0 .. MaxWait
      BY <2>2, Positive
    <3>4. Doing' /\ Files'
      BY <1>1, <2>2, <3>1, <3>2, <3>3, PauseBounds DEF Doing, Files
    <3> QED BY <1>2, <3>4, TypedNext
  <2>3. CASE ~(run.attempt < Tries /\ wait <= MaxWait)
    <3>1. Record("stopped", "none") /\ UNCHANGED <<archive, ledger, gap, rest>>
      BY <1>12, <2>3 DEF AnswerUnavailable
    <3>2. Doing' /\ row' \in [Days -> ManifestRow]
      BY <2>1, <3>1, RecordTyped DEF Requested
    <3>3. Files'
      BY <1>1, <3>1, <3>2 DEF Files
    <3> QED BY <1>2, <3>2, <3>3, TypedNext
  <2> QED BY <2>2, <2>3
<1>13. CASE AnswerDeferred \/ Finish
  <2>1. Doing'
    <3>1. run' = Stopped
      BY <1>13 DEF AnswerDeferred, Finish
    <3> QED BY <3>1, StoppedDoing DEF Doing
  <2>2. Files'
    BY <1>1, <1>4, <1>13, PauseBounds DEF AnswerDeferred, Finish, Files
  <2> QED BY <1>2, <2>1, <2>2, TypedNext
<1>14. CASE EndCollection
  <2>1. run' = [run EXCEPT !.pc = "importing", !.todo = {d \in Days : HasArchive(d)}]
    BY <1>14 DEF EndCollection
  <2>2. run' \in Execution /\ run'.pc = "importing"
    BY <1>1, <2>1 DEF Doing, Execution, Phases
  <2>3. Doing' /\ Files'
    BY <1>1, <1>14, <2>2, PauseBounds DEF EndCollection, Doing, Files
  <2> QED BY <1>2, <2>3, TypedNext
<1>15. CASE Import
  <2>1. run.todo \in SUBSET Days /\ run.todo # {} /\ run.pc = "importing"
    BY <1>1, <1>15 DEF Import, Doing, Execution
  <2> DEFINE d == Min(run.todo)
  <2>2. d \in Days
    BY <2>1, Positive, LeastChosen
  <2>3. run' = [run EXCEPT !.todo = run.todo \ {d}]
    BY <1>15 DEF Import
  <2>4. ledger' = ledger \cup Imported(d)
    BY <1>15 DEF Import
  <2> HIDE DEF d
  <2>5. run' \in Execution /\ run'.pc = "importing"
    BY <1>1, <2>1, <2>3 DEF Doing, Execution
  <2>6. Imported(d) \subseteq [day : Days, file : Days, content : Readable]
    BY <2>2, Positive DEF Imported, Observed, Trusted, IsReadable
  <2>7. Doing' /\ Files'
    BY <1>1, <1>15, <2>4, <2>5, <2>6 DEF Import, Doing, Files
  <2> QED BY <1>2, <2>7, TypedNext
<1> QED BY <1>6, <1>7, <1>8, <1>9, <1>10, <1>11, <1>12, <1>13, <1>14, <1>15 DEF Collect


\* What is done to the files, or by the publisher, leaves the candidate in hand.
LEMMA CalmKept ==
  ASSUME Doing, NEW b \in BOOLEAN, run' = [run EXCEPT !.calm = b]
  PROVE  /\ Doing' /\ Left' = Left /\ Candidate' = Candidate
         /\ run'.pc = run.pc /\ run'.attempt = run.attempt
<1>1. /\ run' \in Execution /\ run'.pc = run.pc /\ run'.attempt = run.attempt
      /\ run'.planned = run.planned /\ run'.processed = run.processed
      /\ run'.satisfied = run.satisfied /\ run'.digest = run.digest
  BY DEF Doing, Execution
<1> QED BY <1>1, SameCandidate DEF Doing

LEMMA RunKept ==
  ASSUME Doing, run' = run
  PROVE  Doing' /\ Left' = Left /\ Candidate' = Candidate
BY SameCandidate DEF Doing

Start_Any == \E current \in BOOLEAN, focus \in SUBSET FocusDates : Start(current, focus)
World ==
  \/ Tick \/ NewDay \/ Crash
  \/ \E d \in Days : Publish(d) \/ Discard(d)
  \/ \E d \in Days, content \in {"altered", "broken"} : Alter(d, content)

LEMMA StartTyped ==
  ASSUME Typed, Start_Any
  PROVE  /\ Typed' /\ run'.pc = "collecting" /\ run'.attempt = 0
         /\ rest' = Interval - Youngest
         /\ UNCHANGED <<archive, row, ledger, gap, unrecorded, exposed>>
<1>1. Outside /\ Files /\ Doing /\ TypeOK
  BY TypedParts DEF Typed
<1>2. PICK current \in BOOLEAN, named \in SUBSET FocusDates : Start(current, named)
  BY DEF Start_Any
<1>3. PICK plan \in SUBSET Candidates :
        run' = [Stopped EXCEPT !.pc = "collecting", !.wanted = plan, !.planned = plan \ Reused(plan)]
  <2>1. MonthlyCandidates(current, named) \in SUBSET Candidates
    BY <1>1, PlanTyped DEF Outside
  <2> QED BY <1>2, <2>1 DEF Start
<1>4. run' \in Execution /\ run'.pc = "collecting" /\ run'.attempt = 0
  <2>1. plan \ Reused(plan) \in SUBSET Candidates
    OBVIOUS
  <2> QED BY <1>3, <2>1, StoppedDoing DEF Execution, Phases
<1>5. /\ rest' = Interval - Youngest
      /\ UNCHANGED <<today, published, archive, row, ledger, gap, unrecorded, exposed>>
  BY <1>2 DEF Start, world
<1>6. Interval - Youngest \in Pause
  <2>1. Youngest \in Nat /\ Youngest <= Interval
    BY <1>1, YoungestBound, Positive
  <2>2. Interval - Youngest \in 0 .. Interval
    BY <2>1, Positive
  <2> QED BY <2>2, PauseBounds
<1>7. Outside' /\ Files' /\ Doing'
  BY <1>1, <1>4, <1>5, <1>6, Positive DEF Outside, Files, Doing
<1> QED BY <1>4, <1>5, <1>7, TypedNext

LEMMA TickFiles ==
  ASSUME Files, Tick
  PROVE  /\ Files'
         /\ \A d \in Days : /\ archive'[d] = [archive[d] EXCEPT !.age = Older(archive[d].age)]
                            /\ row'[d] = [row[d] EXCEPT !.age = Older(row[d].age)]
                            /\ archive'[d].content = archive[d].content
                            /\ archive'[d].age = Older(archive[d].age)
                            /\ row'[d].hash = row[d].hash /\ row'[d].status = row[d].status
                            /\ row'[d].age = Older(row[d].age)
<1>1. ASSUME NEW d \in Days
      PROVE  /\ [archive[d] EXCEPT !.age = Older(archive[d].age)] \in ArchiveRow
             /\ [row[d] EXCEPT !.age = Older(row[d].age)] \in ManifestRow
  <2>1. archive[d] \in ArchiveRow /\ row[d] \in ManifestRow
    BY DEF Files
  <2>2. Older(archive[d].age) \in 0 .. Interval /\ Older(row[d].age) \in 0 .. Interval
    BY <2>1, OlderAge DEF ArchiveRow, ManifestRow
  <2> QED BY <2>1, <2>2 DEF ArchiveRow, ManifestRow
<1>2. /\ archive' = [d \in Days |-> [archive[d] EXCEPT !.age = Older(archive[d].age)]]
      /\ row' = [d \in Days |-> [row[d] EXCEPT !.age = Older(row[d].age)]]
  BY DEF Tick
<1>3. archive' \in [Days -> ArchiveRow] /\ row' \in [Days -> ManifestRow]
  BY <1>1, <1>2
<1>4. rest' \in Pause /\ gap' \in 0 .. Interval /\ ledger' = ledger
  BY PauseBounds, OlderAge DEF Tick, Files
<1>5. ASSUME NEW d \in Days
      PROVE  /\ archive'[d] = [archive[d] EXCEPT !.age = Older(archive[d].age)]
             /\ row'[d] = [row[d] EXCEPT !.age = Older(row[d].age)]
  BY <1>2
<1>6. ASSUME NEW d \in Days
      PROVE  /\ archive'[d].content = archive[d].content
             /\ archive'[d].age = Older(archive[d].age)
             /\ row'[d].hash = row[d].hash /\ row'[d].status = row[d].status
             /\ row'[d].age = Older(row[d].age)
  <2>1. archive[d] \in ArchiveRow /\ row[d] \in ManifestRow
    BY DEF Files
  <2> QED BY <1>5, <2>1 DEF ArchiveRow, ManifestRow
<1> QED BY <1>3, <1>4, <1>5, <1>6 DEF Files

LEMMA WorldTyped ==
  ASSUME Typed, World
  PROVE  Typed'
<1>1. Outside /\ Files /\ Doing
  BY TypedParts
<1>2. NoArchive \in ArchiveRow /\ \A c \in {"altered", "broken"} : [content |-> c, age |-> 0] \in ArchiveRow
  BY PauseBounds DEF NoArchive, ArchiveRow, Contents, Readable
<1>3. CASE Tick
  <2>1. Outside' /\ run' = run
    BY <1>1, <1>3 DEF Tick, world, Outside
  <2> QED BY <1>1, <1>3, <2>1, RunKept, TickFiles, TypedNext
<1>4. CASE NewDay
  <2>1. Outside'
    <3>1. today \in Nat /\ today + 1 \in Days
      BY <1>1, <1>4, Positive DEF NewDay, Outside, Days
    <3> QED BY <1>1, <1>4, <3>1 DEF NewDay, Outside
  <2>2. Files' /\ run' = run
    BY <1>1, <1>4 DEF NewDay, Files
  <2> QED BY <1>1, <2>1, <2>2, RunKept, TypedNext
<1>5. CASE Crash
  <2>1. Doing'
    <3>1. run' = Stopped
      BY <1>5 DEF Crash
    <3> QED BY <3>1, StoppedDoing DEF Doing
  <2>2. Outside' /\ Files'
    BY <1>1, <1>5, PauseBounds DEF Crash, world, Outside, Files
  <2> QED BY <2>1, <2>2, TypedNext
<1>6. ASSUME NEW d \in Days, Publish(d) PROVE Typed'
  <2>1. Outside' /\ Files' /\ run' = run
    BY <1>1, <1>6 DEF Publish, Outside, Files, Versions
  <2> QED BY <1>1, <2>1, RunKept, TypedNext
<1>7. ASSUME NEW d \in Days, Discard(d) PROVE Typed'
  <2>1. Outside' /\ Files' /\ (run.pc = "idle") \in BOOLEAN
    BY <1>1, <1>2, <1>7 DEF Discard, world, Outside, Files
  <2>2. run' = [run EXCEPT !.calm = run.pc = "idle"]
    BY <1>7 DEF Discard
  <2>3. Doing'
    BY <1>1, <2>1, <2>2, CalmKept
  <2> QED BY <2>1, <2>3, TypedNext
<1>8. ASSUME NEW d \in Days, NEW content \in {"altered", "broken"}, Alter(d, content) PROVE Typed'
  <2>1. Outside' /\ Files' /\ (run.pc = "idle") \in BOOLEAN
    BY <1>1, <1>2, <1>8 DEF Alter, Outside, Files
  <2>2. run' = [run EXCEPT !.calm = run.pc = "idle"]
    BY <1>8 DEF Alter
  <2>3. Doing'
    BY <1>1, <2>1, <2>2, CalmKept
  <2> QED BY <2>1, <2>3, TypedNext
<1> QED BY <1>3, <1>4, <1>5, <1>6, <1>7, <1>8 DEF World

LEMMA StepCases == Next => Start_Any \/ Collect \/ World
BY DEF Next, Start_Any, World

LEMMA StepTyped == Typed /\ [Next]_vars => Typed'
<1>1. ASSUME Typed, UNCHANGED vars PROVE Typed'
  <2>1. (Outside /\ Files /\ Doing)'
    BY <1>1, RunKept, TypedParts DEF vars, Outside, Files
  <2> QED BY <2>1, TypedNext
<1> QED BY <1>1, StepCases, StartTyped, CollectTyped, WorldTyped

-----------------------------------------------------------------------------
(* What the ledger holds was served *)

LEMMA InitProven == Init => ProvenInv
<1> SUFFICES ASSUME Init PROVE ProvenInv
  OBVIOUS
<1>1. Typed
  BY InitTyped
<1>2. NoFileAsked /\ AlteredTold /\ LedgerProven
  BY DEF Init, NoFileAsked, AlteredTold, LedgerProven, Stopped, NoArchive, NoRow
<1> QED BY <1>1, <1>2 DEF ProvenInv

\* The rows, the files and the exposed days stay what they are.
LEMMA ToldStill ==
  ASSUME AlteredTold, UNCHANGED <<archive, row, exposed>>
  PROVE  AlteredTold'
BY DEF AlteredTold

\* A row without a hash, or with that of a bulletin, written over the row of the
\* candidate in hand.
LEMMA RecordTold ==
  ASSUME ProvenInv, Left # {}, UNCHANGED <<archive, exposed>>,
         NEW status \in Requested, NEW hash \in Versions \cup {"none"}, Record(status, hash),
         hash = "none" => ~HasArchive(Candidate.day)
  PROVE  AlteredTold'
<1> SUFFICES ASSUME NEW d \in Days
             PROVE  /\ archive[d].content = "altered" => d \in exposed \/ row'[d].hash \in Versions
                    /\ row'[d].hash = "altered" => d \in exposed
  BY DEF AlteredTold
<1>1. /\ row'[Candidate.day] = [status |-> status, hash |-> hash, age |-> gap]
      /\ \A e \in Days : e # Candidate.day => row'[e] = row[e]
  <2>1. hash \in Readable \cup {"none"}
    BY DEF Readable
  <2> QED BY <2>1, RecordTyped DEF ProvenInv
<1>2. CASE d # Candidate.day
  BY <1>1, <1>2 DEF ProvenInv, AlteredTold
<1>3. CASE d = Candidate.day
  BY <1>1, <1>3 DEF HasArchive, Versions
<1> QED BY <1>2, <1>3

\* What is trusted and was altered, was exposed.
LEMMA TrustedTold ==
  ASSUME Typed, AlteredTold, NEW d \in Days, Trusted(d)
  PROVE  archive[d].content \in Versions \/ (archive[d].content = "altered" /\ d \in exposed)
BY DEF AlteredTold, Trusted, IsReadable, Declared, Readable, Versions

LEMMA CollectProven ==
  ASSUME ProvenInv, Collect
  PROVE  ProvenInv'
<1>1. Typed /\ Typed' /\ Outside /\ Files /\ Doing /\ NoFileAsked /\ AlteredTold /\ LedgerProven
  BY CollectTyped, TypedParts DEF ProvenInv
<1>2. exposed' = exposed
  BY DEF Collect, PassOver, CacheHit, Ask, AnswerMissing, AnswerBulletin, RecordBulletin,
       AnswerDeferred, AnswerRefused, AnswerUnavailable, EndCollection, Import, Finish, world
<1>3. Left # {} => Candidate.day \in Days /\ Candidate \in Candidates
  BY <1>1, CandidateLeft DEF Doing
<1>4. ASSUME ledger' = ledger, run'.pc # "asking", AlteredTold' PROVE ProvenInv'
  BY <1>1, <1>2, <1>4 DEF ProvenInv, NoFileAsked, LedgerProven
<1>5. ASSUME NEW status, run' = Handled(Candidate, status), Left # {} PROVE run'.pc # "asking"
  BY <1>1, <1>3, <1>5, HandledTyped DEF Doing
<1>6. CASE PassOver
  BY <1>1, <1>2, <1>4, <1>5, <1>6, ToldStill DEF PassOver, Collecting
<1>7. CASE CacheHit
  <2>1. Candidate.day \in Days /\ Trusted(Candidate.day) /\ run'.pc # "asking"
    BY <1>3, <1>5, <1>7 DEF CacheHit, Collecting
  <2> DEFINE d == Candidate.day
  <2>2. /\ row'[d].hash = archive[d].content
        /\ \A e \in Days : e # d => row'[e] = row[e]
    BY <1>1, <1>7, <2>1 DEF CacheHit, Files
  <2>3. archive[d].content \in Versions \/ (archive[d].content = "altered" /\ d \in exposed)
    BY <1>1, <2>1, TrustedTold
  <2>4. UNCHANGED <<archive, ledger>>
    BY <1>7 DEF CacheHit
  <2> HIDE DEF d
  <2>5. AlteredTold'
    <3> SUFFICES ASSUME NEW e \in Days
                 PROVE  /\ archive[e].content = "altered" => e \in exposed \/ row'[e].hash \in Versions
                        /\ row'[e].hash = "altered" => e \in exposed
      BY <1>2, <2>4 DEF AlteredTold
    <3>1. CASE e # d
      BY <1>1, <2>2, <3>1 DEF AlteredTold
    <3>2. CASE e = d
      BY <2>2, <2>3, <3>2 DEF Versions
    <3> QED BY <3>1, <3>2
  <2> QED BY <1>4, <2>1, <2>4, <2>5
<1>8. CASE Ask
  <2>1. /\ run' = [run EXCEPT !.pc = "asking", !.attempt = run.attempt + 1]
        /\ ~HasArchive(Candidate.day) /\ UNCHANGED <<archive, row, ledger>>
    BY <1>8 DEF Ask
  <2>2. /\ run'.planned = run.planned /\ run'.processed = run.processed
        /\ run'.satisfied = run.satisfied
    BY <1>1, <2>1 DEF Doing, Execution
  <2>3. NoFileAsked'
    BY <2>1, <2>2, SameCandidate DEF NoFileAsked, HasArchive
  <2>4. AlteredTold' /\ LedgerProven'
    BY <1>1, <1>2, <2>1, ToldStill DEF LedgerProven
  <2> QED BY <1>1, <2>3, <2>4 DEF ProvenInv
<1>9. ASSUME NEW status \in Requested, NEW hash \in Versions \cup {"none"}, Record(status, hash),
             Left # {}, UNCHANGED <<archive, ledger>>,
             hash = "none" => ~HasArchive(Candidate.day)
      PROVE  ProvenInv'
  <2>1. AlteredTold'
    BY <1>2, <1>9, RecordTold
  <2>2. run'.pc # "asking"
    BY <1>5, <1>9 DEF Record
  <2> QED BY <1>4, <1>9, <2>1, <2>2
<1>10. CASE AnswerMissing \/ (\E status \in {"stopped", "rejected"} : AnswerRefused(status))
  <2>1. /\ Left # {} /\ ~HasArchive(Candidate.day) /\ UNCHANGED <<archive, ledger>>
        /\ \E status \in Requested : Record(status, "none")
    BY <1>1, <1>10 DEF AnswerMissing, AnswerRefused, Doing, NoFileAsked, Requested
  <2> QED BY <1>9, <2>1
<1>11. CASE AnswerBulletin
  <2>1. /\ published[Candidate.day] \in Versions /\ Left # {} /\ UNCHANGED <<row, ledger>>
        /\ archive' = [archive EXCEPT ![Candidate.day] = [content |-> published[Candidate.day], age |-> 0]]
        /\ run' = [run EXCEPT !.pc = "stored", !.digest = published[Candidate.day]]
    BY <1>1, <1>11 DEF AnswerBulletin, Doing
  <2>2. run'.pc # "asking"
    BY <1>1, <2>1 DEF Doing, Execution
  <2>3. AlteredTold'
    <3> SUFFICES ASSUME NEW e \in Days
                 PROVE  /\ archive'[e].content = "altered" => e \in exposed \/ row[e].hash \in Versions
                        /\ row[e].hash = "altered" => e \in exposed
      BY <1>2, <2>1 DEF AlteredTold
    <3>1. archive'[e].content = archive[e].content \/ archive'[e].content \in Versions
      BY <1>1, <2>1 DEF Files
    <3> QED BY <1>1, <3>1 DEF AlteredTold, Versions
  <2> QED BY <1>4, <2>1, <2>2, <2>3
<1>12. CASE RecordBulletin
  <2>1. /\ run.digest \in Versions /\ Left # {} /\ UNCHANGED <<archive, ledger>>
        /\ Record("downloaded", run.digest)
    BY <1>1, <1>12 DEF RecordBulletin, Doing
  <2> QED BY <1>9, <2>1 DEF Requested, Versions
<1>13. ASSUME NEW wait \in 0 .. MaxWait + 1, AnswerUnavailable(wait) PROVE ProvenInv'
  <2>1. CASE Record("stopped", "none")
    <3>1. Left # {} /\ ~HasArchive(Candidate.day) /\ UNCHANGED <<archive, ledger>>
      BY <1>1, <1>13 DEF AnswerUnavailable, Doing, NoFileAsked
    <3> QED BY <1>9, <2>1, <3>1 DEF Requested
  <2>2. CASE ~Record("stopped", "none")
    <3>1. run' = [run EXCEPT !.pc = "collecting"] /\ UNCHANGED <<archive, row, ledger>>
      BY <1>13, <2>2 DEF AnswerUnavailable
    <3>2. run'.pc # "asking"
      BY <1>1, <3>1 DEF Doing, Execution
    <3> QED BY <1>1, <1>2, <1>4, <3>1, <3>2, ToldStill
  <2> QED BY <2>1, <2>2
<1>14. CASE AnswerDeferred \/ Finish \/ EndCollection
  <2>1. UNCHANGED <<archive, row, ledger>>
    BY <1>14 DEF AnswerDeferred, Finish, EndCollection
  <2>2. run'.pc # "asking"
    <3>1. CASE AnswerDeferred \/ Finish
      BY <3>1, StoppedDoing DEF AnswerDeferred, Finish
    <3>2. CASE EndCollection
      BY <1>1, <3>2 DEF EndCollection, Doing, Execution
    <3> QED BY <1>14, <3>1, <3>2
  <2> QED BY <1>1, <1>2, <1>4, <2>1, <2>2, ToldStill
<1>15. CASE Import
  <2>1. run.todo \in SUBSET Days /\ run.todo # {} /\ run.pc = "importing"
    BY <1>1, <1>15 DEF Import, Doing, Execution
  <2> DEFINE d == Min(run.todo)
  <2>2. d \in Days
    BY <2>1, Positive, LeastChosen
  <2>3. /\ run' = [run EXCEPT !.todo = run.todo \ {d}] /\ ledger' = ledger \cup Imported(d)
        /\ UNCHANGED <<archive, row>>
    BY <1>15 DEF Import
  <2> HIDE DEF d
  <2>4. ASSUME NEW o \in Imported(d) PROVE o.content \in Versions \/ o.file \in exposed
    <3>1. Trusted(d) /\ o.content = archive[d].content /\ o.file = d
      BY <2>4 DEF Imported, Observed
    <3> QED BY <1>1, <2>2, <3>1, TrustedTold
  <2>5. LedgerProven'
    BY <1>1, <1>2, <2>3, <2>4 DEF LedgerProven
  <2>6. NoFileAsked'
    BY <1>1, <2>1, <2>3 DEF Doing, Execution, NoFileAsked
  <2> QED BY <1>1, <1>2, <2>3, <2>5, <2>6, ToldStill DEF ProvenInv
<1> QED BY <1>6, <1>7, <1>8, <1>10, <1>11, <1>12, <1>13, <1>14, <1>15 DEF Collect

LEMMA WorldProven ==
  ASSUME ProvenInv, World
  PROVE  ProvenInv'
<1>1. Typed /\ Typed' /\ Outside /\ Files /\ Doing /\ NoFileAsked /\ AlteredTold /\ LedgerProven
  BY WorldTyped, TypedParts DEF ProvenInv
<1>2. ledger' = ledger
  BY DEF World, Tick, NewDay, Crash, Publish, Discard, Alter
<1>3. ASSUME UNCHANGED <<archive, row, exposed, run>> PROVE ProvenInv'
  BY <1>1, <1>2, <1>3, RunKept, ToldStill DEF ProvenInv, NoFileAsked, LedgerProven, HasArchive
<1>4. CASE Tick
  <2>1. \A d \in Days : archive'[d].content = archive[d].content /\ row'[d].hash = row[d].hash
    BY <1>1, <1>4, TickFiles
  <2>2. run' = run /\ exposed' = exposed
    BY <1>4 DEF Tick, world
  <2>3. AlteredTold' /\ LedgerProven'
    BY <1>1, <1>2, <2>1, <2>2 DEF AlteredTold, LedgerProven
  <2>4. NoFileAsked'
    <3> SUFFICES ASSUME run.pc = "asking" PROVE ~HasArchive(Candidate.day)'
      BY <2>2, RunKept DEF NoFileAsked
    <3>1. Candidate.day \in Days /\ Candidate' = Candidate /\ ~HasArchive(Candidate.day)
      BY <1>1, <2>2, CandidateLeft, RunKept DEF Doing, NoFileAsked
    <3> QED BY <2>1, <3>1 DEF HasArchive
  <2> QED BY <1>1, <2>3, <2>4 DEF ProvenInv
<1>5. CASE NewDay \/ \E d \in Days : Publish(d)
  BY <1>3, <1>5 DEF NewDay, Publish
<1>6. CASE Crash
  <2>1. UNCHANGED <<archive, row, exposed>> /\ run'.pc = "idle"
    BY <1>6, StoppedDoing DEF Crash, world
  <2> QED BY <1>1, <1>2, <2>1, ToldStill DEF ProvenInv, NoFileAsked, LedgerProven
<1>7. ASSUME NEW d \in Days, Discard(d) PROVE ProvenInv'
  <2>1. /\ archive' = [archive EXCEPT ![d] = NoArchive] /\ UNCHANGED <<row, exposed>>
        /\ run' = [run EXCEPT !.calm = run.pc = "idle"] /\ (run.pc = "idle") \in BOOLEAN
    BY <1>7 DEF Discard, world
  <2>2. Candidate' = Candidate /\ run'.pc = run.pc
    BY <1>1, <2>1, CalmKept
  <2>3. \A e \in Days : archive'[e] = archive[e] \/ archive'[e].content = "none"
    BY <1>1, <2>1 DEF Files, NoArchive
  <2>4. AlteredTold' /\ LedgerProven'
    BY <1>1, <1>2, <2>1, <2>3 DEF AlteredTold, LedgerProven
  <2>5. NoFileAsked'
    <3> SUFFICES ASSUME run.pc = "asking" PROVE ~HasArchive(Candidate.day)'
      BY <2>2 DEF NoFileAsked
    <3>1. Candidate.day \in Days /\ ~HasArchive(Candidate.day)
      BY <1>1, CandidateLeft DEF Doing, NoFileAsked
    <3> QED BY <2>2, <2>3, <3>1 DEF HasArchive
  <2> QED BY <1>1, <2>4, <2>5 DEF ProvenInv
<1>8. ASSUME NEW d \in Days, NEW content \in {"altered", "broken"}, Alter(d, content)
      PROVE  ProvenInv'
  <2>1. /\ archive' = [archive EXCEPT ![d] = [content |-> content, age |-> 0]]
        /\ row' = row /\ HasArchive(d)
        /\ exposed' = IF row[d].hash = "none" THEN exposed \cup {d} ELSE exposed
        /\ run' = [run EXCEPT !.calm = run.pc = "idle"] /\ (run.pc = "idle") \in BOOLEAN
    BY <1>8 DEF Alter
  <2>2. Candidate' = Candidate /\ run'.pc = run.pc
    BY <1>1, <2>1, CalmKept
  <2>3. /\ archive'[d].content = content /\ \A e \in Days : e # d => archive'[e] = archive[e]
        /\ exposed \subseteq exposed'
    BY <1>1, <2>1 DEF Files
  <2>4. row[d].hash \in Readable \cup {"none"}
    BY <1>1 DEF Files, ManifestRow
  <2>5. AlteredTold'
    <3> SUFFICES ASSUME NEW e \in Days
                 PROVE  /\ archive'[e].content = "altered" => e \in exposed' \/ row[e].hash \in Versions
                        /\ row[e].hash = "altered" => e \in exposed'
      BY <2>1 DEF AlteredTold
    <3>1. row[e].hash = "altered" => e \in exposed'
      BY <1>1, <2>3 DEF AlteredTold
    <3>2. CASE e # d
      BY <1>1, <2>3, <3>1, <3>2 DEF AlteredTold
    <3>3. CASE e = d
      BY <2>1, <2>4, <3>1, <3>3 DEF Readable
    <3> QED BY <3>2, <3>3
  <2>6. LedgerProven'
    BY <1>1, <1>2, <2>3 DEF LedgerProven
  <2>7. NoFileAsked'
    <3> SUFFICES ASSUME run.pc = "asking" PROVE ~HasArchive(Candidate.day)'
      BY <2>2 DEF NoFileAsked
    <3>1. Candidate.day \in Days /\ ~HasArchive(Candidate.day)
      BY <1>1, CandidateLeft DEF Doing, NoFileAsked
    <3> QED BY <2>1, <2>2, <2>3, <3>1 DEF HasArchive
  <2> QED BY <1>1, <2>5, <2>6, <2>7 DEF ProvenInv
<1> QED BY <1>4, <1>5, <1>6, <1>7, <1>8 DEF World

LEMMA StepProven == ProvenInv /\ [Next]_vars => ProvenInv'
<1>1. ASSUME ProvenInv, Start_Any PROVE ProvenInv'
  <2>1. Typed' /\ run'.pc = "collecting" /\ UNCHANGED <<archive, row, ledger, exposed>>
    BY <1>1, StartTyped DEF ProvenInv
  <2> QED BY <1>1, <2>1, ToldStill DEF ProvenInv, NoFileAsked, LedgerProven
<1>2. ASSUME ProvenInv, UNCHANGED vars PROVE ProvenInv'
  <2>1. Typed' /\ Candidate' = Candidate
    BY <1>2, StepTyped, SameCandidate DEF ProvenInv, vars
  <2> QED BY <1>2, <2>1, ToldStill DEF ProvenInv, NoFileAsked, LedgerProven, HasArchive, vars
<1> QED BY <1>1, <1>2, StepCases, CollectProven, WorldProven

\* Whatever is killed, altered or removed: the ledger holds what the publisher
\* served, but for a file changed before any row declared its hash.
THEOREM LedgerIsProven == Spec => []LedgerProven
<1>1. Spec => []ProvenInv
  BY InitProven, StepProven, PTL DEF Spec
<1>2. ProvenInv => LedgerProven
  BY DEF ProvenInv
<1> QED BY <1>1, <1>2, PTL


-----------------------------------------------------------------------------
(* Requests keep their distance *)

LEMMA Ages ==
  ASSUME Files
  PROVE  /\ gap \in Nat /\ gap <= Interval /\ rest \in Nat
         /\ \A d \in Days : archive[d].age \in 0 .. Interval /\ row[d].age \in 0 .. Interval
BY PauseBounds, Positive DEF Files, ArchiveRow, ManifestRow

LEMMA InitSpaced == Init => SpacedInv
<1> SUFFICES ASSUME Init PROVE SpacedInv
  OBVIOUS
<1>1. ProvenInv
  BY InitProven
<1>2. run.pc = "idle" /\ gap = Interval
  BY StoppedDoing DEF Init
<1> QED BY <1>1, <1>2 DEF SpacedInv, Spaced

\* A step that touches neither the files nor what is known of the last request.
LEMMA SpacedStill ==
  ASSUME Spaced, UNCHANGED <<archive, row, gap, unrecorded>>,
         run'.pc \in {"asking", "stored"} => rest' + gap >= Interval,
         run'.pc = "collecting" => rest' + gap >= Interval \/ (run'.attempt = 0 /\ unrecorded),
         run'.pc # "stored"
  PROVE  Spaced'
BY DEF Spaced, Traced, HasArchive

\* What a recorded answer leaves: the row, or the file, of the candidate in hand.
LEMMA RecordSpaced ==
  ASSUME SpacedInv, run.pc \in {"asking", "stored"}, NEW status \in Requested,
         NEW hash \in Readable \cup {"none"}, Record(status, hash),
         UNCHANGED <<archive, gap, rest>>,
         HasArchive(Candidate.day) => archive[Candidate.day].age <= gap
  PROVE  Spaced'
<1>1. Typed /\ Left # {} /\ Files /\ Doing
  BY TypedParts DEF SpacedInv, ProvenInv, Typed
<1>2. Candidate.day \in Days
  BY <1>1, CandidateLeft DEF Doing
<1>3. /\ run'.pc = "collecting"
      /\ row'[Candidate.day] = [status |-> status, hash |-> hash, age |-> gap]
  BY <1>1, RecordTyped
<1>4. gap <= gap
  BY <1>1, Ages
<1>5. \E d \in Days : Traced(d)'
  <2> DEFINE d == Candidate.day
  <2>1. /\ row'[d].status \in Requested /\ row'[d].age <= gap'
        /\ (HasArchive(d) => archive'[d].age <= gap') /\ archive' = archive
    BY <1>3, <1>4
  <2>2. d \in Days
    BY <1>2
  <2> HIDE DEF d
  <2>3. \E e \in Days : IF archive'[e].content # "none" THEN archive'[e].age <= gap'
                        ELSE row'[e].status \in Requested /\ row'[e].age <= gap'
    BY <2>1, <2>2 DEF HasArchive
  <2> QED BY <2>3 DEF Traced, HasArchive
<1>6. Spaced
  BY DEF SpacedInv
<1>7. rest + gap >= Interval
  BY <1>6 DEF Spaced
<1>8. run'.pc = "collecting" /\ rest' + gap' >= Interval
  BY <1>3, <1>7
<1> QED BY <1>5, <1>8 DEF Spaced

LEMMA CollectSpaced ==
  ASSUME SpacedInv, Collect
  PROVE  Spaced'
<1>1. ProvenInv /\ Typed /\ Files /\ Doing /\ NoFileAsked /\ Spaced
  BY TypedParts DEF SpacedInv, ProvenInv
<1>2. gap \in Nat /\ gap <= Interval /\ rest \in Nat /\ Interval \in Nat
  BY <1>1, Ages, Positive
<1>3. Left # {} => Candidate.day \in Days /\ Candidate \in Candidates
  BY <1>1, CandidateLeft DEF Doing
<1>4. ASSUME NEW status, run' = Handled(Candidate, status), Left # {}
      PROVE  run'.pc = "collecting" /\ run'.attempt = 0
  BY <1>1, <1>3, <1>4, HandledTyped DEF Doing
<1>5. CASE PassOver \/ CacheHit
  <2>1. /\ run.pc = "collecting" /\ run'.pc = "collecting" /\ run'.attempt = 0
        /\ UNCHANGED <<archive, gap, unrecorded, rest>>
    BY <1>4, <1>5 DEF PassOver, CacheHit, Collecting
  <2>2. \A d \in Days : ~HasArchive(d) => row'[d] = row[d]
    <3>1. CASE PassOver
      BY <3>1 DEF PassOver
    <3>2. CASE CacheHit
      <4>1. Candidate.day \in Days /\ HasArchive(Candidate.day)
        BY <1>3, <3>2 DEF CacheHit, Collecting, Trusted, IsReadable, HasArchive, Readable, Versions
      <4> QED BY <1>1, <3>2, <4>1 DEF CacheHit, Files
    <3> QED BY <1>5, <3>1, <3>2
  <2>3. \A d \in Days : Traced(d) => Traced(d)'
    BY <2>1, <2>2 DEF Traced, HasArchive
  <2> QED BY <1>1, <2>1, <2>3 DEF Spaced
<1>6. CASE Ask
  <2>1. /\ rest' = Interval /\ gap' = 0 /\ unrecorded' = TRUE
        /\ run' = [run EXCEPT !.pc = "asking", !.attempt = run.attempt + 1]
    BY <1>6 DEF Ask
  <2>2. run'.pc = "asking"
    BY <1>1, <2>1 DEF Doing, Execution
  <2> QED BY <1>2, <2>1, <2>2 DEF Spaced
<1>7. CASE AnswerMissing \/ (\E status \in {"stopped", "rejected"} : AnswerRefused(status))
  <2>1. /\ run.pc = "asking" /\ ~HasArchive(Candidate.day) /\ UNCHANGED <<archive, gap, rest>>
        /\ \E status \in Requested : Record(status, "none")
    BY <1>1, <1>7 DEF AnswerMissing, AnswerRefused, NoFileAsked, Requested
  <2> QED BY <2>1, RecordSpaced
<1>8. CASE AnswerBulletin
  <2>1. /\ run.pc = "asking" /\ Left # {} /\ UNCHANGED <<row, gap, rest>> /\ unrecorded' = FALSE
        /\ archive' = [archive EXCEPT ![Candidate.day] = [content |-> published[Candidate.day], age |-> 0]]
        /\ run' = [run EXCEPT !.pc = "stored", !.digest = published[Candidate.day]]
        /\ published[Candidate.day] \in Versions
    BY <1>1, <1>8 DEF AnswerBulletin, Doing
  <2>2. /\ run'.pc = "stored" /\ run'.planned = run.planned
        /\ run'.processed = run.processed /\ run'.satisfied = run.satisfied
    BY <1>1, <2>1 DEF Doing, Execution
  <2>3. Candidate' = Candidate /\ Candidate.day \in Days
    BY <1>3, <2>1, <2>2, SameCandidate
  <2>4. archive'[Candidate.day] = [content |-> published[Candidate.day], age |-> 0]
    BY <1>1, <2>1, <2>3 DEF Files
  <2>5. archive'[Candidate.day].content # "none" /\ archive'[Candidate.day].age <= gap'
    BY <1>2, <2>1, <2>4 DEF Versions
  <2>6. \E d \in Days : archive'[d].content # "none" /\ archive'[d].age <= gap'
    BY <2>3, <2>5
  <2>7. \E d \in Days : Traced(d)'
    BY <2>6 DEF Traced, HasArchive
  <2>8. rest' + gap' >= Interval
    BY <1>1, <2>1 DEF Spaced
  <2> QED BY <2>2, <2>3, <2>5, <2>7, <2>8 DEF Spaced
<1>9. CASE RecordBulletin
  <2>1. /\ run.pc = "stored" /\ UNCHANGED <<archive, gap, rest>> /\ Record("downloaded", run.digest)
        /\ run.digest \in Readable /\ "downloaded" \in Requested
        /\ (HasArchive(Candidate.day) => archive[Candidate.day].age <= gap)
    BY <1>1, <1>9 DEF RecordBulletin, Doing, Readable, Requested, Spaced
  <2> QED BY <2>1, RecordSpaced
<1>10. ASSUME NEW wait \in 0 .. MaxWait + 1, AnswerUnavailable(wait) PROVE Spaced'
  <2>1. CASE run.attempt < Tries /\ wait <= MaxWait
    <3>1. /\ run' = [run EXCEPT !.pc = "collecting"] /\ rest' = Max({wait, Interval})
          /\ UNCHANGED <<archive, row, gap, unrecorded>>
      BY <1>10, <2>1 DEF AnswerUnavailable
    <3>2. run'.pc = "collecting"
      BY <1>1, <3>1 DEF Doing, Execution
    <3>3. rest' \in Pause /\ rest' >= Interval
      <4>1. wait \in 0 .. MaxWait
        BY <2>1, Positive
      <4> QED BY <3>1, <4>1, PauseBounds
    <3>4. rest' + gap >= Interval
      <4>1. rest' \in Nat
        BY <3>3, PauseBounds, Zenon
      <4>2. \A a \in Nat, b \in Nat, c \in Nat : a >= b => a + c >= b
        OBVIOUS
      <4>3. gap \in Nat /\ Interval \in Nat /\ rest' >= Interval
        BY <1>2, <3>3
      <4> QED BY <4>1, <4>2, <4>3, Zenon
    <3> QED BY <1>1, <3>1, <3>2, <3>4, SpacedStill
  <2>2. CASE ~(run.attempt < Tries /\ wait <= MaxWait)
    <3>1. /\ run.pc = "asking" /\ ~HasArchive(Candidate.day) /\ UNCHANGED <<archive, gap, rest>>
          /\ Record("stopped", "none")
      BY <1>1, <1>10, <2>2 DEF AnswerUnavailable, NoFileAsked
    <3> QED BY <3>1, RecordSpaced DEF Requested
  <2> QED BY <2>1, <2>2
<1>11. CASE AnswerDeferred \/ Finish
  <2>1. run'.pc = "idle" /\ UNCHANGED <<archive, row, gap, unrecorded>>
    BY <1>11, StoppedDoing DEF AnswerDeferred, Finish
  <2> QED BY <1>1, <2>1, SpacedStill
<1>12. CASE EndCollection \/ Import
  <2>1. run'.pc = "importing"
    BY <1>1, <1>12 DEF EndCollection, Import, Doing, Execution
  <2>2. UNCHANGED <<archive, row, gap, unrecorded>>
    BY <1>12 DEF EndCollection, Import
  <2> QED BY <1>1, <2>1, <2>2, SpacedStill
<1> QED BY <1>5, <1>6, <1>7, <1>8, <1>9, <1>10, <1>11, <1>12 DEF Collect

LEMMA WorldSpaced ==
  ASSUME SpacedInv, World
  PROVE  Spaced'
<1>1. ProvenInv /\ Typed /\ Files /\ Doing /\ Spaced
  BY TypedParts DEF SpacedInv, ProvenInv
<1>2. gap \in Nat /\ gap <= Interval /\ rest \in Nat /\ Interval \in Nat
  BY <1>1, Ages, Positive
<1>3. ASSUME run'.pc = run.pc, run'.attempt = run.attempt, Candidate' = Candidate,
             rest' + gap' >= rest + gap \/ rest' + gap' >= Interval, rest' + gap' \in Nat,
             unrecorded => unrecorded',
             unrecorded' \/ gap' = Interval \/ \E d \in Days : Traced(d)',
             run.pc = "stored" /\ HasArchive(Candidate.day)' => archive'[Candidate.day].age <= gap'
      PROVE  Spaced'
  <2>1. rest + gap >= Interval => rest' + gap' >= Interval
    BY <1>2, <1>3
  <2>2. HasArchive(Candidate.day)' = (archive'[Candidate.day].content # "none")
    BY <1>3 DEF HasArchive
  <2> QED BY <1>1, <1>3, <2>1, <2>2 DEF Spaced, HasArchive
<1>4. CASE Tick
  <2>1. /\ gap' = IF gap < Interval THEN gap + 1 ELSE Interval
        /\ rest' = IF rest = 0 THEN 0 ELSE rest - 1
        /\ run' = run /\ unrecorded' = unrecorded /\ Candidate' = Candidate
    <3>1. gap' = Older(gap) /\ rest' = Max({rest - 1, 0}) /\ run' = run /\ unrecorded' = unrecorded
      BY <1>4 DEF Tick
    <3>2. gap \in 0 .. Interval /\ rest \in Pause
      BY <1>1 DEF Files
    <3> QED BY <1>1, <3>1, <3>2, OlderAge, PauseBounds, RunKept
  <2>2. ASSUME NEW a \in 0 .. Interval, a <= gap PROVE Older(a) <= gap'
    <3>1. Older(a) = IF a < Interval THEN a + 1 ELSE Interval
      BY OlderAge
    <3> QED BY <1>2, <2>1, <2>2, <3>1
  <2>3. ASSUME NEW d \in Days
        PROVE  /\ archive'[d].content = archive[d].content
               /\ archive'[d].age = Older(archive[d].age)
               /\ row'[d].status = row[d].status /\ row'[d].age = Older(row[d].age)
               /\ archive[d].age \in 0 .. Interval /\ row[d].age \in 0 .. Interval
    BY <1>1, <1>4, TickFiles, Ages
  <2>4. \A d \in Days : Traced(d) => Traced(d)'
    BY <2>2, <2>3 DEF Traced, HasArchive
  <2>5. run.pc = "stored" /\ HasArchive(Candidate.day)' => archive'[Candidate.day].age <= gap'
    <3> SUFFICES ASSUME run.pc = "stored", archive'[Candidate.day].content # "none"
                 PROVE  archive'[Candidate.day].age <= gap'
      BY <2>1 DEF HasArchive
    <3>1. Candidate.day \in Days
      BY <1>1, CandidateLeft DEF Doing
    <3>2. archive[Candidate.day].age <= gap
      BY <1>1, <2>3, <3>1 DEF Spaced, HasArchive
    <3> QED BY <2>2, <2>3, <3>1, <3>2
  <2>6. unrecorded' \/ gap' = Interval \/ \E d \in Days : Traced(d)'
    BY <1>1, <1>2, <2>1, <2>4 DEF Spaced
  <2>7. rest' + gap' \in Nat /\ (rest' + gap' >= rest + gap \/ rest' + gap' >= Interval)
    BY <1>2, <2>1
  <2> QED BY <1>3, <2>1, <2>5, <2>6, <2>7
<1>5. CASE NewDay \/ \E d \in Days : Publish(d)
  <2>1. UNCHANGED <<archive, row, gap, rest, unrecorded, run>>
    BY <1>5 DEF NewDay, Publish
  <2>2. Candidate' = Candidate
    BY <1>1, <2>1, RunKept
  <2> QED BY <1>1, <2>1, <2>2 DEF Spaced, Traced, HasArchive
<1>6. CASE Crash
  <2>1. run'.pc = "idle" /\ UNCHANGED <<archive, row, gap, unrecorded>>
    BY <1>6, StoppedDoing DEF Crash
  <2> QED BY <1>1, <2>1, SpacedStill
<1>7. ASSUME NEW d \in Days, Discard(d) PROVE Spaced'
  <2>1. /\ archive' = [archive EXCEPT ![d] = NoArchive] /\ UNCHANGED <<row, gap, rest>>
        /\ unrecorded' = (unrecorded \/ archive[d].age <= gap) /\ HasArchive(d)
        /\ run' = [run EXCEPT !.calm = run.pc = "idle"] /\ (run.pc = "idle") \in BOOLEAN
    BY <1>7 DEF Discard
  <2>2. Candidate' = Candidate /\ run'.pc = run.pc /\ run'.attempt = run.attempt
    BY <1>1, <2>1, CalmKept
  <2>3. /\ archive'[d].content = "none" /\ \A e \in Days : e # d => archive'[e] = archive[e]
    BY <1>1, <2>1 DEF Files, NoArchive
  <2>4. ASSUME ~unrecorded' PROVE \A e \in Days : Traced(e) => Traced(e)'
    <3>1. ~Traced(d)
      BY <2>1, <2>4 DEF Traced
    <3> QED BY <2>1, <2>3, <3>1 DEF Traced, HasArchive
  <2>5. unrecorded' \/ gap' = Interval \/ \E e \in Days : Traced(e)'
    BY <1>1, <2>1, <2>4 DEF Spaced
  <2>6. run.pc = "stored" /\ HasArchive(Candidate.day)' => archive'[Candidate.day].age <= gap'
    <3> SUFFICES ASSUME run.pc = "stored", archive'[Candidate.day].content # "none"
                 PROVE  archive'[Candidate.day].age <= gap
      BY <2>1, <2>2 DEF HasArchive
    <3>1. Candidate.day \in Days
      BY <1>1, CandidateLeft DEF Doing
    <3> QED BY <1>1, <2>3, <3>1 DEF Spaced, HasArchive
  <2>7. rest' + gap' \in Nat /\ rest' + gap' >= rest + gap
    BY <1>2, <2>1
  <2> QED BY <1>3, <2>1, <2>2, <2>5, <2>6, <2>7
<1>8. ASSUME NEW d \in Days, NEW content \in {"altered", "broken"}, Alter(d, content)
      PROVE  Spaced'
  <2>1. /\ archive' = [archive EXCEPT ![d] = [content |-> content, age |-> 0]]
        /\ UNCHANGED <<row, gap, rest, unrecorded>>
        /\ run' = [run EXCEPT !.calm = run.pc = "idle"] /\ (run.pc = "idle") \in BOOLEAN
    BY <1>8 DEF Alter
  <2>2. Candidate' = Candidate /\ run'.pc = run.pc /\ run'.attempt = run.attempt
    BY <1>1, <2>1, CalmKept
  <2>3. /\ archive'[d].content # "none" /\ archive'[d].age = 0
        /\ \A e \in Days : e # d => archive'[e] = archive[e]
    BY <1>1, <2>1 DEF Files
  <2>4. \A e \in Days : Traced(e) => Traced(e)'
    BY <1>2, <2>1, <2>3 DEF Traced, HasArchive
  <2>5. unrecorded' \/ gap' = Interval \/ \E e \in Days : Traced(e)'
    BY <1>1, <2>1, <2>4 DEF Spaced
  <2>6. run.pc = "stored" /\ HasArchive(Candidate.day)' => archive'[Candidate.day].age <= gap'
    <3> SUFFICES ASSUME run.pc = "stored", archive'[Candidate.day].content # "none"
                 PROVE  archive'[Candidate.day].age <= gap
      BY <2>1, <2>2 DEF HasArchive
    <3>1. Candidate.day \in Days
      BY <1>1, CandidateLeft DEF Doing
    <3> QED BY <1>1, <1>2, <2>3, <3>1 DEF Spaced, HasArchive
  <2>7. rest' + gap' \in Nat /\ rest' + gap' >= rest + gap
    BY <1>2, <2>1
  <2> QED BY <1>3, <2>1, <2>2, <2>5, <2>6, <2>7
<1> QED BY <1>4, <1>5, <1>6, <1>7, <1>8 DEF World

LEMMA StartSpaced ==
  ASSUME SpacedInv, Start_Any
  PROVE  Spaced'
<1>1. Typed /\ TypeOK /\ Files /\ Spaced
  BY TypedParts DEF SpacedInv, ProvenInv, Typed
<1>2. /\ run'.pc = "collecting" /\ run'.attempt = 0 /\ rest' = Interval - Youngest
      /\ UNCHANGED <<archive, row, gap, unrecorded>>
  BY <1>1, StartTyped
<1>3. /\ gap \in Nat /\ gap <= Interval /\ Interval \in Nat
      /\ Youngest \in 0 .. Interval
      /\ \A d \in Days : archive[d].age \in 0 .. Interval /\ row[d].age \in 0 .. Interval
  BY <1>1, Ages, Positive, YoungestBound
<1>4. CASE gap = Interval
  <2>1. rest' + gap >= Interval
    BY <1>2, <1>3, <1>4
  <2> QED BY <1>1, <1>2, <2>1, SpacedStill
<1>5. CASE unrecorded
  BY <1>1, <1>2, <1>5, SpacedStill
<1>6. ASSUME NEW d \in Days, Traced(d) PROVE Spaced'
  <2>1. Youngest <= gap
    <3>1. CASE HasArchive(d)
      <4>1. Youngest <= archive[d].age /\ archive[d].age <= gap
        BY <1>1, <1>6, <3>1, YoungestBound DEF Traced
      <4> QED BY <1>3, <4>1
    <3>2. CASE ~HasArchive(d)
      <4>1. Youngest <= row[d].age /\ row[d].age <= gap
        BY <1>1, <1>6, <3>2, YoungestBound DEF Traced
      <4> QED BY <1>3, <4>1
    <3> QED BY <3>1, <3>2
  <2>2. rest' + gap >= Interval
    BY <1>2, <1>3, <2>1
  <2> QED BY <1>1, <1>2, <2>2, SpacedStill
<1> QED BY <1>1, <1>4, <1>5, <1>6 DEF Spaced

LEMMA StepSpaced == SpacedInv /\ [Next]_vars => SpacedInv'
<1> SUFFICES ASSUME SpacedInv, [Next]_vars PROVE SpacedInv'
  OBVIOUS
<1>1. ProvenInv'
  BY StepProven DEF SpacedInv
<1>2. CASE UNCHANGED vars
  <2>1. Candidate' = Candidate
    BY <1>2, SameCandidate DEF vars
  <2>2. Spaced'
    BY <1>2, <2>1 DEF SpacedInv, Spaced, Traced, HasArchive, vars
  <2> QED BY <1>1, <2>2 DEF SpacedInv
<1>3. CASE Next
  <2>1. Spaced'
    BY <1>3, StepCases, StartSpaced, CollectSpaced, WorldSpaced
  <2> QED BY <1>1, <2>1 DEF SpacedInv
<1> QED BY <1>2, <1>3

\* The only step from collecting to asking is Ask, after the pause.
LEMMA OnlyAsk ==
  ASSUME Typed, Next, run.pc = "collecting", run'.pc = "asking"
  PROVE  Ask
<1>1. Typed /\ Files /\ Doing
  BY TypedParts
<1>2. ~Start_Any
  BY <1>1, StartTyped
<1>3. ~World
  <2>1. ~(Tick \/ NewDay \/ (\E d \in Days : Publish(d)))
    BY DEF Tick, NewDay, Publish
  <2>2. ~Crash
    BY StoppedDoing DEF Crash
  <2>3. \A d \in Days : ~Discard(d) /\ \A content \in {"altered", "broken"} : ~Alter(d, content)
    BY <1>1 DEF Discard, Alter, Doing, Execution
  <2> QED BY <2>1, <2>2, <2>3 DEF World
<1>4. ASSUME Left # {}, NEW status PROVE run' # Handled(Candidate, status)
  <2>1. Candidate \in Candidates
    BY <1>1, <1>4, CandidateLeft DEF Doing
  <2>2. Handled(Candidate, status).pc = "collecting"
    BY <1>1, <2>1, HandledTyped DEF Doing
  <2> QED BY <2>2
<1>5. ~PassOver /\ ~CacheHit
  BY <1>4 DEF PassOver, CacheHit, Collecting
<1>6. ~(EndCollection \/ Import \/ Finish)
  BY <1>1 DEF EndCollection, Import, Finish, Doing, Execution
<1> QED
  BY <1>2, <1>3, <1>5, <1>6, StepCases
     DEF Collect, AnswerMissing, AnswerBulletin, RecordBulletin, AnswerDeferred, AnswerRefused,
         AnswerUnavailable

LEMMA AskWaits ==
  ASSUME SpacedInv, Next, run.pc = "collecting", run'.pc = "asking"
  PROVE  gap >= Interval \/ (run.attempt = 0 /\ unrecorded)
<1>1. Typed /\ Files /\ Doing /\ Spaced /\ Ask
  BY OnlyAsk, TypedParts DEF SpacedInv, ProvenInv
<1>2. rest = 0 /\ gap \in Nat
  BY <1>1, Ages DEF Ask
<1> QED BY <1>1, <1>2 DEF Spaced

\* No two requests of one execution, or of two, are closer than the interval, but
\* for a request that left neither row nor file.
THEOREM RequestsSpaced == Spec => SpacingKept
<1>1. Spec => []SpacedInv
  BY InitSpaced, StepSpaced, PTL DEF Spec
<1>2. SpacedInv /\ [Next]_vars =>
        [run.pc = "collecting" /\ run'.pc = "asking" =>
           gap >= Interval \/ (run.attempt = 0 /\ unrecorded)]_vars
  BY AskWaits
<1> QED BY <1>1, <1>2, PTL DEF Spec, SpacingKept

-----------------------------------------------------------------------------
(* Months are served *)

\* A month of the plan that something local answers for, or a trusted file of its
\* candidates.
InMonth(m) == {c \in run.wanted : ~c.focus /\ MonthOf[c.day] = m}
Offered(m) ==
  \E c \in InMonth(m) : c.day \in Held \/ \E d \in Days : IsReadable(d) /\ TradeDay[d] = c.day
Answered(m) == \E c \in InMonth(m) : Trusted(c.day)

\* The plan leaves out a candidate only of a month that is offered, and a month is
\* satisfied only by a trusted file.
PlanKept ==
  /\ run.planned \subseteq run.wanted
  /\ \A c \in run.wanted \ run.planned : c.focus \/ Offered(MonthOf[c.day])
  /\ \A m \in run.satisfied : Answered(m)

\* A day is done with when it has a file or was found missing.
DoneWith(d) == HasArchive(d) \/ row[d].status = "missing"
DaysDone ==
  /\ run.pc \in {"asking", "stored"} => ~run.halted
  /\ ~run.halted => \A d \in run.processed : DoneWith(d)
  /\ run.pc = "stored" => archive[Candidate.day].content = run.digest

\* The import begins when no candidate is left, or after a halt, and passes over
\* no trusted file.
ImportSound ==
  run.pc = "importing" =>
    /\ run.halted \/ Left = {}
    /\ \A d \in Days : Trusted(d) => d \in run.todo \/ Observed(d) \in ledger

Served == run.pc # "idle" /\ run.calm => PlanKept /\ DaysDone /\ ImportSound
ServedInv == ProvenInv /\ Served

\* The files only become more while nobody disturbs them.
FilesStay ==
  /\ ledger \subseteq ledger'
  /\ \A d \in Days : (IsReadable(d) => IsReadable(d)') /\ (Trusted(d) => Trusted(d)')

LEMMA PlanStays ==
  ASSUME run \in Execution, PlanKept, FilesStay, run'.planned = run.planned,
         run'.wanted = run.wanted, \A m \in run'.satisfied \ run.satisfied : Answered(m)'
  PROVE  PlanKept'
<1>1. \A c \in run.wanted : c.day \in Days
  BY DEF Execution, Candidates
<1>2. \A m : InMonth(m)' = InMonth(m) /\ InMonth(m) \subseteq run.wanted
  BY DEF InMonth
<1>3. ASSUME NEW m, Offered(m) PROVE Offered(m)'
  <2>1. PICK c \in InMonth(m) :
          c.day \in Held \/ \E d \in Days : IsReadable(d) /\ TradeDay[d] = c.day
    BY <1>3 DEF Offered
  <2>2. Held \subseteq Held'
    BY DEF FilesStay, Held
  <2> QED BY <1>2, <2>1, <2>2 DEF FilesStay, Offered
<1>4. ASSUME NEW m, Answered(m) PROVE Answered(m)'
  BY <1>1, <1>2, <1>4 DEF FilesStay, Answered
<1>5. \A m \in run'.satisfied : Answered(m)'
  BY <1>4 DEF PlanKept
<1> QED BY <1>3, <1>5 DEF PlanKept

LEMMA HandledRun ==
  ASSUME run \in Execution, NEW c \in Candidates, NEW status
  PROVE  LET after == Handled(c, status)
         IN  /\ after.pc = "collecting" /\ after.planned = run.planned
             /\ after.wanted = run.wanted /\ after.calm = run.calm
             /\ after.processed = run.processed \cup {c.day}
             /\ after.satisfied = IF status \in {"downloaded", "cache_hit"} /\ ~c.focus
                                  THEN run.satisfied \cup {MonthOf[c.day]} ELSE run.satisfied
             /\ after.halted = (status \in {"stopped", "rejected"})
BY DEF Handled, Execution

\* The candidate in hand is done with: trusted, found to have a file or missing, or
\* the one that halts.
LEMMA HandledServed ==
  ASSUME Typed, Left # {}, PlanKept, DaysDone, ~run.halted, NEW c, c = Candidate, NEW status,
         run' = Handled(c, status), UNCHANGED <<archive, ledger>>,
         \A d \in Days : d # c.day => row'[d] = row[d],
         Trusted(c.day) => Trusted(c.day)',
         status \notin {"stopped", "rejected"} => HasArchive(c.day) \/ row'[c.day].status = "missing",
         status \in {"downloaded", "cache_hit"} => Trusted(c.day)'
  PROVE  PlanKept' /\ DaysDone' /\ ImportSound'
<1>1. c \in Left /\ c \in Candidates /\ c.day \in Days /\ run \in Execution
  BY CandidateLeft DEF Typed
<1>2. /\ run'.pc = "collecting" /\ run'.planned = run.planned /\ run'.wanted = run.wanted
      /\ run'.processed = run.processed \cup {c.day}
      /\ run'.satisfied = IF status \in {"downloaded", "cache_hit"} /\ ~c.focus
                          THEN run.satisfied \cup {MonthOf[c.day]} ELSE run.satisfied
      /\ run'.halted = (status \in {"stopped", "rejected"})
  BY <1>1, HandledRun
<1>3. c \in run.planned /\ c.day \notin run.processed
  BY <1>1 DEF Left
<1>4. ASSUME NEW d \in Days PROVE (IsReadable(d) => IsReadable(d)') /\ (Trusted(d) => Trusted(d)')
  <2>1. CASE d = c.day
    BY <2>1 DEF IsReadable
  <2>2. CASE d # c.day
    BY <2>2 DEF IsReadable, Trusted, Declared
  <2> QED BY <2>1, <2>2
<1>5. FilesStay
  BY <1>4 DEF FilesStay
<1>6. ASSUME NEW m \in run'.satisfied \ run.satisfied PROVE Answered(m)'
  <2>1. m = MonthOf[c.day] /\ ~c.focus /\ Trusted(c.day)'
    BY <1>2, <1>6
  <2>2. c \in run'.wanted
    BY <1>2, <1>3 DEF PlanKept
  <2>3. c \in InMonth(m)'
    BY <2>1, <2>2 DEF InMonth
  <2> QED BY <2>1, <2>3 DEF Answered
<1>7. PlanKept'
  BY <1>1, <1>2, <1>5, <1>6, PlanStays
<1>8. ASSUME ~run'.halted, NEW d \in run'.processed PROVE DoneWith(d)'
  <2>1. CASE d = c.day
    BY <1>2, <1>8, <2>1 DEF DoneWith, HasArchive
  <2>2. CASE d # c.day
    <3>1. d \in run.processed /\ d \in Days
      BY <1>1, <1>2, <1>8, <2>2 DEF Execution
    <3> QED BY <2>2, <3>1 DEF DaysDone, DoneWith, HasArchive
  <2> QED BY <2>1, <2>2
<1> QED BY <1>2, <1>7, <1>8 DEF DaysDone, ImportSound

LEMMA RecordServed ==
  ASSUME Typed, Left # {}, PlanKept, DaysDone, ~run.halted, UNCHANGED <<archive, ledger>>,
         NEW status \in Requested, NEW hash \in Readable \cup {"none"}, Record(status, hash),
         \/ ~HasArchive(Candidate.day) /\ status # "downloaded"
         \/ status = "downloaded" /\ hash \in Readable /\ archive[Candidate.day].content = hash
  PROVE  PlanKept' /\ DaysDone' /\ ImportSound'
<1>1. PICK c : c = Candidate
  OBVIOUS
<1>2. /\ row'[c.day] = [status |-> status, hash |-> hash, age |-> gap]
      /\ \A d \in Days : d # c.day => row'[d] = row[d]
  BY <1>1, RecordTyped
<1>3. row'[c.day].status = status /\ row'[c.day].hash = hash
  BY <1>2
<1>4. run' = Handled(c, status)
  BY <1>1 DEF Record
<1>5. CASE status = "downloaded"
  <2>1. hash \in Readable /\ archive[c.day].content = hash
    BY <1>1, <1>5
  <2>2. Trusted(c.day)'
    BY <1>3, <2>1 DEF Trusted, IsReadable, Declared
  <2>3. HasArchive(c.day)
    BY <2>1 DEF HasArchive, Readable, Versions
  <2> QED BY <1>1, <1>2, <1>4, <2>2, <2>3, HandledServed
<1>6. CASE status # "downloaded"
  <2>1. ~HasArchive(c.day)
    BY <1>1, <1>6
  <2>2. ~Trusted(c.day)
    BY <2>1 DEF HasArchive, Trusted, IsReadable, Readable, Versions
  <2>3. (status \in {"stopped", "rejected"} \/ status = "missing") /\ status # "cache_hit"
    BY <1>6 DEF Requested
  <2> QED BY <1>1, <1>2, <1>3, <1>4, <1>6, <2>2, <2>3, HandledServed
<1> QED BY <1>5, <1>6

\* A step that leaves the plan and what is done of it.
LEMMA GoesOnServed ==
  ASSUME run \in Execution, PlanKept, FilesStay, run'.planned = run.planned,
         run'.wanted = run.wanted, run'.processed = run.processed,
         run'.satisfied = run.satisfied
  PROVE  PlanKept' /\ Left' = Left /\ Candidate' = Candidate
BY PlanStays, SameCandidate

LEMMA CollectServed ==
  ASSUME ServedInv, Collect
  PROVE  Served'
<1>1. Typed /\ Outside /\ Files /\ Doing /\ NoFileAsked /\ run \in Execution
  BY TypedParts DEF ServedInv, ProvenInv, Typed
<1>2. run.pc # "idle"
  BY DEF Collect, PassOver, CacheHit, Ask, AnswerMissing, AnswerBulletin, RecordBulletin,
       AnswerDeferred, AnswerRefused, AnswerUnavailable, EndCollection, Import, Finish,
       Collecting
<1> SUFFICES ASSUME run'.pc # "idle", run'.calm PROVE PlanKept' /\ DaysDone' /\ ImportSound'
  BY DEF Served
<1>3. ~AnswerDeferred /\ ~Finish
  BY StoppedDoing DEF AnswerDeferred, Finish
<1>4. Left # {} => Candidate \in Candidates /\ Candidate.day \in Days
  BY <1>1, CandidateLeft
<1>5. run.calm
  <2>1. CASE \E status : Left # {} /\ run' = Handled(Candidate, status)
    <3>1. PICK status : Left # {} /\ run' = Handled(Candidate, status)
      BY <2>1
    <3>2. Handled(Candidate, status).calm = run.calm
      BY <1>1, <1>4, <3>1, HandledRun
    <3> QED BY <3>1, <3>2
  <2>2. CASE Ask \/ AnswerBulletin \/ EndCollection \/ Import
                \/ run' = [run EXCEPT !.pc = "collecting"]
    BY <1>1, <2>2 DEF Ask, AnswerBulletin, EndCollection, Import, Execution
  <2>3. AnswerMissing \/ RecordBulletin \/ (\E status : AnswerRefused(status))
          \/ (\E wait : AnswerUnavailable(wait)) => Left # {}
    BY <1>1 DEF AnswerMissing, RecordBulletin, AnswerRefused, AnswerUnavailable, Doing
  <2> QED
    BY <1>3, <2>1, <2>2, <2>3
       DEF Collect, PassOver, CacheHit, Collecting, AnswerMissing, RecordBulletin,
           AnswerRefused, AnswerUnavailable, Record
<1>6. PlanKept /\ DaysDone /\ ImportSound
  BY <1>2, <1>5 DEF ServedInv, Served
<1>7. CASE PassOver
  <2>1. PICK c : c = Candidate
    OBVIOUS
  <2>2. /\ Left # {} /\ ~run.halted /\ run' = Handled(c, "known_missing")
        /\ UNCHANGED <<archive, row, ledger>>
        /\ HasArchive(c.day) \/ row[c.day].status = "missing"
    BY <1>7, <2>1 DEF PassOver, Collecting, KnownMissing
  <2>3. Trusted(c.day) => Trusted(c.day)'
    BY <2>2 DEF Trusted, IsReadable, Declared
  <2> QED BY <1>1, <1>6, <2>1, <2>2, <2>3, HandledServed
<1>8. CASE CacheHit
  <2>1. PICK c : c = Candidate
    OBVIOUS
  <2>2. /\ Left # {} /\ ~run.halted /\ run' = Handled(c, "cache_hit")
        /\ UNCHANGED <<archive, ledger>> /\ Trusted(c.day)
    BY <1>8, <2>1 DEF CacheHit, Collecting
  <2>3. c.day \in Days /\ row \in [Days -> ManifestRow]
    BY <1>1, <1>4, <2>1, <2>2 DEF Files
  <2>4. row'[c.day].hash = archive[c.day].content /\ \A d \in Days : d # c.day => row'[d] = row[d]
    BY <1>8, <2>1, <2>3 DEF CacheHit
  <2>5. Trusted(c.day)' /\ HasArchive(c.day)
    BY <2>2, <2>4 DEF Trusted, IsReadable, Declared, HasArchive, Readable, Versions
  <2> QED BY <1>1, <1>6, <2>1, <2>2, <2>4, <2>5, HandledServed
<1>9. CASE Ask
  <2>1. /\ run' = [run EXCEPT !.pc = "asking", !.attempt = run.attempt + 1] /\ ~run.halted
        /\ UNCHANGED <<archive, row, ledger>>
    BY <1>9 DEF Ask, Collecting
  <2>2. /\ run'.pc = "asking" /\ run'.planned = run.planned /\ run'.wanted = run.wanted
        /\ run'.processed = run.processed /\ run'.satisfied = run.satisfied
        /\ run'.halted = run.halted
    BY <1>1, <2>1 DEF Execution
  <2>3. FilesStay
    BY <2>1 DEF FilesStay, IsReadable, Trusted, Declared
  <2> QED BY <1>1, <1>6, <2>1, <2>2, <2>3, GoesOnServed DEF DaysDone, DoneWith, HasArchive, ImportSound
<1>10. CASE AnswerMissing \/ (\E status \in {"stopped", "rejected"} : AnswerRefused(status))
  <2>1. /\ Left # {} /\ ~run.halted /\ ~HasArchive(Candidate.day) /\ UNCHANGED <<archive, ledger>>
        /\ \E status \in Requested \ {"downloaded"} : Record(status, "none")
    BY <1>1, <1>6, <1>10 DEF AnswerMissing, AnswerRefused, Doing, NoFileAsked, Requested, DaysDone
  <2> QED BY <1>1, <1>6, <2>1, RecordServed
<1>11. CASE AnswerBulletin
  <2>1. PICK c : c = Candidate
    OBVIOUS
  <2> DEFINE v == published[c.day]
  <2>2. /\ v \in Versions /\ Left # {} /\ UNCHANGED <<row, ledger>>
        /\ archive' = [archive EXCEPT ![c.day] = [content |-> v, age |-> 0]]
        /\ run' = [run EXCEPT !.pc = "stored", !.digest = v]
        /\ ~HasArchive(c.day) /\ ~run.halted
    BY <1>1, <1>6, <1>11, <2>1 DEF AnswerBulletin, Doing, NoFileAsked, DaysDone
  <2> HIDE DEF v
  <2>3. c.day \in Days /\ archive \in [Days -> ArchiveRow]
    BY <1>1, <1>4, <2>1, <2>2 DEF Files
  <2>4. /\ run'.pc = "stored" /\ run'.planned = run.planned /\ run'.wanted = run.wanted
        /\ run'.processed = run.processed /\ run'.satisfied = run.satisfied
        /\ run'.halted = run.halted /\ run'.digest = v
    BY <1>1, <2>2 DEF Execution
  <2>5. archive'[c.day].content = v /\ \A d \in Days : d # c.day => archive'[d] = archive[d]
    BY <2>2, <2>3
  <2>6. ASSUME NEW d \in Days, HasArchive(d) PROVE archive'[d] = archive[d]
    BY <2>2, <2>5, <2>6
  <2>7. FilesStay
    <3>1. \A d \in Days : IsReadable(d) => HasArchive(d)
      BY DEF IsReadable, HasArchive, Readable, Versions
    <3> QED BY <2>2, <2>6, <3>1 DEF FilesStay, IsReadable, Trusted, Declared
  <2>8. PlanKept' /\ Candidate' = c
    BY <1>1, <1>6, <2>1, <2>4, <2>7, GoesOnServed
  <2>9. ASSUME NEW d \in run.processed PROVE DoneWith(d)'
    <3>1. d \in Days /\ DoneWith(d)
      BY <1>1, <1>6, <2>2 DEF Execution, DaysDone
    <3> QED BY <2>2, <2>6, <3>1 DEF DoneWith, HasArchive
  <2> QED BY <2>2, <2>4, <2>5, <2>8, <2>9 DEF DaysDone, ImportSound
<1>12. CASE RecordBulletin
  <2>1. /\ Left # {} /\ ~run.halted /\ run.digest \in Readable
        /\ archive[Candidate.day].content = run.digest /\ UNCHANGED <<archive, ledger>>
        /\ Record("downloaded", run.digest) /\ "downloaded" \in Requested
    BY <1>1, <1>6, <1>12 DEF RecordBulletin, Doing, Readable, Requested, DaysDone
  <2> QED BY <1>1, <1>6, <2>1, RecordServed
<1>13. ASSUME NEW wait \in 0 .. MaxWait + 1, AnswerUnavailable(wait)
       PROVE  PlanKept' /\ DaysDone' /\ ImportSound'
  <2>1. CASE Record("stopped", "none")
    <3>1. /\ Left # {} /\ ~run.halted /\ ~HasArchive(Candidate.day)
          /\ UNCHANGED <<archive, ledger>> /\ "stopped" \in Requested \ {"downloaded"}
      BY <1>1, <1>6, <1>13 DEF AnswerUnavailable, Doing, NoFileAsked, DaysDone, Requested
    <3> QED BY <1>1, <1>6, <2>1, <3>1, RecordServed
  <2>2. CASE ~Record("stopped", "none")
    <3>1. run' = [run EXCEPT !.pc = "collecting"] /\ UNCHANGED <<archive, row, ledger>>
      BY <1>13, <2>2 DEF AnswerUnavailable
    <3>2. /\ run'.pc = "collecting" /\ run'.planned = run.planned /\ run'.wanted = run.wanted
          /\ run'.processed = run.processed /\ run'.satisfied = run.satisfied
          /\ run'.halted = run.halted
      BY <1>1, <3>1 DEF Execution
    <3>3. FilesStay
      BY <3>1 DEF FilesStay, IsReadable, Trusted, Declared
    <3> QED BY <1>1, <1>6, <3>1, <3>2, <3>3, GoesOnServed DEF DaysDone, DoneWith, HasArchive, ImportSound
  <2> QED BY <2>1, <2>2
<1>14. CASE EndCollection
  <2>1. /\ run' = [run EXCEPT !.pc = "importing", !.todo = {d \in Days : HasArchive(d)}]
        /\ Left = {} \/ run.halted
        /\ UNCHANGED <<archive, row, ledger>>
    BY <1>14 DEF EndCollection
  <2>2. /\ run'.pc = "importing" /\ run'.planned = run.planned /\ run'.wanted = run.wanted
        /\ run'.processed = run.processed /\ run'.satisfied = run.satisfied
        /\ run'.halted = run.halted /\ run'.todo = {d \in Days : HasArchive(d)}
    BY <1>1, <2>1 DEF Execution
  <2>3. FilesStay
    BY <2>1 DEF FilesStay, IsReadable, Trusted, Declared
  <2>4. PlanKept' /\ Left' = Left
    BY <1>1, <1>6, <2>2, <2>3, GoesOnServed
  <2>5. \A d \in Days : Trusted(d)' => HasArchive(d)
    BY <2>1 DEF Trusted, IsReadable, HasArchive, Readable, Versions
  <2> QED BY <1>6, <2>1, <2>2, <2>4, <2>5 DEF DaysDone, DoneWith, HasArchive, ImportSound
<1>15. CASE Import
  <2>1. run.todo \in SUBSET Days /\ run.todo # {} /\ run.pc = "importing"
    BY <1>1, <1>15 DEF Import, Execution
  <2> DEFINE d == Min(run.todo)
  <2>2. /\ run' = [run EXCEPT !.todo = run.todo \ {d}] /\ ledger' = ledger \cup Imported(d)
        /\ UNCHANGED <<archive, row>>
    BY <1>15 DEF Import
  <2> HIDE DEF d
  <2>3. /\ run'.pc = "importing" /\ run'.planned = run.planned /\ run'.wanted = run.wanted
        /\ run'.processed = run.processed /\ run'.satisfied = run.satisfied
        /\ run'.halted = run.halted /\ run'.todo = run.todo \ {d}
    BY <1>1, <2>1, <2>2 DEF Execution
  <2>4. FilesStay
    BY <2>2 DEF FilesStay, IsReadable, Trusted, Declared
  <2>5. PlanKept' /\ Left' = Left
    BY <1>1, <1>6, <2>3, <2>4, GoesOnServed
  <2>6. ASSUME NEW e \in Days, Trusted(e)' PROVE e \in run'.todo \/ Observed(e)' \in ledger'
    <3>1. Trusted(e) /\ Observed(e)' = Observed(e)
      BY <2>2, <2>6 DEF Trusted, IsReadable, Declared, Observed
    <3>2. e \in run.todo \/ Observed(e) \in ledger
      BY <1>6, <2>1, <3>1 DEF ImportSound
    <3> QED BY <2>2, <2>3, <3>1, <3>2 DEF Imported
  <2> QED BY <1>6, <2>2, <2>3, <2>5, <2>6 DEF DaysDone, DoneWith, HasArchive, ImportSound
<1> QED BY <1>3, <1>7, <1>8, <1>9, <1>10, <1>11, <1>12, <1>13, <1>14, <1>15 DEF Collect

LEMMA WorldServed ==
  ASSUME ServedInv, World
  PROVE  Served'
<1>1. Typed /\ Outside /\ Files /\ Doing /\ run \in Execution
  BY TypedParts DEF ServedInv, ProvenInv, Typed
<1> SUFFICES ASSUME run'.pc # "idle", run'.calm PROVE PlanKept' /\ DaysDone' /\ ImportSound'
  BY DEF Served
<1>2. ~Crash
  BY StoppedDoing DEF Crash
<1>3. \A d \in Days : ~Discard(d) /\ \A content \in {"altered", "broken"} : ~Alter(d, content)
  <2>1. ASSUME run' = [run EXCEPT !.calm = run.pc = "idle"] PROVE FALSE
    <3>1. run'.pc = run.pc /\ run'.calm = (run.pc = "idle")
      BY <1>1, <2>1 DEF Execution
    <3> QED BY <3>1
  <2> QED BY <2>1 DEF Discard, Alter
<1>4. CASE Tick \/ NewDay \/ \E d \in Days : Publish(d)
  <2>1. run' = run /\ ledger' = ledger
    BY <1>4 DEF Tick, NewDay, Publish
  <2>2. \A d \in Days : /\ archive'[d].content = archive[d].content
                        /\ row'[d].hash = row[d].hash /\ row'[d].status = row[d].status
    <3>1. CASE Tick
      BY <1>1, <3>1, TickFiles
    <3>2. CASE NewDay \/ \E d \in Days : Publish(d)
      BY <3>2 DEF NewDay, Publish
    <3> QED BY <1>4, <3>1, <3>2
  <2>3. PlanKept /\ DaysDone /\ ImportSound
    BY <2>1 DEF ServedInv, Served
  <2>4. /\ FilesStay
        /\ \A d \in Days : Trusted(d)' => Trusted(d) /\ Observed(d)' = Observed(d)
    BY <2>1, <2>2 DEF FilesStay, IsReadable, Trusted, Declared, Observed
  <2>5. PlanKept' /\ Left' = Left /\ Candidate' = Candidate
    BY <1>1, <2>1, <2>3, <2>4, GoesOnServed
  <2>6. run.pc = "stored" => Candidate.day \in Days
    BY <1>1, CandidateLeft DEF Doing
  <2>7. DaysDone'
    <3>1. run.processed \in SUBSET Days
      BY <1>1 DEF Execution
    <3> QED BY <2>1, <2>2, <2>3, <2>5, <2>6, <3>1 DEF DaysDone, DoneWith, HasArchive
  <2>8. ImportSound'
    BY <2>1, <2>3, <2>4, <2>5 DEF ImportSound
  <2> QED BY <2>5, <2>7, <2>8
<1> QED BY <1>2, <1>3, <1>4 DEF World

\* A plan leaves out the candidates of the months that have an available one.
LEMMA StartServed ==
  ASSUME ServedInv, Start_Any
  PROVE  Served'
<1>1. PICK current \in BOOLEAN, named \in SUBSET FocusDates : Start(current, named)
  BY DEF Start_Any
<1> DEFINE plan == MonthlyCandidates(current, named)
<1>2. /\ run' = [Stopped EXCEPT !.pc = "collecting", !.wanted = plan, !.planned = plan \ Reused(plan)]
      /\ UNCHANGED <<archive, row, ledger>>
  BY <1>1 DEF Start
<1> HIDE DEF plan
<1>3. /\ run'.pc = "collecting" /\ run'.wanted = plan /\ run'.planned = plan \ Reused(plan)
      /\ run'.processed = {} /\ run'.satisfied = {}
  BY <1>2 DEF Stopped
<1>4. ASSUME NEW c \in Reused(plan), ~c.focus PROVE Offered(MonthOf[c.day])'
  <2>1. PICK e \in plan : ~e.focus /\ e.day \in Available /\ MonthOf[e.day] = MonthOf[c.day]
    BY <1>4 DEF Reused
  <2>2. e \in InMonth(MonthOf[c.day])'
    BY <1>3, <2>1 DEF InMonth
  <2>3. e.day \in Held' \/ \E d \in Days : IsReadable(d)' /\ TradeDay[d] = e.day
    BY <1>2, <2>1 DEF Available, Held, IsReadable
  <2> QED BY <2>2, <2>3 DEF Offered
<1>5. PlanKept'
  BY <1>3, <1>4 DEF PlanKept
<1> QED BY <1>3, <1>5 DEF Served, DaysDone, ImportSound

LEMMA StepServed == ServedInv /\ [Next]_vars => ServedInv'
<1> SUFFICES ASSUME ServedInv, [Next]_vars PROVE ServedInv'
  OBVIOUS
<1>1. ProvenInv'
  BY StepProven DEF ServedInv
<1>2. CASE UNCHANGED vars
  <2>1. Candidate' = Candidate /\ Left' = Left
    BY <1>2, SameCandidate DEF vars
  <2>2. Served'
    BY <1>2, <2>1
       DEF ServedInv, Served, PlanKept, Offered, Answered, InMonth, Held, DaysDone, DoneWith,
           ImportSound, HasArchive, IsReadable, Trusted, Declared, Observed, vars
  <2> QED BY <1>1, <2>2 DEF ServedInv
<1>3. CASE Next
  <2>1. Served'
    BY <1>3, StepCases, StartServed, CollectServed, WorldServed
  <2> QED BY <1>1, <2>1 DEF ServedInv
<1> QED BY <1>2, <1>3

\* What is left of a month when an undisturbed execution comes to its end.
LEMMA EndServed ==
  ASSUME ServedInv, run.pc = "importing", run.todo = {}, ~run.halted, run.calm, NEW m
  PROVE  LET days == {c.day : c \in {e \in run.wanted : ~e.focus /\ MonthOf[e.day] = m}}
         IN \/ \E o \in ledger : {o.day, o.file} \cap days # {}
            \/ \E d \in Days : IsReadable(d) /\ ~Trusted(d) /\ {d, TradeDay[d]} \cap days # {}
            \/ \A d \in days : row[d].status = "missing" \/ archive[d].content = "broken"
<1> DEFINE days == {c.day : c \in {e \in run.wanted : ~e.focus /\ MonthOf[e.day] = m}}
<1>1. run \in Execution /\ Files /\ PlanKept /\ DaysDone /\ ImportSound
  BY TypedParts DEF ServedInv, Served, ProvenInv, Typed
<1>2. \A c \in InMonth(m) : c.day \in days /\ c.day \in Days /\ c \in run.wanted /\ ~c.focus
                            /\ MonthOf[c.day] = m
  BY <1>1 DEF InMonth, Execution, Candidates
<1>3. \A d \in days : \E c \in InMonth(m) : d = c.day
  BY DEF InMonth
<1> HIDE DEF days
<1>4. \A d \in Days : Trusted(d) => Observed(d) \in ledger
  BY <1>1 DEF ImportSound
<1>5. \A d \in Days : Observed(d).day = TradeDay[d] /\ Observed(d).file = d
  BY DEF Observed
<1>6. CASE Offered(m)
  <2>1. PICK c \in InMonth(m) :
          c.day \in Held \/ \E d \in Days : IsReadable(d) /\ TradeDay[d] = c.day
    BY <1>6 DEF Offered
  <2>2. CASE c.day \in Held
    BY <1>2, <2>2 DEF Held
  <2>3. ASSUME NEW d \in Days, IsReadable(d), TradeDay[d] = c.day
        PROVE  \/ \E o \in ledger : {o.day, o.file} \cap days # {}
               \/ \E e \in Days : IsReadable(e) /\ ~Trusted(e) /\ {e, TradeDay[e]} \cap days # {}
    BY <1>2, <1>4, <1>5, <2>3
  <2> QED BY <2>1, <2>2, <2>3 DEF days
<1>7. CASE Answered(m)
  <2>1. PICK c \in InMonth(m) : Trusted(c.day)
    BY <1>7 DEF Answered
  <2>2. Observed(c.day) \in ledger /\ Observed(c.day).file \in days
    BY <1>2, <1>4, <1>5, <2>1
  <2> QED BY <2>2 DEF days
<1>8. CASE ~Offered(m) /\ ~Answered(m)
  <2>1. ASSUME NEW c \in InMonth(m) PROVE DoneWith(c.day) /\ ~Trusted(c.day)
    <3>1. c \in run.planned /\ m \notin run.satisfied
      BY <1>1, <1>2, <1>8, <2>1 DEF PlanKept
    <3>2. c.day \in run.processed
      BY <1>1, <1>2, <3>1 DEF ImportSound, Left
    <3> QED BY <1>1, <1>8, <2>1, <3>2 DEF DaysDone, Answered
  <2>2. ASSUME NEW d \in days, ~(row[d].status = "missing" \/ archive[d].content = "broken")
        PROVE  d \in Days /\ IsReadable(d) /\ ~Trusted(d)
    <3>1. d \in Days /\ DoneWith(d) /\ ~Trusted(d)
      BY <1>2, <1>3, <2>1, <2>2
    <3>2. archive[d].content \in Contents
      BY <1>1, <3>1 DEF Files, ArchiveRow
    <3> QED BY <2>2, <3>1, <3>2 DEF DoneWith, HasArchive, IsReadable, Contents
  <2> QED BY <2>2 DEF days
<1> QED BY <1>6, <1>7, <1>8

\* Whatever the executions before it left, one that comes to its end undisturbed has
\* for every month it planned an observation, a readable file it did not trust, or
\* candidates that were all missing or unreadable (candidates reused, passed over
\* and imported by collect_retrospective_di).
THEOREM MonthsServed == Spec => MonthServed
<1>1. Init => ServedInv
  BY InitProven DEF Init, Stopped, ServedInv, Served
<1>2. Spec => []ServedInv
  BY <1>1, StepServed, PTL DEF Spec
<1>3. ServedInv /\ [Next]_vars =>
        [run.pc = "importing" /\ run'.pc = "idle" /\ run.todo = {} /\ ~run.halted /\ run.calm =>
           \A m \in {MonthOf[c.day] : c \in {e \in run.wanted : ~e.focus}} :
             LET days == {c.day : c \in {e \in run.wanted : ~e.focus /\ MonthOf[e.day] = m}}
             IN \/ \E o \in ledger : {o.day, o.file} \cap days # {}
                \/ \E d \in Days : IsReadable(d) /\ ~Trusted(d) /\ {d, TradeDay[d]} \cap days # {}
                \/ \A d \in days : row[d].status = "missing" \/ archive[d].content = "broken"]_vars
  BY EndServed
<1> QED BY <1>2, <1>3, PTL DEF Spec, MonthServed

-----------------------------------------------------------------------------
(* Nothing is asked for twice *)

\* A bulletin that repeats an earlier day's, its own being a holiday, is of a day
\* that the same month ends take for a candidate, unless the month has no other day.
Shared(d) == \E e \in Days : e # d /\ MonthOf[e] = MonthOf[d]
HolidaysInside ==
  \A d \in {e \in Days : Shared(e)} :
    /\ MonthOf[TradeDay[d]] = MonthOf[d]
    /\ \A e \in Days : MonthOf[e] = MonthOf[d] /\ d \in Preceding(e) => TradeDay[d] \in Preceding(e)

\* What the plan still asks for was not held when it was made, and nothing of its
\* months was; the ledger only grows once the requests are over.
Asking == run.pc \in {"collecting", "asking", "stored"}
PlanUnheld ==
  /\ \A c \in run.planned : c.day \notin Held
  /\ \A c \in run.planned, x \in run.wanted :
       ~c.focus /\ ~x.focus /\ MonthOf[x.day] = MonthOf[c.day] => x.day \notin Held /\ x \in run.planned

\* A trusted file of a month's candidates satisfies the month, but for the one that
\* was just stored.
Unserved(x) == x \in run.planned /\ ~x.focus /\ MonthOf[x.day] \notin run.satisfied
JustStored(d) == run.pc = "stored" /\ d = Candidate.day
PlanUnserved ==
  \A x \in run.planned : Unserved(x) /\ Shared(x.day) /\ Trusted(x.day) => JustStored(x.day)

Fresh == Asking => PlanUnheld /\ (run.calm => PlanUnserved)
RepeatInv == HolidaysInside /\ ProvenInv /\ Fresh

\* The day a planned bulletin reports is a candidate like the bulletin's own.
LEMMA ReportedPlanned ==
  ASSUME HolidaysInside, today \in Days, NEW current \in BOOLEAN, NEW named,
         NEW x \in MonthlyCandidates(current, named), ~x.focus, Shared(x.day)
  PROVE  /\ [day |-> TradeDay[x.day], focus |-> FALSE] \in MonthlyCandidates(current, named)
         /\ MonthOf[TradeDay[x.day]] = MonthOf[x.day]
<1> DEFINE last == IF current THEN MonthOf[today] ELSE MonthOf[today] - 1
           months == {n \in {MonthOf[d] : d \in 1 .. today} : n <= last}
           of(m) == {d \in 1 .. today : MonthOf[d] = m}
           ends == {Max(of(m)) : m \in months}
<1>1. 1 .. today \subseteq Days /\ today \in Nat
  BY OnlyPast
<1>2. MonthlyCandidates(current, named) =
        {[day |-> d, focus |-> FALSE] : d \in UNION {Preceding(e) : e \in ends}}
        \cup {[day |-> d, focus |-> TRUE] : d \in named \cap 1 .. today}
  BY DEF MonthlyCandidates
<1>3. ASSUME NEW m \in months
      PROVE  Max(of(m)) \in of(m) /\ \A d \in of(m) : d <= Max(of(m))
  <2>1. of(m) # {} /\ of(m) \in SUBSET (0 .. today)
    OBVIOUS
  <2> HIDE DEF of
  <2> QED BY <1>1, <2>1, GreatestChosen
<1>4. PICK m \in months : \E d \in Preceding(Max(of(m))) : x = [day |-> d, focus |-> FALSE]
  <2>1. \A d : [day |-> d, focus |-> TRUE].focus
    OBVIOUS
  <2>2. x \in {[day |-> d, focus |-> FALSE] : d \in UNION {Preceding(e) : e \in ends}}
    BY <1>2, <2>1
  <2> QED BY <2>2
<1> DEFINE e == Max(of(m))
<1>5. PICK d \in Preceding(e) : x = [day |-> d, focus |-> FALSE]
  BY <1>4
<1> DEFINE n == MonthOf[d]
           f == Max(of(n))
<1>6. e \in 1 .. today /\ MonthOf[e] = m /\ m <= last
  BY <1>3
<1>7. d \in 1 .. e /\ e - Fallback <= d /\ d \in 1 .. today
  <2> HIDE DEF e
  <2> QED BY <1>1, <1>4, <1>6 DEF Preceding, e
<1>8. n \in Nat /\ m \in Nat /\ last \in Int /\ n <= m
  <2>1. d \in Days /\ e \in Days /\ today \in Days /\ d <= e
    BY <1>1, <1>6, <1>7
  <2> HIDE DEF e
  <2> QED BY <1>6, <2>1, Positive, DiAssumption
<1>9. n \in months
  BY <1>6, <1>7, <1>8
<1>10. f \in of(n) /\ \A y \in of(n) : y <= f
  BY <1>3, <1>9
<1>11. f \in 1 .. today /\ MonthOf[f] = n /\ d <= f
  BY <1>7, <1>10
<1>12. f <= e
  <2>1. CASE n = m
    BY <1>1, <1>6, <1>11, <2>1
  <2>2. CASE n # m /\ e < f
    <3>1. m <= n
      <4> HIDE DEF e, f, n
      <4>1. e \in Days /\ f \in Days /\ e <= f
        BY <1>1, <1>6, <1>11, <2>2
      <4> QED BY <1>6, <1>11, <4>1, DiAssumption
    <3> QED BY <1>8, <2>2, <3>1
  <2>3. e \in Nat /\ f \in Nat
    BY <1>1, <1>6, <1>11
  <2> QED BY <2>1, <2>2, <2>3
<1> HIDE DEF e, f
<1>13. d \in Preceding(f)
  <2>1. e \in Nat /\ f \in Nat /\ d \in Nat /\ Fallback \in Nat /\ 1 <= d
    BY <1>1, <1>6, <1>7, <1>11, Positive
  <2> QED BY <1>7, <1>11, <1>12, <2>1 DEF Preceding
<1>14. TradeDay[d] \in Preceding(f) /\ MonthOf[TradeDay[d]] = MonthOf[d]
  <2>1. d \in Days /\ f \in Days
    BY <1>1, <1>7, <1>11
  <2>2. Shared(d)
    BY <1>5
  <2> QED BY <1>11, <1>13, <2>1, <2>2 DEF HolidaysInside
<1>15. f \in ends
  BY <1>9 DEF f
<1> HIDE DEF ends
<1>16. TradeDay[d] \in UNION {Preceding(y) : y \in ends}
  BY <1>14, <1>15
<1>17. x.day = d
  BY <1>5
<1> QED BY <1>2, <1>14, <1>16, <1>17

\* A new plan leaves out what is held and the months that a readable file answers for.
LEMMA StartFresh ==
  ASSUME RepeatInv, Start_Any
  PROVE  Fresh'
<1>1. PICK current \in BOOLEAN, named \in SUBSET FocusDates : Start(current, named)
  BY DEF Start_Any
<1>2. Typed /\ today \in Days /\ HolidaysInside
  BY TypedParts DEF RepeatInv, ProvenInv, Outside
<1> DEFINE plan == MonthlyCandidates(current, named)
<1>3. plan \in SUBSET Candidates
  BY <1>2, PlanTyped
<1>4. /\ run' = [Stopped EXCEPT !.pc = "collecting", !.wanted = plan, !.planned = plan \ Reused(plan)]
      /\ UNCHANGED <<archive, row, ledger>>
  BY <1>1 DEF Start
<1>5. ASSUME NEW x \in plan, ~x.focus, Shared(x.day), IsReadable(x.day) PROVE x \in Reused(plan)
  <2> DEFINE y == [day |-> TradeDay[x.day], focus |-> FALSE]
  <2>1. y \in plan /\ MonthOf[y.day] = MonthOf[x.day] /\ ~y.focus /\ y.day = TradeDay[x.day]
    BY <1>2, <1>5, ReportedPlanned
  <2>2. y.day \in Available
    BY <1>3, <1>5, <2>1 DEF Available, Candidates
  <2> HIDE DEF plan, y
  <2> QED BY <1>5, <2>1, <2>2 DEF Reused
<1> HIDE DEF plan
<1>6. /\ run'.pc = "collecting" /\ run'.wanted = plan /\ run'.planned = plan \ Reused(plan)
  BY <1>4 DEF Stopped
<1>7. Held' = Held
  BY <1>4 DEF Held
<1>8. \A c \in plan \ Reused(plan) : c.day \notin Held
  BY DEF Reused, Available
<1>9. ASSUME NEW c \in plan \ Reused(plan), NEW x \in plan, ~c.focus, ~x.focus,
             MonthOf[x.day] = MonthOf[c.day]
      PROVE  x \notin Reused(plan) /\ x.day \notin Held
  BY <1>9 DEF Reused, Available
<1>10. PlanUnheld'
  BY <1>6, <1>7, <1>8, <1>9 DEF PlanUnheld
<1>11. PlanUnserved'
  BY <1>4, <1>5, <1>6 DEF PlanUnserved, Unserved, Trusted, IsReadable
<1> QED BY <1>10, <1>11 DEF Fresh

\* A focus date is in hand only when no candidate of its day and month is left.
LEMMA MonthFirst ==
  ASSUME run \in Execution, NEW x \in Left, ~x.focus, x.day = Candidate.day
  PROVE  ~Candidate.focus
<1>1. PICK c : c = Candidate
  OBVIOUS
<1>2. c \in Left /\ c.day \in Days /\ c.day = x.day /\ Order(c) <= Order(x)
  BY <1>1, CandidateLeft
<1>3. PICK m, z, y : m = MonthOf[c.day] /\ z = 2 * m /\ y = LastDay + 1
  OBVIOUS
<1>4. m \in Nat /\ LastDay \in Nat /\ c.day \in Nat
  BY <1>2, <1>3, Positive
<1>5. z \in Nat /\ y \in Nat /\ 1 <= y
  BY <1>3, <1>4
<1>6. Order(x) = z * y - c.day
  <2>1. Order(x) = (2 * m + 0) * y - c.day
    BY <1>2, <1>3 DEF Order
  <2>2. 2 * m + 0 = z
    BY <1>3, <1>4
  <2> QED BY <2>1, <2>2
<1>7. c.focus => Order(c) = (z + 1) * y - c.day
  BY <1>3 DEF Order
<1>8. PICK p \in Nat : p = z * y
  BY <1>5
<1>9. (z + 1) * y = p + y
  BY <1>5, <1>8
<1>10. Order(x) = p - c.day /\ (c.focus => Order(c) = (p + y) - c.day)
  BY <1>6, <1>7, <1>8, <1>9
<1> QED BY <1>1, <1>2, <1>4, <1>5, <1>10

\* A step that leaves the plan and the ledger, and after which no unserved candidate
\* has come by a trusted file.
LEMMA FreshStays ==
  ASSUME Asking, Fresh, ledger' = ledger, run'.planned = run.planned, run'.wanted = run.wanted,
         run'.calm => run.calm /\ PlanUnserved'
  PROVE  Fresh'
<1>1. Held' = Held
  BY DEF Held
<1> QED BY <1>1 DEF Fresh, PlanUnheld

\* The candidate in hand is done with: its file was not trusted, or is one now and
\* satisfies the month.
LEMMA HandledFresh ==
  ASSUME Typed, Left # {}, Asking, Fresh, NEW c, c = Candidate, NEW status,
         run' = Handled(c, status), UNCHANGED <<archive, ledger>>,
         \A d \in Days : d # c.day => row'[d] = row[d],
         status \notin {"downloaded", "cache_hit"} =>
           run.pc # "stored" /\ (Trusted(c.day)' => Trusted(c.day))
  PROVE  Fresh'
<1>1. c \in Left /\ c \in Candidates /\ c.day \in Days /\ run \in Execution
  BY CandidateLeft DEF Typed
<1>2. /\ run'.pc = "collecting" /\ run'.planned = run.planned /\ run'.wanted = run.wanted
      /\ run'.calm = run.calm
      /\ run'.satisfied = IF status \in {"downloaded", "cache_hit"} /\ ~c.focus
                          THEN run.satisfied \cup {MonthOf[c.day]} ELSE run.satisfied
  BY <1>1, HandledRun
<1>3. ASSUME run.calm, NEW x \in run.planned, Unserved(x)', Shared(x.day), Trusted(x.day)'
      PROVE  FALSE
  <2>1. Unserved(x) /\ x.day \in Days
    BY <1>1, <1>2, <1>3 DEF Unserved, Execution, Candidates
  <2>2. Trusted(x.day) => JustStored(x.day)
    BY <1>3, <2>1 DEF Fresh, PlanUnserved
  <2>3. CASE x.day # c.day
    <3>1. Trusted(x.day)
      BY <1>3, <2>1, <2>3 DEF Trusted, IsReadable, Declared
    <3> QED BY <2>2, <2>3, <3>1 DEF JustStored
  <2>4. CASE x.day = c.day
    <3>1. x \in Left /\ ~x.focus
      BY <1>1, <1>3, <2>1, <2>4 DEF Left, Unserved
    <3>2. ~c.focus
      BY <1>1, <2>4, <3>1, MonthFirst
    <3>3. status \notin {"downloaded", "cache_hit"}
      BY <1>2, <1>3, <2>4, <3>2 DEF Unserved
    <3> QED BY <1>3, <2>2, <2>4, <3>3 DEF JustStored
  <2> QED BY <2>3, <2>4
<1>4. run.calm => PlanUnserved'
  BY <1>2, <1>3 DEF PlanUnserved
<1> QED BY <1>2, <1>4, FreshStays

LEMMA RecordFresh ==
  ASSUME Typed, Left # {}, Asking, Fresh, UNCHANGED <<archive, ledger>>,
         NEW status \in Requested, NEW hash \in Readable \cup {"none"}, Record(status, hash),
         status # "downloaded" => run.pc # "stored" /\ ~HasArchive(Candidate.day)
  PROVE  Fresh'
<1>1. PICK c : c = Candidate
  OBVIOUS
<1>2. run' = Handled(c, status) /\ \A d \in Days : d # c.day => row'[d] = row[d]
  BY <1>1, RecordTyped DEF Record
<1>3. status # "downloaded" => run.pc # "stored" /\ ~Trusted(c.day)'
  BY <1>1 DEF HasArchive, Trusted, IsReadable, Readable, Versions
<1> QED BY <1>1, <1>2, <1>3, HandledFresh

\* A step that leaves the candidates and the days served, and trusts no other file
\* than one it has just stored.
LEMMA GoesOnFresh ==
  ASSUME Typed, Asking, Fresh, ledger' = ledger, run'.planned = run.planned,
         run'.wanted = run.wanted, run'.satisfied = run.satisfied, run'.calm = run.calm,
         \A d \in Days : Trusted(d)' =>
           \/ Trusted(d) /\ (JustStored(d) => JustStored(d)')
           \/ JustStored(d)'
  PROVE  Fresh'
<1>1. \A x \in run.planned : x.day \in Days
  BY DEF Typed, Execution, Candidates
<1>2. \A x : Unserved(x)' <=> Unserved(x)
  BY DEF Unserved
<1>3. run.calm => PlanUnserved'
  BY <1>1, <1>2 DEF Fresh, PlanUnserved
<1> QED BY <1>3, FreshStays

LEMMA CollectFresh ==
  ASSUME RepeatInv, Collect
  PROVE  Fresh'
<1>1. Typed /\ Files /\ Doing /\ NoFileAsked /\ Fresh /\ run \in Execution
  BY TypedParts DEF RepeatInv, ProvenInv, Typed
<1>2. Left # {} => Candidate \in Candidates /\ Candidate.day \in Days
  BY <1>1, CandidateLeft
<1>3. CASE AnswerDeferred \/ EndCollection \/ Import \/ Finish
  <2>1. run'.pc \in {"idle", "importing"}
    BY <1>1, <1>3, StoppedDoing DEF AnswerDeferred, EndCollection, Import, Finish, Execution
  <2> QED BY <2>1 DEF Fresh, Asking
<1>4. CASE PassOver
  <2>1. PICK c : c = Candidate
    OBVIOUS
  <2>2. /\ Left # {} /\ run.pc = "collecting" /\ run' = Handled(c, "known_missing")
        /\ UNCHANGED <<archive, row, ledger>>
    BY <1>4, <2>1 DEF PassOver, Collecting
  <2>3. Trusted(c.day)' => Trusted(c.day)
    BY <2>2 DEF Trusted, IsReadable, Declared
  <2> QED BY <1>1, <2>1, <2>2, <2>3, HandledFresh DEF Asking
<1>5. CASE CacheHit
  <2>1. PICK c : c = Candidate
    OBVIOUS
  <2>2. /\ Left # {} /\ run.pc = "collecting" /\ run' = Handled(c, "cache_hit")
        /\ UNCHANGED <<archive, ledger>>
    BY <1>5, <2>1 DEF CacheHit, Collecting
  <2>3. \A d \in Days : d # c.day => row'[d] = row[d]
    BY <1>1, <1>5, <2>1 DEF CacheHit, Files
  <2> QED BY <1>1, <2>1, <2>2, <2>3, HandledFresh DEF Asking
<1>6. CASE Ask
  <2>1. /\ run' = [run EXCEPT !.pc = "asking", !.attempt = run.attempt + 1]
        /\ run.pc = "collecting" /\ UNCHANGED <<archive, row, ledger>>
    BY <1>6 DEF Ask, Collecting
  <2>2. /\ run'.planned = run.planned /\ run'.wanted = run.wanted
        /\ run'.satisfied = run.satisfied /\ run'.calm = run.calm
    BY <1>1, <2>1 DEF Execution
  <2>3. \A d \in Days : Trusted(d)' => Trusted(d) /\ ~JustStored(d)
    BY <2>1 DEF Trusted, IsReadable, Declared, JustStored
  <2> QED BY <1>1, <2>1, <2>2, <2>3, GoesOnFresh DEF Asking
<1>7. CASE AnswerMissing \/ (\E status \in {"stopped", "rejected"} : AnswerRefused(status))
  <2>1. /\ Left # {} /\ run.pc = "asking" /\ ~HasArchive(Candidate.day)
        /\ UNCHANGED <<archive, ledger>> /\ \E status \in Requested : Record(status, "none")
    BY <1>1, <1>7 DEF AnswerMissing, AnswerRefused, Doing, NoFileAsked, Requested
  <2> QED BY <1>1, <2>1, RecordFresh DEF Asking
<1>8. CASE AnswerBulletin
  <2>1. PICK c : c = Candidate
    OBVIOUS
  <2> DEFINE v == published[c.day]
  <2>2. /\ Left # {} /\ UNCHANGED <<row, ledger>> /\ run.pc = "asking"
        /\ archive' = [archive EXCEPT ![c.day] = [content |-> v, age |-> 0]]
        /\ run' = [run EXCEPT !.pc = "stored", !.digest = v]
    BY <1>1, <1>8, <2>1 DEF AnswerBulletin, Doing
  <2> HIDE DEF v
  <2>3. c.day \in Days /\ archive \in [Days -> ArchiveRow]
    BY <1>1, <1>2, <2>1, <2>2 DEF Files
  <2>4. /\ run'.planned = run.planned /\ run'.wanted = run.wanted /\ run'.pc = "stored"
        /\ run'.satisfied = run.satisfied /\ run'.calm = run.calm
        /\ run'.processed = run.processed
    BY <1>1, <2>2 DEF Execution
  <2>5. Candidate' = c
    BY <2>1, <2>4, SameCandidate
  <2>6. \A d \in Days : Trusted(d)' => (Trusted(d) /\ ~JustStored(d)) \/ JustStored(d)'
    BY <2>2, <2>3, <2>4, <2>5 DEF Trusted, IsReadable, Declared, JustStored
  <2> QED BY <1>1, <2>2, <2>4, <2>6, GoesOnFresh DEF Asking
<1>9. CASE RecordBulletin
  <2>1. /\ Left # {} /\ run.pc = "stored" /\ run.digest \in Readable
        /\ UNCHANGED <<archive, ledger>>
        /\ Record("downloaded", run.digest) /\ "downloaded" \in Requested
    BY <1>1, <1>9 DEF RecordBulletin, Doing, Readable, Requested
  <2> QED BY <1>1, <2>1, RecordFresh DEF Asking
<1>10. ASSUME NEW wait \in 0 .. MaxWait + 1, AnswerUnavailable(wait) PROVE Fresh'
  <2>1. CASE Record("stopped", "none")
    <3>1. /\ Left # {} /\ run.pc = "asking" /\ ~HasArchive(Candidate.day)
          /\ UNCHANGED <<archive, ledger>> /\ "stopped" \in Requested
      BY <1>1, <1>10 DEF AnswerUnavailable, Doing, NoFileAsked, Requested
    <3> QED BY <1>1, <2>1, <3>1, RecordFresh DEF Asking
  <2>2. CASE ~Record("stopped", "none")
    <3>1. /\ run' = [run EXCEPT !.pc = "collecting"] /\ UNCHANGED <<archive, row, ledger>>
          /\ run.pc = "asking"
      BY <1>10, <2>2 DEF AnswerUnavailable
    <3>2. /\ run'.planned = run.planned /\ run'.wanted = run.wanted
          /\ run'.satisfied = run.satisfied /\ run'.calm = run.calm
      BY <1>1, <3>1 DEF Execution
    <3>3. \A d \in Days : Trusted(d)' => Trusted(d) /\ ~JustStored(d)
      BY <3>1 DEF Trusted, IsReadable, Declared, JustStored
    <3> QED BY <1>1, <3>1, <3>2, <3>3, GoesOnFresh DEF Asking
  <2> QED BY <2>1, <2>2
<1> QED BY <1>3, <1>4, <1>5, <1>6, <1>7, <1>8, <1>9, <1>10 DEF Collect

LEMMA WorldFresh ==
  ASSUME RepeatInv, World
  PROVE  Fresh'
<1>1. Typed /\ Files /\ Doing /\ Fresh /\ run \in Execution
  BY TypedParts DEF RepeatInv, ProvenInv, Typed
<1> SUFFICES ASSUME Asking' PROVE Fresh'
  BY DEF Fresh
<1>2. ~Crash
  BY StoppedDoing DEF Crash, Asking
<1>3. ASSUME NEW d \in Days, NEW content \in {"altered", "broken"}, Discard(d) \/ Alter(d, content)
      PROVE  Fresh'
  <2>1. run' = [run EXCEPT !.calm = run.pc = "idle"] /\ ledger' = ledger
    BY <1>3 DEF Discard, Alter
  <2>2. /\ run'.pc = run.pc /\ run'.calm = (run.pc = "idle")
        /\ run'.planned = run.planned /\ run'.wanted = run.wanted
    BY <1>1, <2>1 DEF Execution
  <2>3. Asking /\ ~run'.calm
    BY <2>2 DEF Asking
  <2> QED BY <1>1, <2>1, <2>2, <2>3, FreshStays
<1>4. CASE Tick \/ NewDay \/ \E d \in Days : Publish(d)
  <2>1. run' = run /\ ledger' = ledger
    BY <1>4 DEF Tick, NewDay, Publish
  <2>2. \A d \in Days : archive'[d].content = archive[d].content /\ row'[d].hash = row[d].hash
    <3>1. CASE Tick
      BY <1>1, <3>1, TickFiles
    <3>2. CASE NewDay \/ \E d \in Days : Publish(d)
      BY <3>2 DEF NewDay, Publish
    <3> QED BY <1>4, <3>1, <3>2
  <2>3. Candidate' = Candidate
    BY <2>1, SameCandidate
  <2>4. \A d \in Days : Trusted(d)' => Trusted(d) /\ (JustStored(d) => JustStored(d)')
    BY <2>1, <2>2, <2>3 DEF Trusted, IsReadable, Declared, JustStored
  <2>5. Asking
    BY <2>1 DEF Asking
  <2> QED BY <1>1, <2>1, <2>4, <2>5, GoesOnFresh
<1> QED BY <1>2, <1>3, <1>4 DEF World

LEMMA StepFresh == RepeatInv /\ [Next]_vars => RepeatInv'
<1> SUFFICES ASSUME RepeatInv, [Next]_vars PROVE RepeatInv'
  OBVIOUS
<1>1. ProvenInv' /\ HolidaysInside'
  BY StepProven DEF RepeatInv, HolidaysInside, Shared, Preceding
<1>2. CASE UNCHANGED vars
  <2>1. Candidate' = Candidate
    BY <1>2, SameCandidate DEF vars
  <2>2. Fresh'
    BY <1>2, <2>1
       DEF RepeatInv, Fresh, Asking, PlanUnheld, PlanUnserved, Unserved, JustStored, Held,
           Trusted, IsReadable, Declared, vars
  <2> QED BY <1>1, <2>2 DEF RepeatInv
<1>3. CASE Next
  <2>1. Fresh'
    BY <1>3, StepCases, StartFresh, CollectFresh, WorldFresh
  <2> QED BY <1>1, <2>1 DEF RepeatInv
<1> QED BY <1>2, <1>3

\* What a request is for, and what is local of its month.
LEMMA AskFresh ==
  ASSUME RepeatInv, Next, run.pc = "collecting", run'.pc = "asking"
  PROVE  LET siblings == {c \in run.wanted : ~c.focus /\ MonthOf[c.day] = MonthOf[Candidate.day]}
         IN /\ Candidate.day \notin Held
            /\ Candidate.focus \/ ~run.calm
               \/ \A c \in siblings : c.day \notin Held /\ ~Trusted(c.day)
<1>1. Typed /\ Fresh /\ run \in Execution
  BY DEF RepeatInv, ProvenInv, Typed
<1>2. Ask
  BY <1>1, OnlyAsk
<1>3. PICK c : c = Candidate
  OBVIOUS
<1>4. c \in Left /\ c \in run.planned /\ c.day \in Days /\ ~HasArchive(c.day)
  BY <1>1, <1>2, <1>3, CandidateLeft DEF Ask, Collecting, Left
<1>5. PlanUnheld /\ (run.calm => PlanUnserved)
  BY <1>1 DEF Fresh, Asking
<1>6. ASSUME ~c.focus, run.calm, NEW x \in run.wanted, ~x.focus, MonthOf[x.day] = MonthOf[c.day]
      PROVE  x.day \notin Held /\ ~Trusted(x.day)
  <2>1. x.day \notin Held /\ x \in run.planned
    BY <1>4, <1>5, <1>6 DEF PlanUnheld
  <2>2. Unserved(x)
    BY <1>4, <1>6, <2>1 DEF Left, Unserved
  <2>3. CASE x.day = c.day
    BY <1>4, <2>1, <2>3 DEF HasArchive, Trusted, IsReadable, Readable, Versions
  <2>4. CASE x.day # c.day
    <3>1. Shared(x.day)
      BY <1>4, <1>6, <2>4 DEF Shared
    <3>2. ~JustStored(x.day)
      BY DEF JustStored
    <3> QED BY <1>5, <1>6, <2>1, <2>2, <3>1, <3>2 DEF PlanUnserved
  <2> QED BY <2>3, <2>4
<1>7. c.day \notin Held
  BY <1>4, <1>5 DEF PlanUnheld
<1> QED BY <1>3, <1>6, <1>7

\* Where no holiday leads the days a month end falls back to, no execution asks for
\* what is local: a day of the ledger, or, undisturbed, a month that a candidate in
\* the ledger or a trusted file answers for (_candidate_reuse and the groups of
\* _process_candidate_group, whatever ended the executions before).
THEOREM NothingAskedAgain == HolidaysInside /\ Spec => NoRepeat
<1>1. HolidaysInside /\ Init => RepeatInv
  BY InitProven DEF Init, Stopped, RepeatInv, Fresh, Asking
<1>2. HolidaysInside /\ Spec => []RepeatInv
  BY <1>1, StepFresh, PTL DEF Spec
<1>3. RepeatInv /\ [Next]_vars =>
        [run.pc = "collecting" /\ run'.pc = "asking" =>
           LET siblings == {c \in run.wanted : ~c.focus /\ MonthOf[c.day] = MonthOf[Candidate.day]}
           IN /\ Candidate.day \notin Held
              /\ Candidate.focus \/ ~run.calm
                 \/ \A c \in siblings : c.day \notin Held /\ ~Trusted(c.day)]_vars
  BY AskFresh
<1> QED BY <1>2, <1>3, PTL DEF Spec, NoRepeat
=============================================================================
