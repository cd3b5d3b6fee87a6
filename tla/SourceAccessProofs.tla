------------------------- MODULE SourceAccessProofs -------------------------
(***************************************************************************)
(* Theorems about SourceAccess, for every set of operations, threshold,    *)
(* deadline and limit: BreakerInv is an invariant, so one probe at most is *)
(* out, the threshold trips and the scheduler's look at the row is right;  *)
(* and a success moves the row only as its promises allow.                 *)
(***************************************************************************)
EXTENDS SourceAccessProperties, TLAPS

LEMMA NoBudgetType == NoBudget \in Budget
BY DEF NoBudget, Budget, Results

LEMMA LimitType ==
  ASSUME TypeOK, NEW b \in Budget
  PROVE  AttemptLimit(b) \in Nat
BY ContractsAssumption DEF AttemptLimit, MaxAttempts, TypeOK, Contract

LEMMA ConcludedType ==
  ASSUME NEW b \in Budget, NEW result \in Results
  PROVE  Concluded(b, result) \in Budget
BY DEF Concluded, Budget

LEMMA NextLoopType ==
  ASSUME TypeOK, NEW b \in Budget, NEW result \in Results
  PROVE  NextLoop(b, result) \in Budget
BY LimitType DEF NextLoop, Budget

LEMMA OpTypes ==
  ASSUME TypeOK, NEW w \in Operations
  PROVE  /\ op[w] \in Budget /\ pc[w] \in Steps
         /\ op[w].started \in Nat /\ op[w].ack \in Nat /\ op[w].requests \in Nat
         /\ op[w].generation \in Nat \cup {-1} /\ op[w].advice \in Nat
BY DEF TypeOK, Budget

LEMMA RowTypes ==
  ASSUME TypeOK
  PROVE  /\ access.state \in States /\ access.failures \in Nat
         /\ access.openedUntil \in Nat /\ access.retryNotBefore \in Nat
         /\ access.probeUntil \in Nat /\ access.generation \in Nat \cup {-1}
         /\ clock \in Nat /\ access \in Row
BY DEF TypeOK, Row

\* The rows the three statements write.
LEMMA AdmittedType ==
  ASSUME TypeOK, NEW n \in Nat
  PROVE  AdmittedRow(n) \in Row /\ AdmittedRow(n).generation \in Nat
<1>1. access.generation + 1 \in Nat /\ n + Deadline + Margin \in Nat
  BY RowTypes, NumbersAssumption
<1>2. access \in Row
  BY RowTypes
<1>3. CASE access.state = "closed"
  BY <1>1, <1>2, <1>3 DEF AdmittedRow, Row, States
<1>4. CASE access.state # "closed"
  BY <1>1, <1>2, <1>4 DEF AdmittedRow, Row, States
<1> QED BY <1>3, <1>4

LEMMA FailedType ==
  ASSUME TypeOK, NEW limited \in BOOLEAN, NEW count \in Nat, NEW advice \in Nat, NEW n \in Nat
  PROVE  FailedRow(limited, count, advice, n) \in Row
BY NumbersAssumption DEF FailedRow, TypeOK, Row, States, Latest

LEMMA SucceededType ==
  ASSUME TypeOK, NEW ack \in Nat
  PROVE  SucceededRow(ack) \in Row
BY DEF SucceededRow, TypeOK, Row, States

LEMMA BreakerInit == Init => BreakerInv
<1> SUFFICES ASSUME Init PROVE BreakerInv
  OBVIOUS
<1>1. TypeOK
  BY NoBudgetType DEF Init, TypeOK, Row, States, Steps
<1>2. ClosedWithoutProbe /\ HalfOpenIsDue /\ TripsAtThreshold
  BY NumbersAssumption DEF Init, ClosedWithoutProbe, HalfOpenIsDue, TripsAtThreshold
<1>3. RememberedIsPast /\ LatestNotOvertaken
  BY DEF Init, RememberedIsPast, LatestNotOvertaken, NoBudget
<1>4. ProbesCovered /\ ProbeAnswersLater /\ OneProbe
  BY DEF Init, ProbesCovered, ProbeAnswersLater, OneProbe, Probing
<1> QED BY <1>1, <1>2, <1>3, <1>4 DEF BreakerInv

-----------------------------------------------------------------------------
(* The steps of an operation that leave the row alone *)

\* One operation moves, to a budget of the right type.
Moves(w) ==
  /\ pc' \in [Operations -> Steps] /\ op' \in [Operations -> Budget]
  /\ \A v \in Operations : v # w => pc'[v] = pc[v] /\ op'[v] = op[v]

LEMMA MovesTo ==
  ASSUME TypeOK, NEW w \in Operations, NEW b \in Budget, NEW step \in Steps,
         op' = [op EXCEPT ![w] = b], Goto(w, step)
  PROVE  Moves(w) /\ op'[w] = b /\ pc'[w] = step
BY DEF TypeOK, Moves, Goto

\* What such a step may do to what BreakerInv says of the operation.
Quiet(w) ==
  /\ Moves(w)
  /\ UNCHANGED <<clock, access, overtaken>>
  /\ probes' \in {probes, probes \ {w}}
  /\ op'[w].generation \in {-1, op[w].generation}
  /\ op'[w].ack <= clock /\ op'[w].started <= clock
  /\ pc'[w] # "idle" /\ w \in probes' => pc[w] # "idle" /\ op'[w].started = op[w].started
  /\ Receipts /\ pc'[w] \in {"validated", "finishing"} => op'[w].ack = clock

LEMMA QuietSteps ==
  ASSUME BreakerInv, NEW w \in Operations,
         \/ Begin(w) \/ Refuse(w) \/ Send(w) \/ Exhaust(w) \/ Answered(w)
         \/ DropSuccess(w) \/ Finish(w) \/ RecordNothing(w) \/ NextPart(w) \/ Leave(w)
  PROVE  Quiet(w)
<1>0. /\ TypeOK /\ op[w] \in Budget /\ NoBudget \in Budget
      /\ op[w].started <= clock /\ op[w].ack <= clock /\ clock \in Nat
      /\ op[w].advice \in Nat
  BY OpTypes, RowTypes, NoBudgetType DEF BreakerInv, RememberedIsPast
<1> DEFINE Same(b) == b.started = op[w].started /\ b.ack \in {0, op[w].ack}
                      /\ b.generation \in {-1, op[w].generation}
<1>a. ASSUME NEW b \in Budget, NEW step \in Steps \ {"idle", "validated", "finishing"}, Same(b),
             op' = [op EXCEPT ![w] = b], Goto(w, step), pc[w] # "idle",
             UNCHANGED <<clock, access, probes, overtaken>>
      PROVE  Quiet(w)
  <2>1. Moves(w) /\ op'[w] = b /\ pc'[w] = step
    BY <1>0, <1>a, MovesTo
  <2>2. b.ack <= clock /\ b.started <= clock
    BY <1>0, <1>a
  <2> QED BY <1>0, <1>a, <2>1, <2>2 DEF Quiet
<1>c. ASSUME NEW b \in Budget, NEW result \in Results
      PROVE  /\ Concluded(b, result) \in Budget /\ NextLoop(b, result) \in Budget
             /\ Concluded(b, result).started = b.started
             /\ Concluded(b, result).ack = b.ack
             /\ Concluded(b, result).generation = b.generation
             /\ NextLoop(b, result).started = b.started
             /\ NextLoop(b, result).ack = b.ack
             /\ NextLoop(b, result).generation = b.generation
  BY <1>0, ConcludedType, NextLoopType DEF Concluded, NextLoop, Budget
<1>f. ASSUME NEW b \in Budget, NEW result \in Results, Same(b), Fails(w, b, result),
             pc[w] # "idle", UNCHANGED <<clock, access, probes, overtaken>>
      PROVE  Quiet(w)
  <2> DEFINE first == IF b.result = "none" THEN result ELSE b.result
  <2>1. first \in Results
    BY DEF Budget
  <2>2. /\ Concluded(b, first) \in Budget /\ Same(Concluded(b, first))
        /\ NextLoop(b, first) \in Budget /\ Same(NextLoop(b, first))
    BY <1>c, <1>f, <2>1
  <2>3. \/ Goto(w, "failed") /\ op' = [op EXCEPT ![w] = Concluded(b, first)]
        \/ Goto(w, "ready") /\ op' = [op EXCEPT ![w] = NextLoop(b, first)]
    BY <1>f DEF Fails
  <2> HIDE DEF first
  <2> QED BY <1>a, <1>f, <2>2, <2>3 DEF Steps
<1>1. CASE Begin(w)
  <2> DEFINE b == [NoBudget EXCEPT !.started = clock, !.part = 1,
                                   !.limit = AttemptLimit(NoBudget)]
  <2>1. b \in Budget /\ b.started = clock /\ b.ack = 0 /\ b.generation = -1
    BY <1>0, LimitType DEF Budget, NoBudget, Results
  <2>2. op' = [op EXCEPT ![w] = b] /\ Goto(w, "ready") /\ w \notin probes'
    BY <1>1 DEF Begin
  <2> HIDE DEF b
  <2>3. Moves(w) /\ op'[w] = b /\ pc'[w] = "ready"
    BY <1>0, <2>1, <2>2, MovesTo DEF Steps
  <2>4. UNCHANGED <<clock, access, overtaken>> /\ probes' = probes \ {w}
    BY <1>1 DEF Begin
  <2>5. op'[w].ack <= clock /\ op'[w].started <= clock /\ op'[w].generation = -1
    BY <1>0, <2>1, <2>3
  <2> QED BY <2>2, <2>3, <2>4, <2>5 DEF Quiet
<1>2. CASE Refuse(w)
  <2> DEFINE r == [op[w] EXCEPT !.generation = -1]
  <2>1. r \in Budget /\ Same(r)
    BY <1>0 DEF Budget
  <2>2. Fails(w, r, "other")
    BY <1>2 DEF Refuse
  <2> HIDE DEF r
  <2> QED BY <1>f, <1>2, <2>1, <2>2 DEF Refuse, MayReserve, Results
<1>3. CASE Send(w)
  <2> DEFINE b == [op[w] EXCEPT !.requests = @ + 1]
  <2>1. b \in Budget /\ Same(b)
    BY <1>0 DEF Budget
  <2>2. op' = [op EXCEPT ![w] = b]
    BY <1>0, <1>3 DEF Send, TypeOK
  <2> HIDE DEF b
  <2> QED BY <1>a, <1>3, <2>1, <2>2 DEF Send, MayReserve, Steps
<1>4. CASE Exhaust(w)
  <2>1. PICK result \in Results : Fails(w, op[w], result)
    BY <1>4 DEF Exhaust, Results
  <2> QED BY <1>0, <1>4, <1>f, <2>1 DEF Exhaust
<1>5. CASE Validate(w)
  <2> DEFINE c == Concluded(op[w], "none")
             b == [c EXCEPT !.ack = IF Receipts THEN clock ELSE 0]
  <2>1. c \in Budget /\ Same(c)
    BY <1>0, <1>c DEF Results
  <2>2. op' = [op EXCEPT ![w] = b]
    BY <1>0, <1>5 DEF Validate, TypeOK
  <2> HIDE DEF c
  <2>3. /\ b \in Budget /\ b.started = op[w].started /\ b.generation \in {-1, op[w].generation}
        /\ b.ack <= clock /\ (Receipts => b.ack = clock)
    BY <1>0, <2>1 DEF Budget
  <2> HIDE DEF b
  <2>4. Moves(w) /\ op'[w] = b /\ pc'[w] = "validated"
    BY <1>0, <1>5, <2>2, <2>3, MovesTo DEF Validate, Steps
  <2> QED BY <1>0, <1>5, <2>3, <2>4 DEF Validate, Quiet
<1>6. CASE NextWindow(w) \/ EndIncomplete(w)
  <2>1. op[w].result \in Results
    BY <1>0 DEF Budget
  <2>2. \/ Goto(w, "ready") /\ op' = [op EXCEPT ![w] = NextLoop(op[w], op[w].result)]
        \/ Goto(w, "failed") /\ op' = [op EXCEPT ![w] = Concluded(op[w], op[w].result)]
    BY <1>0, <1>6 DEF NextWindow, EndIncomplete, TypeOK
  <2> QED BY <1>0, <1>a, <1>c, <1>6, <2>1, <2>2 DEF NextWindow, EndIncomplete, Steps
<1>7. CASE Reject(w)
  <2>1. CASE Fails(w, op[w], "other")
    BY <1>0, <1>f, <1>7, <2>1 DEF Reject, Results
  <2>2. CASE Goto(w, "failed") /\ op' = [op EXCEPT ![w] = Concluded(op[w], "other")]
    <3>1. Concluded(op[w], "other") \in Budget /\ Same(Concluded(op[w], "other"))
      BY <1>0, <1>c DEF Results
    <3> QED BY <1>a, <1>7, <2>2, <3>1 DEF Reject, Steps
  <2> QED BY <1>7, <2>1, <2>2 DEF Reject
<1>8. CASE Disturb(w)
  <2>1. PICK advice \in {0} \cup {clock + a : a \in 1 .. MaxAdvice} :
          LET told == [op[w] EXCEPT !.advice = IF advice = 0 THEN @ ELSE Latest(@, advice)]
          IN \/ /\ Goto(w, "ready")
                /\ op' = [op EXCEPT ![w] = [told EXCEPT !.attempt = @ + 1]]
             \/ Fails(w, told, "transient")
    BY <1>8 DEF Disturb
  <2> DEFINE told == [op[w] EXCEPT !.advice = IF advice = 0 THEN @ ELSE Latest(@, advice)]
             again == [told EXCEPT !.attempt = @ + 1]
  <2>2. advice \in Nat
    BY <1>0, NumbersAssumption
  <2>3. told \in Budget /\ Same(told)
    BY <1>0, <2>2 DEF Budget, Latest
  <2>4. \/ Goto(w, "ready") /\ op' = [op EXCEPT ![w] = again]
        \/ Fails(w, told, "transient")
    BY <2>1
  <2> HIDE DEF told
  <2>5. again \in Budget /\ Same(again)
    BY <2>3 DEF Budget
  <2> HIDE DEF again
  <2>6. pc[w] # "idle" /\ UNCHANGED <<clock, access, probes, overtaken>>
    BY <1>8 DEF Disturb
  <2>7. CASE Fails(w, told, "transient")
    BY <1>f, <2>3, <2>6, <2>7 DEF Results
  <2> QED BY <1>a, <2>4, <2>5, <2>6, <2>7 DEF Steps
<1>9. CASE Limit(w)
  <2>1. PICK a \in 1 .. MaxAdvice :
          LET told == [op[w] EXCEPT !.advice = Latest(@, clock + a)]
          IN Fails(w, told, "limited")
    BY <1>9 DEF Limit
  <2> DEFINE told == [op[w] EXCEPT !.advice = Latest(@, clock + a)]
  <2>2. clock + a \in Nat
    BY <1>0, NumbersAssumption
  <2>3. told \in Budget /\ Same(told)
    BY <1>0, <2>2 DEF Budget, Latest
  <2>4. Fails(w, told, "limited")
    BY <2>1
  <2> HIDE DEF told
  <2> QED BY <1>f, <1>9, <2>3, <2>4 DEF Limit, Results
<1>10. CASE DropSuccess(w) \/ Finish(w) \/ RecordNothing(w)
  <2> DEFINE b == [op[w] EXCEPT !.result = "none", !.ack = 0]
  <2>1. b \in Budget /\ Same(b)
    BY <1>0 DEF Budget, Results
  <2>2. op' = [op EXCEPT ![w] = b]
    BY <1>0, <1>10 DEF DropSuccess, Finish, RecordNothing, Closed, TypeOK
  <2> HIDE DEF b
  <2> QED BY <1>a, <1>10, <2>1, <2>2 DEF DropSuccess, Finish, RecordNothing, Steps
<1>11. CASE NextPart(w)
  <2> DEFINE b == [op[w] EXCEPT !.part = @ + 1, !.since = op[w].requests,
                                !.limit = AttemptLimit(op[w])]
  <2>1. b \in Budget /\ Same(b)
    <3>1. AttemptLimit(op[w]) \in Nat
      BY <1>0, LimitType
    <3>2. op[w].part + 1 \in Nat /\ op[w].requests \in Nat
      BY <1>0 DEF Budget
    <3> QED BY <1>0, <3>1, <3>2 DEF Budget
  <2>2. op' = [op EXCEPT ![w] = b]
    BY <1>0, <1>11 DEF NextPart, TypeOK
  <2> HIDE DEF b
  <2> QED BY <1>a, <1>11, <2>1, <2>2 DEF NextPart, Steps
<1>12. CASE Leave(w)
  <2>1. Moves(w) /\ op'[w] = NoBudget /\ pc'[w] = "idle"
    BY <1>0, <1>12, MovesTo DEF Leave, Steps
  <2> QED BY <1>0, <1>12, <2>1 DEF Leave, Quiet, NoBudget
<1> QED BY <1>1, <1>2, <1>3, <1>4, <1>5, <1>6, <1>7, <1>8, <1>9, <1>10, <1>11, <1>12 DEF Answered

\* They keep the invariant.
LEMMA QuietKeeps ==
  ASSUME BreakerInv, NEW w \in Operations, Quiet(w), UNCHANGED contract
  PROVE  BreakerInv'
<1>0. /\ TypeOK /\ clock \in Nat
      /\ access' = access /\ clock' = clock /\ overtaken' = overtaken
      /\ probes' \subseteq probes
      /\ \A v \in Operations : v # w => pc'[v] = pc[v] /\ op'[v] = op[v]
  BY RowTypes DEF BreakerInv, Quiet, Moves
<1>1. TypeOK'
  BY <1>0 DEF Quiet, Moves, TypeOK
<1>2. ClosedWithoutProbe' /\ HalfOpenIsDue' /\ TripsAtThreshold'
  BY <1>0 DEF BreakerInv, ClosedWithoutProbe, HalfOpenIsDue, TripsAtThreshold
<1>3. RememberedIsPast'
  <2> SUFFICES ASSUME NEW v \in Operations
               PROVE  /\ op'[v].started <= clock /\ op'[v].ack <= clock
                      /\ op'[v].generation <= access.generation
    BY <1>0 DEF RememberedIsPast
  <2>1. CASE v # w
    BY <1>0, <2>1 DEF BreakerInv, RememberedIsPast
  <2>2. CASE v = w
    <3>1. -1 <= access.generation
      BY <1>0, RowTypes
    <3> QED BY <2>2, <3>1 DEF Quiet, BreakerInv, RememberedIsPast
  <2> QED BY <2>1, <2>2
<1>4. ASSUME NEW v \in Operations, Acknowledges(v)'
      PROVE  Acknowledges(v)
  BY <1>0, <1>4 DEF Acknowledges, Quiet
<1>5. LatestNotOvertaken'
  BY <1>0, <1>4 DEF LatestNotOvertaken, BreakerInv
<1>6. ASSUME NEW v \in Operations, Probing(v)'
      PROVE  Probing(v) /\ op'[v].started = op[v].started
  <2>1. op'[v].started = op[v].started /\ pc[v] # "idle"
    BY <1>0, <1>6 DEF Probing, Quiet
  <2> QED BY <1>0, <1>6, <2>1 DEF Probing, InTime
<1>7. ProbesCovered'
  BY <1>0, <1>6 DEF ProbesCovered, ProbeCovered, BreakerInv
<1>8. OneProbe'
  BY <1>6 DEF OneProbe, BreakerInv
<1>9. ProbeAnswersLater'
  <2> SUFFICES ASSUME NEW v \in Operations, Receipts, access.state = "half_open",
                      pc'[v] \in {"validated", "finishing"}, Acknowledges(v)'
               PROVE  access.retryNotBefore <= op'[v].ack
    BY <1>0 DEF ProbeAnswersLater, Receipts
  <2>1. CASE v # w
    BY <1>0, <1>4, <2>1 DEF ProbeAnswersLater, BreakerInv, Receipts
  <2>2. CASE v = w
    BY <1>0, <2>2 DEF Quiet, HalfOpenIsDue, BreakerInv
  <2> QED BY <2>1, <2>2
<1> QED BY <1>1, <1>2, <1>3, <1>5, <1>7, <1>8, <1>9 DEF BreakerInv

-----------------------------------------------------------------------------
(* The steps that write the row *)

\* An admission: nobody else holds its generation; and if it is a probe, the
\* one before it is past its deadline.
LEMMA AdmitKeeps ==
  ASSUME BreakerInv, NEW w \in Operations, Admit(w), UNCHANGED contract
  PROVE  BreakerInv'
<1>0. /\ TypeOK /\ clock \in Nat /\ access.generation \in Nat \cup {-1}
      /\ op[w] \in Budget /\ pc[w] # "idle" /\ access \in Row
  BY RowTypes, OpTypes DEF BreakerInv, Admit, MayReserve
<1>1. /\ access' = AdmittedRow(clock) /\ access' \in Row
      /\ access'.generation = access.generation + 1
      /\ access'.failures = access.failures
      /\ access'.openedUntil = access.openedUntil
      /\ access'.retryNotBefore = access.retryNotBefore
      /\ access.state = "closed" => access'.state = "closed"
      /\ access.state # "closed" =>
           access'.state = "half_open" /\ access'.probeUntil = clock + Deadline + Margin
  BY <1>0, AdmittedType DEF Admit, AdmittedRow, Row
<1>2. /\ Moves(w) /\ pc'[w] = "sent"
      /\ op'[w].generation = access'.generation
      /\ op'[w].started = op[w].started /\ op'[w].ack = op[w].ack
      /\ clock' = clock /\ overtaken' = Operations \ {w}
  <2> DEFINE probe == op[w].probe \/ access.state # "closed"
             g     == AdmittedRow(clock).generation
             b     == [op[w] EXCEPT !.gated = TRUE, !.requests = @ + 1,
                                    !.generation = g, !.probe = probe]
  <2>0. probe \in BOOLEAN /\ g \in Nat
    BY <1>0, AdmittedType
  <2>2. op' = [op EXCEPT ![w] = b]
    BY <1>0 DEF Admit, TypeOK
  <2> HIDE DEF probe, g
  <2>1. b \in Budget /\ b.generation = g /\ b.started = op[w].started /\ b.ack = op[w].ack
    <3>1. op[w].requests + 1 \in Nat
      BY <1>0 DEF Budget
    <3> DEFINE c == [op[w] EXCEPT !.gated = TRUE, !.probe = probe]
    <3>2. c \in Budget /\ c.requests = op[w].requests
          /\ c.started = op[w].started /\ c.ack = op[w].ack
      BY <1>0, <2>0, Zenon DEF Budget
    <3>3. b = [c EXCEPT !.requests = @ + 1, !.generation = g]
      BY <1>0 DEF Budget
    <3> HIDE DEF c
    <3> QED BY <2>0, <3>1, <3>2, <3>3 DEF Budget
  <2> HIDE DEF b
  <2>3. Moves(w) /\ op'[w] = b /\ pc'[w] = "sent"
    BY <1>0, <2>1, <2>2, MovesTo DEF Admit, Steps
  <2> QED BY <1>1, <2>1, <2>3 DEF Admit, g
<1>3. /\ \A v \in Operations : v # w => pc'[v] = pc[v] /\ op'[v] = op[v]
      /\ probes' = IF access.state = "closed" THEN probes ELSE probes \cup {w}
  BY <1>2 DEF Moves, Admit
<1>4. TypeOK'
  BY <1>0, <1>1, <1>2, <1>3 DEF Moves, TypeOK
<1>5. ClosedWithoutProbe' /\ TripsAtThreshold'
  BY <1>1, <1>3 DEF ClosedWithoutProbe, TripsAtThreshold, BreakerInv
<1>6. HalfOpenIsDue'
  BY <1>1, <1>2 DEF HalfOpenIsDue, BreakerInv, Admit, Admissible
<1>7. \A v \in Operations :
        /\ op[v].generation \in Nat \cup {-1} /\ op[v].generation <= access.generation
        /\ op[v].started <= clock /\ op[v].ack <= clock
  BY <1>0, OpTypes DEF RememberedIsPast, BreakerInv
<1>8. RememberedIsPast'
  <2> SUFFICES ASSUME NEW v \in Operations
               PROVE  /\ op'[v].started <= clock /\ op'[v].ack <= clock
                      /\ op'[v].generation <= access'.generation
    BY <1>2 DEF RememberedIsPast
  <2>1. CASE v # w
    BY <1>0, <1>1, <1>3, <1>7, <2>1
  <2>2. CASE v = w
    BY <1>0, <1>1, <1>2, <1>7, <2>2
  <2> QED BY <2>1, <2>2
<1>9. \A v \in Operations : v # w => ~Acknowledges(v)'
  BY <1>0, <1>1, <1>3, <1>7 DEF Acknowledges
<1>10. LatestNotOvertaken' /\ ProbeAnswersLater'
  BY <1>2, <1>9 DEF LatestNotOvertaken, ProbeAnswersLater
<1>11. ASSUME NEW v \in Operations, Probing(v), access.state # "closed"
       PROVE  FALSE
  <2>1. op[v].started + Deadline > clock
    BY <1>0, <1>7, <1>11, NumbersAssumption, OpTypes DEF Probing, InTime
  <2>2. ProbeCovered(v)
    BY <1>11 DEF ProbesCovered, BreakerInv
  <2>3. op[v].started \in Nat /\ access.openedUntil \in Nat /\ access.probeUntil \in Nat
    BY <1>0, RowTypes, OpTypes
  <2>4. Admissible(clock)
    BY DEF Admit
  <2> QED BY <1>0, <1>11, <2>1, <2>2, <2>3, <2>4, NumbersAssumption DEF ProbeCovered, Admissible
<1>12. ASSUME NEW v \in Operations, Probing(v)'
       PROVE  v = w /\ access'.state = "half_open" /\ ProbeCovered(v)'
  <2>1. access.state # "closed"
    BY <1>3, <1>12 DEF Probing, ClosedWithoutProbe, BreakerInv
  <2>2. v = w
    BY <1>2, <1>3, <1>11, <1>12, <2>1 DEF Probing, InTime
  <2>3. op'[v].started + Deadline <= clock + Deadline + Margin
    BY <1>0, <1>2, <1>7, <2>2, NumbersAssumption, OpTypes
  <2> QED BY <1>1, <2>1, <2>2, <2>3 DEF ProbeCovered
<1>13. ProbesCovered' /\ OneProbe'
  BY <1>12 DEF ProbesCovered, OneProbe
<1> QED BY <1>4, <1>5, <1>6, <1>8, <1>10, <1>13 DEF BreakerInv

\* A success: the row moves only for the last admission, and a circuit it
\* leaves open was not half-open.
Acknowledging(w) ==
  /\ Acknowledge(w) /\ Moves(w)
  /\ pc[w] \in {"validated", "finishing"} /\ pc'[w] \in {"finishing", "ended"}
  /\ op'[w].generation = op[w].generation /\ op'[w].started = op[w].started
  /\ op'[w].ack \in {0, op[w].ack}
  /\ pc'[w] = "finishing" => op'[w].ack = op[w].ack

LEMMA AcknowledgingSteps ==
  ASSUME TypeOK, NEW w \in Operations, RecordSuccess(w) \/ FinishFails(w)
  PROVE  Acknowledging(w)
<1>0. op[w] \in Budget
  BY OpTypes
<1>1. CASE RecordSuccess(w)
  BY <1>0, <1>1 DEF RecordSuccess, Acknowledging, Moves, Goto, TypeOK, Steps
<1>2. CASE FinishFails(w)
  <2> DEFINE b == [op[w] EXCEPT !.result = "none", !.ack = 0]
  <2>1. /\ b \in Budget /\ b.ack = 0
        /\ b.generation = op[w].generation /\ b.started = op[w].started
    BY <1>0 DEF Budget, Results
  <2>2. op' = [op EXCEPT ![w] = b]
    BY <1>0, <1>2 DEF FinishFails, Closed, TypeOK
  <2> HIDE DEF b
  <2>3. Moves(w) /\ op'[w] = b /\ pc'[w] = "ended"
    BY <1>2, <2>1, <2>2, MovesTo DEF FinishFails, Steps
  <2> QED BY <1>2, <2>1, <2>3 DEF FinishFails, Acknowledging
<1> QED BY <1>1, <1>2

\* What a success that counts makes of the row.
LEMMA AcknowledgedRow ==
  ASSUME BreakerInv, NEW w \in Operations, Acknowledging(w), Acknowledges(w)
  PROVE  /\ access' \in Row /\ access'.failures = 0
         /\ access'.generation = access.generation
         /\ access'.state \in {"open", "closed"}
         /\ access'.state = "open" =>
              /\ access.state # "half_open"
              /\ access'.openedUntil = access.openedUntil
              /\ access'.retryNotBefore = access.retryNotBefore
         /\ access.retryNotBefore > clock => access'.state = "open"
<1> DEFINE ack == IF Receipts THEN op[w].ack ELSE clock
<1>0. /\ TypeOK /\ access \in Row /\ ack \in Nat /\ ack <= clock /\ clock \in Nat
      /\ access.retryNotBefore \in Nat
  BY OpTypes, RowTypes DEF BreakerInv, RememberedIsPast
<1>1. access' = SucceededRow(ack)
  BY DEF Acknowledging, Acknowledge
<1>2. access.state = "half_open" => access.retryNotBefore <= ack
  BY <1>0 DEF BreakerInv, ProbeAnswersLater, HalfOpenIsDue, Acknowledging
<1> HIDE DEF ack
<1>3. access' \in Row
  BY <1>0, <1>1, SucceededType
<1> QED BY <1>0, <1>1, <1>2, <1>3 DEF SucceededRow, Row

LEMMA AcknowledgeKeeps ==
  ASSUME BreakerInv, NEW w \in Operations, Acknowledging(w), UNCHANGED contract
  PROVE  BreakerInv'
<1>0. /\ TypeOK /\ clock \in Nat /\ access \in Row /\ clock' = clock /\ overtaken' = overtaken
      /\ op[w].ack \in Nat
      /\ probes' = IF access'.state = "closed" THEN {} ELSE probes
      /\ \A v \in Operations : v # w => pc'[v] = pc[v] /\ op'[v] = op[v]
  BY RowTypes, OpTypes DEF BreakerInv, Acknowledging, Acknowledge, Moves
<1>1. CASE ~Acknowledges(w)
  <2>1. access' = access /\ probes' = probes
    BY <1>0, <1>1 DEF Acknowledging, Acknowledge, BreakerInv, ClosedWithoutProbe
  <2>2. TypeOK'
    BY <1>0, <2>1 DEF Acknowledging, Moves, TypeOK
  <2>3. ClosedWithoutProbe' /\ HalfOpenIsDue' /\ TripsAtThreshold'
    BY <1>0, <2>1 DEF BreakerInv, ClosedWithoutProbe, HalfOpenIsDue, TripsAtThreshold
  <2>4. \A v \in Operations : /\ op'[v].started = op[v].started
                              /\ op'[v].generation = op[v].generation
                              /\ op'[v].ack \in {0, op[v].ack}
                              /\ Acknowledges(v)' => Acknowledges(v) /\ v # w
    BY <1>0, <1>1, <2>1 DEF Acknowledging, Acknowledges
  <2>5. RememberedIsPast'
    BY <1>0, <2>1, <2>4 DEF RememberedIsPast, BreakerInv
  <2>6. LatestNotOvertaken'
    BY <1>0, <2>4 DEF LatestNotOvertaken, BreakerInv
  <2>7. \A v \in Operations : Probing(v)' => Probing(v)
    BY <1>0, <2>1, <2>4 DEF Probing, InTime, Acknowledging
  <2>8. ProbesCovered' /\ OneProbe'
    BY <2>1, <2>4, <2>7 DEF ProbesCovered, ProbeCovered, OneProbe, BreakerInv
  <2>9. ProbeAnswersLater'
    BY <1>0, <2>1, <2>4 DEF ProbeAnswersLater, BreakerInv, Receipts
  <2> QED BY <2>2, <2>3, <2>5, <2>6, <2>8, <2>9 DEF BreakerInv
<1>2. CASE Acknowledges(w)
  <2>1. /\ access' \in Row /\ access'.failures = 0
        /\ access'.generation = access.generation
        /\ access'.state \in {"open", "closed"}
        /\ access'.state = "open" =>
             access.state # "half_open" /\ access'.openedUntil = access.openedUntil
    BY <1>2, AcknowledgedRow
  <2>2. TypeOK'
    BY <1>0, <2>1 DEF Acknowledging, Moves, TypeOK
  <2>3. ClosedWithoutProbe' /\ HalfOpenIsDue' /\ TripsAtThreshold' /\ ProbeAnswersLater'
    BY <1>0, <2>1, NumbersAssumption
       DEF ClosedWithoutProbe, HalfOpenIsDue, TripsAtThreshold, ProbeAnswersLater, Receipts
  <2>4. \A v \in Operations : /\ op'[v].started = op[v].started
                              /\ op'[v].generation = op[v].generation
                              /\ op'[v].ack \in {0, op[v].ack}
    BY <1>0 DEF Acknowledging
  <2>5. RememberedIsPast'
    BY <1>0, <2>1, <2>4 DEF RememberedIsPast, BreakerInv
  <2>6. LatestNotOvertaken'
    BY <1>0, <2>1, <2>4 DEF LatestNotOvertaken, Acknowledges, BreakerInv
  <2>7. \A v \in Operations : Probing(v)' => Probing(v) /\ access'.state = "open"
    BY <1>0, <2>1, <2>4 DEF Probing, InTime, Acknowledging
  <2>8. ProbesCovered' /\ OneProbe'
    <3>1. ASSUME NEW v \in Operations, Probing(v)' PROVE ProbeCovered(v)'
      <4>1. Probing(v) /\ access'.state = "open" /\ access.state # "half_open"
        BY <2>1, <2>7, <3>1
      <4>2. access.state = "open"
        BY <1>0, <4>1 DEF Probing, BreakerInv, ClosedWithoutProbe, Row, States
      <4> QED BY <2>1, <2>4, <4>1, <4>2 DEF ProbesCovered, ProbeCovered, BreakerInv
    <3> QED BY <2>7, <3>1 DEF ProbesCovered, OneProbe, BreakerInv
  <2> QED BY <2>2, <2>3, <2>5, <2>6, <2>8 DEF BreakerInv
<1> QED BY <1>1, <1>2

\* A failure: the wait it writes outlasts the deadline of whatever probe is out.
LEMMA FailureKeeps ==
  ASSUME BreakerInv, NEW w \in Operations, RecordFailure(w), UNCHANGED contract
  PROVE  BreakerInv'
<1>0. /\ TypeOK /\ clock \in Nat /\ access \in Row /\ op[w] \in Budget
      /\ access.generation \in Nat \cup {-1} /\ access.failures \in Nat
      /\ op[w].advice \in Nat /\ op[w].requests \in Nat /\ op[w].since \in Nat
  BY RowTypes, OpTypes DEF BreakerInv, Budget
<1> DEFINE limited == op[w].result = "limited"
           count   == IF limited THEN 0 ELSE Least(Sent(w), 3)
           opens   == Opens(limited, count, op[w].advice)
<1>1. limited \in BOOLEAN /\ count \in Nat
  BY <1>0 DEF RecordFailure, Recorded, Sent, Least
<1>2. access' = FailedRow(limited, count, op[w].advice, clock)
  BY DEF RecordFailure
<1>3. access' \in Row
  BY <1>0, <1>1, <1>2, FailedType
<1>4. /\ access'.generation = access.generation + 1
      /\ opens => access'.state = "open" /\ access'.openedUntil >= clock + CoolTime
      /\ ~opens => access'.state = "closed"
  BY <1>0, <1>2, NumbersAssumption DEF FailedRow, Latest
<1>5. access'.failures >= Threshold => opens
  BY <1>0, <1>1, <1>2, NumbersAssumption DEF FailedRow, Opens
<1> HIDE DEF limited, count, opens
<1>6. /\ Moves(w) /\ pc'[w] = "ended" /\ op'[w].ack = 0
      /\ op'[w].generation = op[w].generation /\ op'[w].started = op[w].started
  <2> DEFINE b == [op[w] EXCEPT !.result = "none", !.ack = 0]
  <2>1. /\ b \in Budget /\ b.ack = 0
        /\ b.generation = op[w].generation /\ b.started = op[w].started
    BY <1>0 DEF Budget, Results
  <2>2. op' = [op EXCEPT ![w] = b]
    BY <1>0 DEF RecordFailure, Closed, TypeOK
  <2> HIDE DEF b
  <2>3. Moves(w) /\ op'[w] = b /\ pc'[w] = "ended"
    BY <1>0, <2>1, <2>2, MovesTo DEF RecordFailure, Steps
  <2> QED BY <2>1, <2>3
<1>7. /\ clock' = clock /\ overtaken' = Operations /\ pc[w] # "idle"
      /\ probes' = IF access'.state = "closed" THEN {} ELSE probes
      /\ \A v \in Operations : v # w => pc'[v] = pc[v] /\ op'[v] = op[v]
  BY <1>6 DEF RecordFailure, Moves
<1>8. TypeOK'
  BY <1>0, <1>3, <1>6, <1>7 DEF Moves, TypeOK
<1>9. ClosedWithoutProbe' /\ HalfOpenIsDue' /\ TripsAtThreshold' /\ ProbeAnswersLater'
  BY <1>4, <1>5, <1>7
     DEF ClosedWithoutProbe, HalfOpenIsDue, TripsAtThreshold, ProbeAnswersLater, Receipts
<1>10. \A v \in Operations :
         /\ op'[v].started = op[v].started /\ op'[v].generation = op[v].generation
         /\ op'[v].ack \in {0, op[v].ack}
         /\ op[v].started \in Nat /\ op[v].started <= clock /\ op[v].ack <= clock
         /\ op[v].generation \in Nat \cup {-1} /\ op[v].generation <= access.generation
  BY <1>0, <1>6, <1>7, OpTypes DEF RememberedIsPast, BreakerInv
<1>11. RememberedIsPast'
  BY <1>0, <1>4, <1>7, <1>10 DEF RememberedIsPast
<1>12. LatestNotOvertaken'
  BY <1>0, <1>4, <1>10 DEF LatestNotOvertaken, Acknowledges
<1>13. \A v \in Operations : Probing(v)' => Probing(v) /\ access'.state = "open"
  BY <1>4, <1>7, <1>10 DEF Probing, InTime
<1>14. ASSUME NEW v \in Operations, Probing(v)' PROVE ProbeCovered(v)'
  <2>1. access'.state = "open" /\ access'.openedUntil >= clock + CoolTime
    BY <1>4, <1>13, <1>14
  <2>2. op'[v].started + Deadline <= clock + CoolTime
    BY <1>0, <1>10, NumbersAssumption
  <2>3. access'.openedUntil \in Nat /\ op'[v].started \in Nat
    BY <1>3, <1>10 DEF Row
  <2> QED BY <1>0, <2>1, <2>2, <2>3, NumbersAssumption DEF ProbeCovered
<1>15. ProbesCovered' /\ OneProbe'
  BY <1>13, <1>14 DEF ProbesCovered, OneProbe, BreakerInv
<1> QED BY <1>8, <1>9, <1>11, <1>12, <1>15 DEF BreakerInv

LEMMA TickKeeps ==
  ASSUME BreakerInv, Tick, UNCHANGED contract
  PROVE  BreakerInv'
<1>0. /\ TypeOK /\ clock \in Nat /\ clock' = clock + 1
      /\ access \in Row /\ access.openedUntil \in Nat /\ access.retryNotBefore \in Nat
      /\ \A v \in Operations : op[v].started \in Nat /\ op[v].ack \in Nat
      /\ UNCHANGED <<access, pc, op, probes, overtaken>>
  BY RowTypes, OpTypes DEF BreakerInv, Tick
<1>1. TypeOK'
  BY <1>0 DEF TypeOK
<1>2. ClosedWithoutProbe' /\ HalfOpenIsDue' /\ TripsAtThreshold' /\ ProbeAnswersLater'
  BY <1>0 DEF BreakerInv, ClosedWithoutProbe, HalfOpenIsDue, TripsAtThreshold,
              ProbeAnswersLater, Receipts, Acknowledges
<1>3. RememberedIsPast' /\ LatestNotOvertaken'
  BY <1>0 DEF BreakerInv, RememberedIsPast, LatestNotOvertaken, Acknowledges
<1>4. \A v \in Operations : Probing(v)' => Probing(v)
  BY <1>0, NumbersAssumption DEF Probing, InTime
<1>5. ProbesCovered' /\ OneProbe'
  BY <1>0, <1>4 DEF BreakerInv, ProbesCovered, ProbeCovered, OneProbe
<1> QED BY <1>1, <1>2, <1>3, <1>5 DEF BreakerInv

LEMMA BreakerStep ==
  ASSUME BreakerInv, [Next]_vars
  PROVE  BreakerInv'
<1>1. CASE UNCHANGED vars
  BY <1>1 DEF vars, BreakerInv, TypeOK, ClosedWithoutProbe, HalfOpenIsDue, RememberedIsPast,
              LatestNotOvertaken, Acknowledges, ProbesCovered, ProbeCovered, Probing, InTime,
              ProbeAnswersLater, Receipts, TripsAtThreshold, OneProbe
<1>2. CASE Next
  <2>0. UNCHANGED contract
    BY <1>2 DEF Next
  <2>2. CASE Tick
    BY <2>0, <2>2, TickKeeps
  <2>3. ASSUME NEW w \in Operations, Admit(w) PROVE BreakerInv'
    BY <2>0, <2>3, AdmitKeeps
  <2>4. ASSUME NEW w \in Operations, RecordSuccess(w) \/ FinishFails(w) PROVE BreakerInv'
    BY <2>0, <2>4, AcknowledgingSteps, AcknowledgeKeeps DEF BreakerInv
  <2>5. ASSUME NEW w \in Operations, RecordFailure(w) PROVE BreakerInv'
    BY <2>0, <2>5, FailureKeeps
  <2>6. ASSUME NEW w \in Operations,
               \/ Begin(w) \/ Refuse(w) \/ Send(w) \/ Exhaust(w) \/ Answered(w)
               \/ DropSuccess(w) \/ Finish(w) \/ RecordNothing(w) \/ NextPart(w) \/ Leave(w)
        PROVE  BreakerInv'
    BY <2>0, <2>6, QuietSteps, QuietKeeps
  <2> QED BY <1>2, <2>2, <2>3, <2>4, <2>5, <2>6 DEF Next, Requesting, Recording
<1> QED BY <1>2, <1>1

\* A step that moves the row together with an operation that has its payload
\* is a success of that operation, and counts.
LEMMA SuccessMoves ==
  ASSUME BreakerInv, [Next]_vars
  PROVE  [\A w \in Operations :
            pc[w] \in {"validated", "finishing"} /\ pc'[w] # pc[w] /\ access' # access =>
              /\ w \notin overtaken
              /\ access.retryNotBefore > clock =>
                   access'.state = "open" /\ access'.retryNotBefore = access.retryNotBefore]_vars
<1> SUFFICES ASSUME Next, NEW w \in Operations, pc[w] \in {"validated", "finishing"},
                    pc'[w] # pc[w], access' # access
             PROVE  /\ w \notin overtaken
                    /\ access.retryNotBefore > clock =>
                         /\ access'.state = "open"
                         /\ access'.retryNotBefore = access.retryNotBefore
  OBVIOUS
<1>0. TypeOK
  BY DEF BreakerInv
<1>1. PICK v \in Operations :
        Begin(v) \/ Requesting(v) \/ Answered(v) \/ Recording(v) \/ NextPart(v) \/ Leave(v)
  BY DEF Next, Tick
<1>2. Admit(v) \/ RecordSuccess(v) \/ FinishFails(v) \/ RecordFailure(v)
  <2>1. ASSUME Quiet(v) PROVE FALSE
    BY <2>1 DEF Quiet
  <2> QED BY <1>1, <2>1, QuietSteps DEF Requesting, Recording
<1>3. v = w
  BY <1>0, <1>2 DEF TypeOK, Admit, RecordSuccess, FinishFails, RecordFailure, Goto
<1>4. Acknowledging(w)
  BY <1>0, <1>2, <1>3, AcknowledgingSteps DEF Admit, MayReserve, RecordFailure
<1>5. Acknowledges(w)
  BY <1>4 DEF Acknowledging, Acknowledge
<1> QED BY <1>4, <1>5, AcknowledgedRow DEF BreakerInv, LatestNotOvertaken

-----------------------------------------------------------------------------
(* The theorems *)

\* The inductive invariant holds in every reachable state of the row and its
\* operations (claim_source_access_probe and the two record statements).
THEOREM BreakerHolds == Spec => []BreakerInv
<1>1. Init => BreakerInv
  BY BreakerInit
<1>2. BreakerInv /\ [Next]_vars => BreakerInv'
  BY BreakerStep
<1> QED BY <1>1, <1>2, PTL DEF Spec

\* Row and budgets stay well-typed.
THEOREM BreakerTyped == Spec => []TypeOK
<1>1. BreakerInv => TypeOK
  BY DEF BreakerInv
<1> QED BY <1>1, BreakerHolds, PTL

\* The lease of claim_source_access_probe admits one probe at a time, and
\* record_source_access_failure does not undo it.
THEOREM ProbesAlone == Spec => []OneProbe
<1>1. BreakerInv => OneProbe
  BY DEF BreakerInv
<1> QED BY <1>1, BreakerHolds, PTL

\* No statement leaves the circuit closed over a full count of failures.
THEOREM ThresholdTrips == Spec => []TripsAtThreshold
<1>1. BreakerInv => TripsAtThreshold
  BY DEF BreakerInv
<1> QED BY <1>1, BreakerHolds, PTL

\* A success moves the row only if nothing happened since its admission
\* (admission_generation in record_source_access_success).
THEOREM OvertakenFenced == Spec => LateSuccessIgnored
<1>1. BreakerInv /\ [Next]_vars =>
        [\A w \in Operations :
           pc[w] \in {"validated", "finishing"} /\ pc'[w] # pc[w] /\ access' # access =>
             w \notin overtaken]_vars
  BY SuccessMoves
<1> QED BY <1>1, BreakerHolds, PTL DEF Spec, LateSuccessIgnored

\* A publisher's advice outlives the successes of operations admitted before it
\* elapsed (the three CASEs of record_source_access_success).
THEOREM AdviceOutlivesSuccess == Spec => SuccessKeepsAdvice
<1>1. BreakerInv /\ [Next]_vars =>
        [\A w \in Operations :
           /\ pc[w] \in {"validated", "finishing"} /\ pc'[w] # pc[w] /\ access' # access
           /\ access.retryNotBefore > clock
           => access'.state = "open" /\ access'.retryNotBefore = access.retryNotBefore]_vars
  BY SuccessMoves
<1> QED BY <1>1, BreakerHolds, PTL DEF Spec, SuccessKeepsAdvice

\* Where timestamps are text, provider_eligibility and the WHERE of the claim
\* agree on every reachable row.
THEOREM PeekIsAdmission == TextTimes => (Spec => []PeekAgrees)
<1> SUFFICES ASSUME TextTimes PROVE Spec => []PeekAgrees
  OBVIOUS
<1>1. BreakerInv => PeekAgrees
  <2> SUFFICES ASSUME BreakerInv PROVE PeekEligible(clock) <=> Admissible(clock)
    BY DEF PeekAgrees
  <2>1. /\ access.state \in States /\ clock \in Nat
        /\ access.openedUntil \in Nat /\ access.retryNotBefore \in Nat
        /\ access.probeUntil \in Nat
    BY RowTypes DEF BreakerInv
  <2>2. HalfOpenIsDue
    BY DEF BreakerInv
  <2> QED BY <2>1, <2>2 DEF PeekEligible, Admissible, Seen, Latest, States, HalfOpenIsDue
<1> QED BY <1>1, BreakerHolds, PTL
=============================================================================
