------------------------ MODULE ProviderFetchProofs ------------------------
(* Proofs about ProviderFetch, for any fetches, hosts, caps, answers and      *)
(* numbers of slots: every slot comes back or is known to be lost, a planned  *)
(* unit is served unless redirects spent the budget, and what ends as ok is   *)
(* whole.                                                                    *)
(*                                                                          *)
(* The three need one inductive invariant.  A thread that is not idle works   *)
(* for a run that has not ended, at a unit of its plan that is busy and that  *)
(* no other thread has; it has counted at most one request for each attempt.  *)
(* A thread therefore never outlives its fetch, which is what makes the slots *)
(* of the ended fetches come back, and no unit reaches its own cap.           *)
EXTENDS ProviderFetch, FiniteSetTheorems, TLAPS

States == {"running", "ended"}
Results == {"ok", "partial", "error", "unknown", None}
Endings == Answers \cup {"saved", "overdue", "persistence", "freshness", "deadline",
                         "exhausted", "stranded", "denied", "redirects"}
Statuses == Pending \cup {"cancelled"} \cup Endings
Steps == {"idle", "wait", "granted", "sent", "parsed", "stored"}
Run(f) ==
  [state : States, round : Nat, late : BOOLEAN, admitted : BOOLEAN,
   plan : SUBSET Ops[f].units, work : [Ops[f].units -> Statuses], requests : Nat,
   counted : [Ops[f].units -> Nat], parts : Int, marked : BOOLEAN, result : Results]
Task == [pc : Steps, unit : Nat, host : Hosts \cup {None}, hops : Nat, attempt : Nat]

Typed(f) ==
  /\ op[f] \in Run(f) /\ thread[f] \in [Threads(f) -> Task]
  /\ stored[f] \subseteq Ops[f].units /\ fresh[f] \subseteq Ops[f].units

TypeOK ==
  /\ free \in [Hosts -> Nat] /\ lost \in [Hosts -> Nat]
  /\ Fetches = DOMAIN op /\ Fetches = DOMAIN thread
  /\ Fetches = DOMAIN stored /\ Fetches = DOMAIN fresh
  /\ \A f \in Fetches : Typed(f)

----------------------------------------------------------------------------
\* What a thread that is not idle has in hand.
Busy(f, i) == thread[f][i].pc # "idle"
AtWork(f, i) ==
  LET t == thread[f][i]
  IN  /\ op[f].state = "running"
      /\ t.unit \in op[f].plan /\ op[f].work[t.unit] = "busy" /\ t.host \in Hosts
      /\ t.attempt \in 1..Ops[f].attempts /\ op[f].counted[t.unit] <= t.attempt
      /\ t.pc \in {"wait", "granted"} /\ t.hops = 0 => op[f].counted[t.unit] < t.attempt
      /\ t.pc = "stored" => t.unit \in stored[f]

\* The threads of a fetch: each at work, at a unit of its own, and the only one
\* of a fetch stops with a failure.
ThreadsAtWork(f) ==
  /\ \A i \in Threads(f) : Busy(f, i) => AtWork(f, i)
  /\ \A i, j \in Threads(f) :
       Busy(f, i) /\ Busy(f, j) /\ i # j => thread[f][i].unit # thread[f][j].unit
  /\ Ops[f].threads = 1 /\ Stopped(f) => \A i \in Threads(f) : ~Busy(f, i)

\* The units of a run: none planned is left out, one is cancelled only after a
\* failure, what is saved is in the database, and a unit counts no request before
\* it is taken and none beyond its cap.
UnitsSound(f) ==
  /\ \A u \in op[f].plan :
       /\ op[f].work[u] # "left"
       /\ op[f].work[u] = "cancelled" => Stopped(f)
       /\ op[f].work[u] = "saved" => u \in stored[f]
       /\ op[f].work[u] = "todo" => op[f].counted[u] = 0
       /\ op[f].work[u] = "exhausted" => op[f].requests > Cardinality(UnitRequests(f))
  /\ \A u \in Ops[f].units :
       /\ op[f].counted[u] <= Ops[f].unitCap
       /\ u \notin op[f].plan => op[f].counted[u] = 0

\* A run has a result when it ended, and an ok one is whole.
Whole(f) ==
  \A u \in op[f].plan : \/ op[f].work[u] = "empty"
                        \/ op[f].work[u] = "saved" /\ u \in stored[f]
ResultSound(f) ==
  /\ op[f].state = "running" => op[f].result = None
  /\ op[f].result = "ok" => Whole(f)

FetchInv(f) == ThreadsAtWork(f) /\ UnitsSound(f) /\ ResultSound(f)

\* The slots: free, with a thread, or lost.
AllTasks == UNION {{<<f, i>> : i \in Threads(f)} : f \in Fetches}
Holders(h) == {t \in AllTasks : Holds(t[1], t[2], h)}
Balance == \A h \in Hosts : free[h] + lost[h] + Cardinality(Holders(h)) = Slots

IInv == TypeOK /\ (\A f \in Fetches : FetchInv(f)) /\ Balance

----------------------------------------------------------------------------
\* What is known of a fetch.
LEMMA Settings ==
  ASSUME NEW f \in Fetches
  PROVE  /\ Ops[f].units \in SUBSET Nat /\ 0 \notin Ops[f].units /\ IsFiniteSet(Ops[f].units)
         /\ Ops[f].threads \in 1..2 /\ Threads(f) \subseteq 1..2 /\ Ops[f].host \in Hosts
         /\ Ops[f].attempts \in Nat \ {0} /\ Ops[f].unitCap \in Nat \ {0}
         /\ Ops[f].attempts <= Ops[f].unitCap
         /\ Ops[f].answers \subseteq Answers /\ Ops[f].retried \subseteq Ops[f].answers
         /\ Rounds[f] \in Nat /\ Ops[f].async \in BOOLEAN
<1>1. Ops[f] \in OpType /\ Rounds[f] \in Nat
  BY FetchAssumption
<1>2. /\ 0 \notin Ops[f].units /\ IsFiniteSet(Ops[f].units)
      /\ Ops[f].attempts <= Ops[f].unitCap /\ Ops[f].retried \subseteq Ops[f].answers
  BY FetchAssumption
<1>3. /\ Ops[f].units \in SUBSET Nat /\ Ops[f].threads \in 1..2 /\ Ops[f].host \in Hosts
      /\ Ops[f].attempts \in Nat \ {0} /\ Ops[f].unitCap \in Nat \ {0}
      /\ Ops[f].answers \subseteq Answers /\ Ops[f].async \in BOOLEAN
  BY <1>1 DEF OpType
<1> QED BY <1>1, <1>2, <1>3 DEF Threads

LEMMA Numbers ==
  Slots \in Nat \ {0} /\ MaxRedirects \in Nat \ {0} /\ IsFiniteSet(Fetches)
  /\ None \notin {"ok", "partial", "error", "unknown"}
BY FetchAssumption

----------------------------------------------------------------------------
\* The state of one fetch.

LEMMA Here ==
  ASSUME IInv, NEW f \in Fetches
  PROVE  /\ Typed(f) /\ FetchInv(f) /\ TypeOK
         /\ \A i \in Threads(f) : thread[f][i] \in Task /\ (Busy(f, i) => AtWork(f, i))
BY DEF IInv, TypeOK, Typed, FetchInv, ThreadsAtWork

\* A step that leaves a fetch alone keeps what holds of it.
LEMMA Elsewhere ==
  ASSUME NEW f \in Fetches, Typed(f), FetchInv(f), op'[f] = op[f], thread'[f] = thread[f],
         stored'[f] = stored[f], fresh'[f] = fresh[f]
  PROVE  Typed(f)' /\ FetchInv(f)'
<1>1. Typed(f)'
  BY DEF Typed
<1>2. Stopped(f)' = Stopped(f) /\ UnitRequests(f)' = UnitRequests(f)
  BY DEF Stopped, Fatal, Failed, UnitRequests
<1>3. ThreadsAtWork(f)'
  BY <1>2 DEF FetchInv, ThreadsAtWork, Busy, AtWork
<1>4. UnitsSound(f)'
  BY <1>2 DEF FetchInv, UnitsSound
<1>5. ResultSound(f)'
  BY DEF FetchInv, ResultSound, Whole
<1> QED BY <1>1, <1>3, <1>4, <1>5 DEF FetchInv

\* What a step of one fetch leaves alone.
OthersStay(f) ==
  /\ Fetches = DOMAIN op' /\ Fetches = DOMAIN thread'
  /\ Fetches = DOMAIN stored' /\ Fetches = DOMAIN fresh'
  /\ \A g \in Fetches \ {f} : /\ op'[g] = op[g] /\ thread'[g] = thread[g]
                              /\ stored'[g] = stored[g] /\ fresh'[g] = fresh[g]

LEMMA OneFetchSteps ==
  ASSUME IInv, NEW f \in Fetches, OthersStay(f), Typed(f)', FetchInv(f)',
         free' \in [Hosts -> Nat], lost' \in [Hosts -> Nat]
  PROVE  TypeOK' /\ \A g \in Fetches : FetchInv(g)'
<1>1. ASSUME NEW g \in Fetches PROVE Typed(g)' /\ FetchInv(g)'
  <2>1. CASE g = f
    BY <2>1
  <2>2. CASE g # f
    <3>1. Typed(g) /\ FetchInv(g)
      BY Here
    <3>2. /\ op'[g] = op[g] /\ thread'[g] = thread[g]
          /\ stored'[g] = stored[g] /\ fresh'[g] = fresh[g]
      BY <2>2 DEF OthersStay
    <3> QED BY <3>1, <3>2, Elsewhere
  <2> QED BY <2>1, <2>2
<1>2. TypeOK'
  BY <1>1 DEF OthersStay, TypeOK
<1> QED BY <1>1, <1>2

\* One thread is given another state.
LEMMA OneThread ==
  ASSUME TypeOK, NEW f \in Fetches, NEW i \in Threads(f), NEW t \in Task, SetThread(f, i, t)
  PROVE  /\ Fetches = DOMAIN thread' /\ thread'[f] \in [Threads(f) -> Task]
         /\ thread'[f][i] = t /\ \A j \in Threads(f) \ {i} : thread'[f][j] = thread[f][j]
         /\ \A g \in Fetches \ {f} : thread'[g] = thread[g]
<1>1. thread[f] \in [Threads(f) -> Task] /\ Fetches = DOMAIN thread
  BY DEF TypeOK, Typed
<1>2. thread' = [thread EXCEPT ![f] = [thread[f] EXCEPT ![i] = t]]
  BY DEF SetThread
<1> QED BY <1>1, <1>2

----------------------------------------------------------------------------
\* The slots in hand.

HasOf(t, h) == IF t.host = h /\ t.pc \in {"granted", "sent"} THEN 1 ELSE 0

LEMMA TasksFinite == IsFiniteSet(AllTasks) /\ \A h : IsFiniteSet(Holders(h))
<1>1. IsFiniteSet(1..2)
  <2>1. \A a, b \in Int : IsFiniteSet(a..b)
    BY FS_Interval
  <2>2. 1 \in Int /\ 2 \in Int
    OBVIOUS
  <2> QED BY <2>1, <2>2, Zenon
<1>2. IsFiniteSet(Fetches \X (1..2))
  BY <1>1, Numbers, FS_Product
<1>3. AllTasks \subseteq Fetches \X (1..2)
  BY Settings DEF AllTasks
<1>4. IsFiniteSet(AllTasks)
  BY <1>2, <1>3, FS_Subset
<1>5. ASSUME NEW h PROVE IsFiniteSet(Holders(h))
  <2>1. Holders(h) \in SUBSET AllTasks
    BY DEF Holders
  <2> QED BY <1>4, <2>1, FS_Subset
<1> QED BY <1>4, <1>5

\* When one thread is given another state, a host's count changes by that thread.
LEMMA Recount ==
  ASSUME TypeOK, NEW f \in Fetches, NEW i \in Threads(f), NEW t \in Task, SetThread(f, i, t),
         NEW h \in Hosts
  PROVE  /\ Cardinality(Holders(h)) \in Nat
         /\ Cardinality(Holders(h)') = Cardinality(Holders(h)) - HasOf(thread[f][i], h) + HasOf(t, h)
<1> DEFINE x == <<f, i>>
           H == Holders(h)
           K == H \ {x}
<1>1. IsFiniteSet(H) /\ x \in AllTasks
  BY TasksFinite DEF AllTasks
<1>2. Cardinality(H) \in Nat
  BY <1>1, FS_CardinalityType
<1>3. x \in H <=> HasOf(thread[f][i], h) = 1
  BY <1>1 DEF Holders, Holds, HasOf
<1>4. Holders(h)' = IF HasOf(t, h) = 1 THEN K \cup {x} ELSE K
  <2>1. ASSUME NEW g \in Fetches, NEW j \in Threads(g), <<g, j>> # x
        PROVE  thread'[g][j] = thread[g][j]
    BY <2>1, OneThread
  <2>2. thread'[f][i] = t
    BY OneThread
  <2>3. \A y \in AllTasks : \E g \in Fetches : \E j \in Threads(g) : y = <<g, j>>
    BY DEF AllTasks
  <2>4. ASSUME NEW y \in AllTasks, y # x PROVE y \in Holders(h)' <=> y \in H
    BY <2>1, <2>3, <2>4 DEF Holders, Holds
  <2>5. x \in Holders(h)' <=> HasOf(t, h) = 1
    BY <1>1, <2>2 DEF Holders, Holds, HasOf
  <2>6. H \subseteq AllTasks /\ Holders(h)' \subseteq AllTasks
    BY DEF Holders
  <2> HIDE DEF H, x
  <2> QED BY <2>4, <2>5, <2>6
<1> HIDE DEF H, x
<1>5. /\ IsFiniteSet(K)
      /\ Cardinality(K) = IF x \in H THEN Cardinality(H) - 1 ELSE Cardinality(H)
  BY <1>1, FS_RemoveElement
<1>6. Cardinality(K \cup {x}) = Cardinality(K) + 1
  <2>1. x \notin K
    OBVIOUS
  <2> QED BY <1>5, <2>1, FS_AddElement
<1> DEFINE a == Cardinality(H)
           b == Cardinality(K)
<1>7. Cardinality(Holders(h)') = IF HasOf(t, h) = 1 THEN b + 1 ELSE b
  BY <1>4, <1>6
<1>8. b = IF x \in H THEN a - 1 ELSE a
  BY <1>5
<1>9. HasOf(t, h) \in {0, 1} /\ HasOf(thread[f][i], h) \in {0, 1}
  BY DEF HasOf
<1> HIDE DEF a, b, K
<1> QED BY <1>2, <1>3, <1>7, <1>8, <1>9 DEF H, a

\* The slots are in balance after a step of one thread that takes from the free
\* and the lost ones what it has more, and gives back what it has less.
LEMMA StaysInBalance ==
  ASSUME TypeOK, Balance, NEW f \in Fetches, NEW i \in Threads(f), NEW t \in Task,
         SetThread(f, i, t),
         \A h \in Hosts : /\ free'[h] \in Nat /\ lost'[h] \in Nat
                          /\ free'[h] + lost'[h] + HasOf(t, h)
                               = free[h] + lost[h] + HasOf(thread[f][i], h)
  PROVE  Balance'
<1> SUFFICES ASSUME NEW h \in Hosts
             PROVE  free'[h] + lost'[h] + Cardinality(Holders(h)') = Slots
  BY DEF Balance
<1>1. /\ Cardinality(Holders(h)) \in Nat
      /\ Cardinality(Holders(h)') = Cardinality(Holders(h)) - HasOf(thread[f][i], h) + HasOf(t, h)
  BY Recount
<1>2. free[h] \in Nat /\ lost[h] \in Nat /\ free[h] + lost[h] + Cardinality(Holders(h)) = Slots
  BY DEF Balance, TypeOK
<1>3. HasOf(t, h) \in {0, 1} /\ HasOf(thread[f][i], h) \in {0, 1}
  BY DEF HasOf
<1> QED BY <1>1, <1>2, <1>3

\* And after a step that leaves the threads and the slots alone.
LEMMA BalanceKept ==
  ASSUME Balance, thread' = thread, free' = free, lost' = lost
  PROVE  Balance'
<1>1. \A h \in Hosts : Holders(h)' = Holders(h)
  BY DEF Holders, Holds
<1> QED BY <1>1 DEF Balance

----------------------------------------------------------------------------
\* The two ways in which a step of a thread changes its fetch.

\* The fetch of a thread that keeps its unit: its run changes in what it counted
\* and stored, and counts no more than the attempts of the unit.
LEMMA MovesOn ==
  ASSUME IInv, NEW f \in Fetches, NEW i \in Threads(f), Busy(f, i),
         NEW t \in Task, SetThread(f, i, t), t.pc # "idle", t.unit = thread[f][i].unit,
         t.host \in Hosts, t.attempt \in 1..Ops[f].attempts,
         op'[f] \in Run(f), op'[f].state = op[f].state, op'[f].plan = op[f].plan,
         op'[f].work = op[f].work, op'[f].result = op[f].result,
         \A u \in Ops[f].units \ {t.unit} : op'[f].counted[u] = op[f].counted[u],
         op'[f].counted[t.unit] <= t.attempt,
         t.pc \in {"wait", "granted"} /\ t.hops = 0 => op'[f].counted[t.unit] < t.attempt,
         op[f].requests > Cardinality(UnitRequests(f))
           => op'[f].requests > Cardinality(UnitRequests(f)'),
         stored[f] \subseteq stored'[f], stored'[f] \subseteq Ops[f].units,
         t.pc = "stored" => t.unit \in stored'[f], fresh'[f] = fresh[f]
  PROVE  Typed(f)' /\ FetchInv(f)'
<1>1. /\ Typed(f) /\ FetchInv(f) /\ AtWork(f, i) /\ thread[f][i] \in Task
      /\ \A j \in Threads(f) : thread[f][j] \in Task /\ (Busy(f, j) => AtWork(f, j))
  BY Here
<1>2. /\ thread'[f] \in [Threads(f) -> Task] /\ thread'[f][i] = t
      /\ \A j \in Threads(f) \ {i} : thread'[f][j] = thread[f][j]
  BY OneThread DEF IInv
<1>3. Typed(f)'
  BY <1>1, <1>2 DEF Typed
<1>4. Stopped(f)' = Stopped(f)
  BY DEF Stopped, Fatal, Failed
<1>5. ThreadsAtWork(f)'
  <2>1. AtWork(f, i)'
    BY <1>1, <1>2 DEF AtWork
  <2>2. ASSUME NEW j \in Threads(f), j # i, Busy(f, j)
        PROVE  AtWork(f, j)' /\ thread[f][j].unit # t.unit
    <3>1. thread[f][j].unit # t.unit
      BY <1>1, <2>2 DEF FetchInv, ThreadsAtWork
    <3>2. thread[f][j].unit \in Ops[f].units
      BY <1>1, <2>2 DEF AtWork, Typed, Run
    <3>3. op'[f].counted[thread[f][j].unit] = op[f].counted[thread[f][j].unit]
      BY <3>1, <3>2
    <3>4. thread'[f][j] = thread[f][j] /\ AtWork(f, j)
      BY <1>1, <1>2, <2>2
    <3> QED BY <3>1, <3>3, <3>4 DEF AtWork
  <2>3. \A j \in Threads(f) : Busy(f, j)' <=> Busy(f, j)
    BY <1>2 DEF Busy
  <2> QED BY <1>1, <1>2, <1>4, <2>1, <2>2, <2>3 DEF FetchInv, ThreadsAtWork
<1>6. UnitsSound(f)'
  <2>1. ASSUME NEW u \in op[f].plan, op[f].work[u] = "todo" PROVE op'[f].counted[u] = 0
    <3>1. u # t.unit /\ u \in Ops[f].units
      BY <1>1, <2>1 DEF AtWork, Typed, Run
    <3> QED BY <1>1, <2>1, <3>1 DEF FetchInv, UnitsSound
  <2>2. ASSUME NEW u \in Ops[f].units
        PROVE  /\ op'[f].counted[u] <= Ops[f].unitCap
               /\ u \notin op[f].plan => op'[f].counted[u] = 0
    <3>1. CASE u = t.unit
      <4>1. t.unit \in op[f].plan
        BY <1>1 DEF AtWork
      <4>2. op'[f].counted[u] \in Nat /\ t.attempt \in Nat
        BY DEF Run, Task
      <4> QED BY <3>1, <4>1, <4>2, Settings
    <3>2. CASE u # t.unit
      BY <1>1, <3>2 DEF FetchInv, UnitsSound
    <3> QED BY <3>1, <3>2
  <2> QED BY <1>1, <1>4, <2>1, <2>2 DEF FetchInv, UnitsSound
<1>7. ResultSound(f)'
  BY <1>1 DEF FetchInv, ResultSound, Whole
<1> QED BY <1>3, <1>5, <1>6, <1>7 DEF FetchInv

\* The fetch of a thread that leaves its unit in another state.
LEMMA Settles ==
  ASSUME IInv, NEW f \in Fetches, NEW i \in Threads(f), Busy(f, i), NEW s \in Endings,
         Settle(f, i, s),
         s = "saved" => thread[f][i].unit \in stored[f],
         s = "exhausted" => op[f].requests > Cardinality(UnitRequests(f)),
         stored' = stored, Fetches = DOMAIN fresh', fresh'[f] \subseteq Ops[f].units,
         \A g \in Fetches \ {f} : fresh'[g] = fresh[g]
  PROVE  Typed(f)' /\ FetchInv(f)' /\ OthersStay(f) /\ SetThread(f, i, Idle) /\ Idle \in Task
<1> DEFINE v == thread[f][i].unit
<1>1. /\ Typed(f) /\ FetchInv(f) /\ AtWork(f, i) /\ thread[f][i] \in Task
      /\ \A j \in Threads(f) : thread[f][j] \in Task /\ (Busy(f, j) => AtWork(f, j))
      /\ TypeOK
  BY Here
<1>2. Idle \in Task /\ SetThread(f, i, Idle) /\ Idle.pc = "idle"
  BY DEF Idle, Task, Steps, Settle
<1>3. /\ thread'[f] \in [Threads(f) -> Task] /\ thread'[f][i] = Idle
      /\ \A j \in Threads(f) \ {i} : thread'[f][j] = thread[f][j]
      /\ Fetches = DOMAIN thread' /\ \A g \in Fetches \ {f} : thread'[g] = thread[g]
  BY <1>1, <1>2, OneThread
<1>4. op[f] \in Run(f) /\ v \in op[f].plan /\ op[f].work[v] = "busy" /\ op[f].state = "running"
  BY <1>1 DEF AtWork, Typed
<1> s \in Statuses /\ s \notin {"left", "todo", "busy", "cancelled"}
  BY DEF Statuses, Endings, Answers
<1>5. /\ Fetches = DOMAIN op' /\ \A g \in Fetches \ {f} : op'[g] = op[g]
      /\ op'[f] = [op[f] EXCEPT !.work = [op[f].work EXCEPT ![v] = s]]
  BY <1>1, <1>4 DEF Settle, TypeOK
<1> HIDE DEF v
<1>6. /\ op'[f] \in Run(f) /\ op'[f].state = "running" /\ op'[f].plan = op[f].plan
      /\ op'[f].requests = op[f].requests /\ op'[f].counted = op[f].counted
      /\ op'[f].result = op[f].result
      /\ op'[f].work[v] = s /\ \A u \in Ops[f].units \ {v} : op'[f].work[u] = op[f].work[u]
  BY <1>4, <1>5 DEF Run
<1>7. Typed(f)'
  BY <1>1, <1>3, <1>6 DEF Typed
<1>8. OthersStay(f)
  BY <1>1, <1>3, <1>5 DEF OthersStay, TypeOK
<1>9. op[f].plan \subseteq Ops[f].units
  BY <1>4 DEF Run
<1>10. Stopped(f) => Stopped(f)'
  BY <1>4, <1>6, <1>9 DEF Stopped, Fatal, Failed, Pending
<1>11. ThreadsAtWork(f)'
  <2>1. ASSUME NEW j \in Threads(f), Busy(f, j)' PROVE j # i /\ Busy(f, j) /\ thread'[f][j] = thread[f][j]
    BY <1>2, <1>3, <2>1 DEF Busy
  <2>2. ASSUME NEW j \in Threads(f), Busy(f, j)' PROVE AtWork(f, j)'
    <3>1. AtWork(f, j) /\ thread[f][j].unit # v
      BY <1>1, <2>1, <2>2 DEF FetchInv, ThreadsAtWork, v
    <3>2. thread[f][j].unit \in Ops[f].units
      BY <1>9, <3>1 DEF AtWork
    <3> QED BY <1>6, <2>1, <2>2, <3>1, <3>2 DEF AtWork
  <2>3. Ops[f].threads = 1 => \A j \in Threads(f) : ~Busy(f, j)'
    BY <2>1 DEF Threads
  <2>4. \A j, k \in Threads(f) : Busy(f, j)' /\ Busy(f, k)' /\ j # k
          => thread'[f][j].unit # thread'[f][k].unit
    BY <1>1, <2>1 DEF FetchInv, ThreadsAtWork
  <2> QED BY <2>2, <2>3, <2>4 DEF ThreadsAtWork
<1>12. UnitsSound(f)'
  <2>1. UnitRequests(f)' = UnitRequests(f)
    BY <1>6 DEF UnitRequests
  <2>2. ASSUME NEW u \in op[f].plan
        PROVE  /\ op'[f].work[u] # "left"
               /\ op'[f].work[u] = "cancelled" => Stopped(f)'
               /\ op'[f].work[u] = "saved" => u \in stored'[f]
               /\ op'[f].work[u] = "todo" => op'[f].counted[u] = 0
               /\ op'[f].work[u] = "exhausted"
                    => op'[f].requests > Cardinality(UnitRequests(f)')
    <3>1. CASE u = v
      BY <1>6, <2>1, <3>1 DEF v
    <3>2. CASE u # v
      BY <1>1, <1>6, <1>9, <1>10, <2>1, <3>2 DEF FetchInv, UnitsSound
    <3> QED BY <3>1, <3>2
  <2> QED BY <1>1, <1>6, <2>2 DEF FetchInv, UnitsSound
<1>13. ResultSound(f)'
  BY <1>1, <1>4, <1>6, Numbers DEF FetchInv, ResultSound
<1> QED BY <1>2, <1>7, <1>8, <1>11, <1>12, <1>13 DEF FetchInv

----------------------------------------------------------------------------
\* The slots after a step: what the thread had in hand went to the free or to the
\* lost ones, less what it has in hand now.
SlotsMove(old, new) ==
  /\ free' \in [Hosts -> Nat] /\ lost' \in [Hosts -> Nat]
  /\ \A h \in Hosts : free'[h] + lost'[h] + HasOf(new, h) = free[h] + lost[h] + HasOf(old, h)

Loses(t) == lost' = [lost EXCEPT ![t.host] = @ + 1]
Occupies(t) == free' = [free EXCEPT ![t.host] = @ - 1]

LEMMA SlotsStay ==
  ASSUME TypeOK, NEW old, NEW new, free' = free, lost' = lost,
         \A h \in Hosts : HasOf(new, h) = HasOf(old, h)
  PROVE  SlotsMove(old, new)
BY DEF SlotsMove, TypeOK

LEMMA SlotReturned ==
  ASSUME TypeOK, NEW old, NEW new, old.pc \in {"granted", "sent"}, old.host \in Hosts,
         new.pc \notin {"granted", "sent"}, lost' = lost, Release(old)
  PROVE  SlotsMove(old, new)
<1>1. \A h \in Hosts : HasOf(new, h) = 0 /\ HasOf(old, h) = IF h = old.host THEN 1 ELSE 0
  BY DEF HasOf
<1>2. \A h \in Hosts : free[h] \in Nat /\ lost[h] \in Nat
  BY DEF TypeOK
<1>3. free' \in [Hosts -> Nat] /\ lost' \in [Hosts -> Nat]
  BY <1>2 DEF TypeOK, Release
<1>4. \A h \in Hosts : free'[h] = IF h = old.host THEN free[h] + 1 ELSE free[h]
  BY DEF TypeOK, Release
<1> QED BY <1>1, <1>2, <1>3, <1>4 DEF SlotsMove

LEMMA SlotLost ==
  ASSUME TypeOK, NEW old, NEW new, old.pc \in {"granted", "sent"}, old.host \in Hosts,
         new.pc \notin {"granted", "sent"}, free' = free, Loses(old)
  PROVE  SlotsMove(old, new)
<1>1. \A h \in Hosts : HasOf(new, h) = 0 /\ HasOf(old, h) = IF h = old.host THEN 1 ELSE 0
  BY DEF HasOf
<1>2. \A h \in Hosts : free[h] \in Nat /\ lost[h] \in Nat
  BY DEF TypeOK
<1>3. free' \in [Hosts -> Nat] /\ lost' \in [Hosts -> Nat]
  BY <1>2 DEF TypeOK, Loses
<1>4. \A h \in Hosts : lost'[h] = IF h = old.host THEN lost[h] + 1 ELSE lost[h]
  BY DEF TypeOK, Loses
<1> QED BY <1>1, <1>2, <1>3, <1>4 DEF SlotsMove

LEMMA SlotTaken ==
  ASSUME TypeOK, NEW old, NEW new, old.pc = "wait", old.host \in Hosts, free[old.host] > 0,
         new.pc \in {"granted", "sent"}, new.host = old.host, lost' = lost, Occupies(old)
  PROVE  SlotsMove(old, new)
<1>1. \A h \in Hosts : HasOf(old, h) = 0 /\ HasOf(new, h) = IF h = old.host THEN 1 ELSE 0
  BY DEF HasOf
<1>2. \A h \in Hosts : free[h] \in Nat /\ lost[h] \in Nat
  BY DEF TypeOK
<1>3. \A h \in Hosts : free'[h] = IF h = old.host THEN free[h] - 1 ELSE free[h]
  BY DEF TypeOK, Occupies
<1>4. free' \in [Hosts -> Nat] /\ lost' \in [Hosts -> Nat]
  BY <1>2 DEF TypeOK, Occupies
<1> QED BY <1>1, <1>2, <1>3, <1>4 DEF SlotsMove

----------------------------------------------------------------------------
\* A step of one thread keeps the invariant if it keeps its fetch and the slots.
LEMMA ThreadStepKeeps ==
  ASSUME IInv, NEW f \in Fetches, NEW i \in Threads(f), NEW t \in Task, SetThread(f, i, t),
         OthersStay(f), Typed(f)', FetchInv(f)', SlotsMove(thread[f][i], t)
  PROVE  IInv'
<1>1. Balance'
  <2>1. \A h \in Hosts : free'[h] \in Nat /\ lost'[h] \in Nat
    BY DEF SlotsMove
  <2> QED BY <2>1, StaysInBalance DEF IInv, SlotsMove
<1>2. TypeOK' /\ \A g \in Fetches : FetchInv(g)'
  BY OneFetchSteps DEF SlotsMove
<1> QED BY <1>1, <1>2 DEF IInv

LEMMA SettledKeeps ==
  ASSUME IInv, NEW f \in Fetches, NEW i \in Threads(f), Busy(f, i), NEW s \in Endings,
         Settle(f, i, s),
         s = "saved" => thread[f][i].unit \in stored[f],
         s = "exhausted" => op[f].requests > Cardinality(UnitRequests(f)),
         SlotsMove(thread[f][i], Idle), stored' = stored, Fetches = DOMAIN fresh',
         fresh'[f] \subseteq Ops[f].units, \A g \in Fetches \ {f} : fresh'[g] = fresh[g]
  PROVE  IInv'
<1>1. /\ Typed(f)' /\ FetchInv(f)' /\ OthersStay(f) /\ SetThread(f, i, Idle)
      /\ Idle \in Task
  BY Settles
<1> QED BY <1>1, ThreadStepKeeps

\* What every step of a busy thread starts from.
LEMMA BusyThread ==
  ASSUME IInv, NEW f \in Fetches, NEW i \in Threads(f), Busy(f, i)
  PROVE  /\ AtWork(f, i) /\ Typed(f) /\ FetchInv(f) /\ TypeOK /\ thread[f][i] \in Task
         /\ thread[f][i].host \in Hosts /\ thread[f][i].unit \in Ops[f].units
         /\ thread[f][i].unit \in op[f].plan /\ op[f] \in Run(f)
         /\ Idle.pc = "idle" /\ fresh[f] \subseteq Ops[f].units /\ Fetches = DOMAIN fresh
<1>1. AtWork(f, i) /\ Typed(f) /\ FetchInv(f) /\ TypeOK /\ thread[f][i] \in Task
  BY Here
<1>2. op[f] \in Run(f) /\ thread[f][i].unit \in op[f].plan /\ op[f].plan \subseteq Ops[f].units
  BY <1>1 DEF AtWork, Typed, Run
<1> QED BY <1>1, <1>2 DEF AtWork, Typed, TypeOK, Idle

----------------------------------------------------------------------------
\* The requests that units counted.

LEMMA OfIntervals ==
  ASSUME NEW n \in Nat
  PROVE  IsFiniteSet(1..n) /\ Cardinality(1..n) = n
<1>1. 1 \in Int /\ n \in Int
  OBVIOUS
<1>2. IsFiniteSet(1..n) /\ Cardinality(1..n) = IF 1 > n THEN 0 ELSE n - 1 + 1
  BY <1>1, FS_Interval, Zenon
<1> QED BY <1>2

LEMMA UnitRequestsAre ==
  ASSUME NEW f \in Fetches, Typed(f), UnitsSound(f)
  PROVE  /\ \A u, n : <<u, n>> \in UnitRequests(f) <=> u \in op[f].plan /\ n \in 1..op[f].counted[u]
         /\ UnitRequests(f) \subseteq op[f].plan \X (1..Ops[f].unitCap)
         /\ IsFiniteSet(op[f].plan) /\ IsFiniteSet(op[f].plan \X (1..Ops[f].unitCap))
         /\ IsFiniteSet(UnitRequests(f)) /\ Cardinality(UnitRequests(f)) \in Nat
         /\ Cardinality(op[f].plan \X (1..Ops[f].unitCap))
              = Cardinality(op[f].plan) * Ops[f].unitCap
<1>1. op[f] \in Run(f) /\ op[f].plan \subseteq Ops[f].units
  BY DEF Typed, Run
<1>2. \A u \in Ops[f].units : /\ op[f].counted[u] \in Nat /\ op[f].counted[u] <= Ops[f].unitCap
                              /\ u \notin op[f].plan => op[f].counted[u] = 0
  BY <1>1 DEF UnitsSound, Run
<1>3. \A u, n : <<u, n>> \in UnitRequests(f) <=> u \in op[f].plan /\ n \in 1..op[f].counted[u]
  BY <1>1, <1>2 DEF UnitRequests
<1>4. Ops[f].unitCap \in Nat /\ IsFiniteSet(Ops[f].units)
  BY Settings
<1>5. IsFiniteSet(op[f].plan)
  BY <1>1, <1>4, FS_Subset
<1> DEFINE I == 1..Ops[f].unitCap
           P == op[f].plan
<1>6. IsFiniteSet(I) /\ Cardinality(I) = Ops[f].unitCap
  BY <1>4, OfIntervals
<1>7. UnitRequests(f) \subseteq P \X I
  BY <1>1, <1>2, <1>4 DEF UnitRequests
<1> HIDE DEF I, P
<1>8. IsFiniteSet(P \X I) /\ Cardinality(P \X I) = Cardinality(P) * Cardinality(I)
  <2>1. IsFiniteSet(P)
    BY <1>5 DEF P
  <2> QED BY <1>6, <2>1, FS_Product
<1>9. IsFiniteSet(UnitRequests(f))
  BY <1>7, <1>8, FS_Subset
<1>10. Cardinality(UnitRequests(f)) \in Nat
  BY <1>9, FS_CardinalityType
<1> QED BY <1>3, <1>5, <1>6, <1>7, <1>8, <1>9, <1>10 DEF I, P

\* The requests of units that are all within their caps do not reach the cap of
\* the whole while one of the units has one left.
LEMMA RedirectsSpentIt ==
  ASSUME NEW f \in Fetches, Typed(f), UnitsSound(f), NEW u \in op[f].plan,
         op[f].counted[u] < Ops[f].unitCap, op[f].requests >= RootCap(f)
  PROVE  op[f].requests > Cardinality(UnitRequests(f))
<1> DEFINE c == Ops[f].unitCap
           P == op[f].plan
           X == P \X (1..c)
           U == UnitRequests(f)
           S == IF Ops[f].skipsStored THEN op[f].plan ELSE Ops[f].units
           y == <<u, op[f].counted[u] + 1>>
<1>1. op[f] \in Run(f) /\ P \subseteq Ops[f].units /\ c \in Nat /\ IsFiniteSet(Ops[f].units)
      /\ op[f].requests \in Nat
  BY Settings DEF Typed, Run
<1>2. U \subseteq X /\ IsFiniteSet(X) /\ IsFiniteSet(U) /\ Cardinality(X) = Cardinality(P) * c
      /\ IsFiniteSet(P) /\ Cardinality(U) \in Nat
  BY UnitRequestsAre
<1>3. y \in X /\ y \notin U
  <2>1. op[f].counted[u] \in Nat
    BY <1>1 DEF Run
  <2>2. op[f].counted[u] + 1 \in 1..c /\ op[f].counted[u] + 1 \notin 1..op[f].counted[u]
    BY <1>1, <2>1
  <2>3. \A n : <<u, n>> \in U <=> u \in op[f].plan /\ n \in 1..op[f].counted[u]
    BY UnitRequestsAre
  <2> QED BY <2>2, <2>3
<1>4. IsFiniteSet(S) /\ P \subseteq S
  BY <1>1, <1>2
<1>5. op[f].requests >= c * Cardinality(S)
  BY DEF RootCap
<1> HIDE DEF c, P, X, U, S, y
<1>6. Cardinality(U) < Cardinality(X)
  <2>1. /\ Cardinality(U) <= Cardinality(X) /\ Cardinality(X) \in Nat
        /\ Cardinality(X) = Cardinality(U) => X = U
    BY <1>2, FS_Subset, FS_CardinalityType
  <2> QED BY <1>2, <1>3, <2>1
<1>7. Cardinality(P) <= Cardinality(S) /\ Cardinality(P) \in Nat /\ Cardinality(S) \in Nat
  BY <1>2, <1>4, FS_Subset, FS_CardinalityType
<1>8. Cardinality(P) * c <= c * Cardinality(S)
  <2>1. \A a, b, k \in Nat : a <= b => a * k <= k * b
    <3> SUFFICES ASSUME NEW a \in Nat, NEW b \in Nat, NEW k \in Nat, a <= b PROVE a * k <= k * b
      OBVIOUS
    <3>1. k * b = a * k + (b - a) * k /\ (b - a) * k \in Nat /\ a * k \in Nat
      OBVIOUS
    <3> QED BY <3>1
  <2> QED BY <1>1, <1>7, <2>1
<1> DEFINE m == Cardinality(U)
           n == Cardinality(X)
           r == op[f].requests
           k == c * Cardinality(S)
<1>9. m \in Nat /\ n \in Nat /\ k \in Nat /\ r \in Nat
  BY <1>1, <1>2, <1>7, FS_CardinalityType
<1>10. m < n /\ n <= k /\ r >= k
  BY <1>2, <1>5, <1>6, <1>8
<1> HIDE DEF m, n, r, k
<1>11. r > m
  BY <1>9, <1>10
<1> QED BY <1>11 DEF m, r, U

----------------------------------------------------------------------------
\* The steps after which a thread is idle.

LEMMA GiveUpKeeps ==
  ASSUME IInv, NEW f \in Fetches, NEW i \in Threads(f), GiveUp(f, i)
  PROVE  IInv'
<1>1. Busy(f, i) /\ Settle(f, i, "deadline") /\ UNCHANGED <<slots, database>>
  BY DEF GiveUp, Busy
<1>2. TypeOK /\ fresh[f] \subseteq Ops[f].units /\ Fetches = DOMAIN fresh
  BY <1>1, BusyThread
<1>3. \A h \in Hosts : HasOf(Idle, h) = HasOf(thread[f][i], h)
  BY DEF HasOf, Idle, GiveUp
<1>4. SlotsMove(thread[f][i], Idle)
  BY <1>1, <1>2, <1>3, SlotsStay DEF slots
<1>5. /\ "deadline" \in Endings /\ "deadline" # "saved" /\ "deadline" # "exhausted"
      /\ stored' = stored /\ fresh' = fresh
  BY <1>1 DEF Endings, database
<1> QED BY <1>1, <1>2, <1>4, <1>5, SettledKeeps

LEMMA CancelGrantedKeeps ==
  ASSUME IInv, NEW f \in Fetches, NEW i \in Threads(f), CancelGranted(f, i)
  PROVE  IInv'
<1> DEFINE old == thread[f][i]
<1>1. /\ Busy(f, i) /\ Settle(f, i, "deadline") /\ UNCHANGED <<free, database>>
      /\ old.pc = "granted" /\ Loses(old)
  BY DEF CancelGranted, Busy, Loses
<1>2. /\ TypeOK /\ fresh[f] \subseteq Ops[f].units /\ Fetches = DOMAIN fresh
      /\ old.host \in Hosts /\ Idle.pc = "idle"
  BY <1>1, BusyThread
<1>3. SlotsMove(old, Idle)
  <2>1. Idle.pc \notin {"granted", "sent"} /\ old.pc \in {"granted", "sent"} /\ free' = free
    BY <1>1, <1>2
  <2> HIDE DEF old
  <2> QED BY <1>1, <1>2, <2>1, SlotLost
<1>4. /\ "deadline" \in Endings /\ "deadline" # "saved" /\ "deadline" # "exhausted"
      /\ stored' = stored /\ fresh' = fresh
  BY <1>1 DEF Endings, database
<1> QED BY <1>1, <1>2, <1>3, <1>4, SettledKeeps

\* A thread with a slot in hand gives it back and leaves its unit.
LEMMA ReleasedKeeps ==
  ASSUME IInv, NEW f \in Fetches, NEW i \in Threads(f),
         thread[f][i].pc \in {"granted", "sent"},
         Release(thread[f][i]), lost' = lost,
         NEW s \in Endings \ {"saved"}, Settle(f, i, s),
         s = "exhausted" => op[f].requests > Cardinality(UnitRequests(f)),
         UNCHANGED database
  PROVE  IInv'
<1>1. Busy(f, i)
  BY DEF Busy
<1>2. /\ TypeOK /\ fresh[f] \subseteq Ops[f].units /\ Fetches = DOMAIN fresh
      /\ thread[f][i].host \in Hosts /\ Idle.pc = "idle"
  BY <1>1, BusyThread
<1>3. SlotsMove(thread[f][i], Idle)
  <2>1. Idle.pc \notin {"granted", "sent"}
    BY <1>2
  <2> QED BY <1>2, <2>1, SlotReturned
<1>4. s \in Endings /\ s # "saved" /\ stored' = stored /\ fresh' = fresh
  BY DEF database
<1> QED BY <1>1, <1>2, <1>3, <1>4, SettledKeeps

LEMMA RefuseKeeps ==
  ASSUME IInv, NEW f \in Fetches, NEW i \in Threads(f), Refuse(f, i)
  PROVE  IInv'
<1> DEFINE t == thread[f][i]
<1>1. /\ HasSlot(f, t) /\ lost' = lost /\ UNCHANGED database
      /\ free' = IF Ops[f].async THEN [free EXCEPT ![t.host] = @ + 1] ELSE free
  BY DEF Refuse
<1>2. Busy(f, i) /\ t.pc \in {"wait", "granted"}
  BY <1>1 DEF HasSlot, Busy
<1>3. /\ AtWork(f, i) /\ TypeOK /\ Typed(f) /\ UnitsSound(f)
      /\ fresh[f] \subseteq Ops[f].units /\ Fetches = DOMAIN fresh
      /\ t \in Task /\ t.unit \in Ops[f].units /\ op[f] \in Run(f)
  BY <1>2, BusyThread DEF FetchInv
<1>4. PICK s \in {"deadline", "exhausted", "stranded", "denied"} :
        Settle(f, i, s) /\ (s = "exhausted" => t.hops = 0 /\ Exhausted(f, t))
  BY DEF Refuse
<1>5. ASSUME s = "exhausted" PROVE op[f].requests > Cardinality(UnitRequests(f))
  <2>1. op[f].counted[t.unit] < t.attempt /\ t.attempt <= Ops[f].attempts /\ t.unit \in op[f].plan
    BY <1>2, <1>3, <1>4, <1>5 DEF AtWork
  <2>2. op[f].counted[t.unit] \in Nat /\ t.attempt \in Nat
    BY <1>3 DEF Run, Task
  <2>3. op[f].counted[t.unit] < Ops[f].unitCap
    BY <2>1, <2>2, Settings
  <2>4. op[f].requests >= RootCap(f)
    <3>1. ~(op[f].counted[t.unit] >= Ops[f].unitCap)
      BY <2>2, <2>3, Settings
    <3> QED BY <1>4, <1>5, <3>1 DEF Exhausted
  <2> QED BY <1>3, <2>1, <2>3, <2>4, RedirectsSpentIt
<1>6. s \in Endings \ {"saved"}
  BY DEF Endings
<1>7. CASE Ops[f].async
  <2>1. t.pc = "granted"
    BY <1>1, <1>7 DEF HasSlot
  <2>2. t.pc \in {"granted", "sent"} /\ Release(t)
    BY <1>1, <1>7, <2>1 DEF Release
  <2> QED BY <1>1, <1>4, <1>5, <1>6, <2>2, ReleasedKeeps
<1>8. CASE ~Ops[f].async
  <2>1. t.pc = "wait" /\ free' = free
    BY <1>1, <1>8 DEF HasSlot
  <2>2. \A h \in Hosts : HasOf(Idle, h) = HasOf(t, h)
    BY <2>1 DEF HasOf, Idle
  <2>3. SlotsMove(t, Idle)
    BY <1>1, <1>3, <2>1, <2>2, SlotsStay
  <2>4. stored' = stored /\ fresh' = fresh
    BY <1>1 DEF database
  <2> QED BY <1>1, <1>2, <1>3, <1>4, <1>5, <1>6, <2>3, <2>4, SettledKeeps
<1> QED BY <1>7, <1>8

LEMMA AnswerFailsKeeps ==
  ASSUME IInv, NEW f \in Fetches, NEW i \in Threads(f), NEW a \in Ops[f].answers,
         AnswerFails(f, i, a)
  PROVE  IInv'
<1>1. a \in Answers
  BY Settings
<1>2. a \in Endings \ {"saved"} /\ a # "exhausted"
  BY <1>1 DEF Endings, Answers
<1>3. /\ thread[f][i].pc = "sent" /\ Settle(f, i, a) /\ lost' = lost /\ UNCHANGED database
      /\ Release(thread[f][i])
  BY DEF AnswerFails
<1> QED BY <1>2, <1>3, ReleasedKeeps

LEMMA AnswerLateKeeps ==
  ASSUME IInv, NEW f \in Fetches, NEW i \in Threads(f), AnswerLate(f, i)
  PROVE  IInv'
<1>1. /\ thread[f][i].pc = "sent" /\ Settle(f, i, "deadline") /\ lost' = lost
      /\ Release(thread[f][i]) /\ UNCHANGED database
  BY DEF AnswerLate
<1>2. "deadline" \in Endings \ {"saved"} /\ "deadline" # "exhausted"
  BY DEF Endings
<1> QED BY <1>1, <1>2, ReleasedKeeps

\* A thread that stores a unit has no slot in hand.
LEMMA StoringKeeps ==
  ASSUME IInv, NEW f \in Fetches, NEW i \in Threads(f),
         thread[f][i].pc \in {"parsed", "stored"}, NEW s \in Endings \ {"exhausted"},
         Settle(f, i, s),
         s = "saved" => thread[f][i].unit \in stored[f],
         UNCHANGED slots, stored' = stored, Fetches = DOMAIN fresh',
         fresh'[f] \subseteq Ops[f].units, \A g \in Fetches \ {f} : fresh'[g] = fresh[g]
  PROVE  IInv'
<1>1. Busy(f, i)
  BY DEF Busy
<1>2. TypeOK
  BY DEF IInv
<1>3. \A h \in Hosts : HasOf(Idle, h) = HasOf(thread[f][i], h)
  BY DEF HasOf, Idle
<1>4. SlotsMove(thread[f][i], Idle)
  BY <1>2, <1>3, SlotsStay DEF slots
<1> QED BY <1>1, <1>4, SettledKeeps

LEMMA MarkUnitKeeps ==
  ASSUME IInv, NEW f \in Fetches, NEW i \in Threads(f), MarkUnit(f, i)
  PROVE  IInv'
<1> DEFINE t == thread[f][i]
           s == IF Ops[f].auditsUnits /\ op[f].late THEN "overdue" ELSE "saved"
<1>1. /\ t.pc = "stored" /\ Settle(f, i, s) /\ UNCHANGED slots /\ stored' = stored
      /\ fresh' = IF Ops[f].marks = "no" THEN fresh ELSE [fresh EXCEPT ![f] = @ \cup {t.unit}]
  BY DEF MarkUnit
<1>2. Busy(f, i)
  BY <1>1 DEF Busy
<1>3. /\ AtWork(f, i) /\ t.unit \in Ops[f].units /\ fresh[f] \subseteq Ops[f].units
      /\ Fetches = DOMAIN fresh
  BY <1>2, BusyThread
<1>4. t.unit \in stored[f]
  BY <1>1, <1>3 DEF AtWork
<1>5. /\ Fetches = DOMAIN fresh' /\ fresh'[f] \subseteq Ops[f].units
      /\ \A g \in Fetches \ {f} : fresh'[g] = fresh[g]
  BY <1>1, <1>3
<1>6. s \in Endings \ {"exhausted"}
  BY DEF Endings
<1> HIDE DEF s
<1> QED BY <1>1, <1>4, <1>5, <1>6, StoringKeeps

LEMMA StoreFailsKeeps ==
  ASSUME IInv, NEW f \in Fetches, NEW i \in Threads(f), StoreFails(f, i)
  PROVE  IInv'
<1>1. PICK s \in {"persistence", "freshness"} :
        Settle(f, i, s) /\ thread[f][i].pc \in {"parsed", "stored"}
  BY DEF StoreFails
<1>2. UNCHANGED slots /\ stored' = stored /\ fresh' = fresh
  BY DEF StoreFails, database
<1>3. fresh[f] \subseteq Ops[f].units /\ Fetches = DOMAIN fresh
  BY Here DEF TypeOK, Typed
<1>4. s \in Endings \ {"exhausted"} /\ s # "saved"
  BY DEF Endings
<1> QED BY <1>1, <1>2, <1>3, <1>4, StoringKeeps

----------------------------------------------------------------------------
\* The steps after which a thread goes on with its unit.

\* The run does not change: the thread waits, has its slot or has its rows.
LEMMA GoesOn ==
  ASSUME IInv, NEW f \in Fetches, NEW i \in Threads(f), Busy(f, i),
         NEW t \in Task, SetThread(f, i, t), t.pc \in {"wait", "granted", "parsed"},
         t.unit = thread[f][i].unit, t.host \in Hosts, t.attempt \in 1..Ops[f].attempts,
         t.attempt >= thread[f][i].attempt,
         t.pc \in {"wait", "granted"} /\ t.hops = 0
           => op[f].counted[t.unit] < t.attempt,
         UNCHANGED <<op, database>>, SlotsMove(thread[f][i], t)
  PROVE  IInv'
<1>1. /\ AtWork(f, i) /\ Typed(f) /\ TypeOK /\ op[f] \in Run(f)
      /\ thread[f][i] \in Task /\ t.unit \in Ops[f].units
  BY BusyThread
<1>2. /\ op' = op /\ stored' = stored /\ fresh' = fresh
  BY DEF database
<1>3. op[f].counted[t.unit] <= t.attempt
  <2>1. /\ op[f].counted[t.unit] \in Nat /\ t.attempt \in Nat /\ thread[f][i].attempt \in Nat
        /\ op[f].counted[t.unit] <= thread[f][i].attempt
    BY <1>1 DEF AtWork, Run, Task
  <2> QED BY <2>1
<1>4. UnitRequests(f)' = UnitRequests(f)
  BY <1>2 DEF UnitRequests
<1>5. t.pc # "idle" /\ t.pc # "stored" /\ stored[f] \subseteq Ops[f].units
  BY <1>1 DEF Typed
<1>6. Typed(f)' /\ FetchInv(f)'
  BY <1>1, <1>2, <1>3, <1>4, <1>5, MovesOn
<1>7. OthersStay(f)
  BY <1>1, <1>2, OneThread DEF OthersStay, TypeOK
<1> QED BY <1>6, <1>7, ThreadStepKeeps

LEMMA GrantKeeps ==
  ASSUME IInv, NEW f \in Fetches, NEW i \in Threads(f), Grant(f, i)
  PROVE  IInv'
<1> DEFINE t == thread[f][i]
           new == [t EXCEPT !.pc = "granted"]
<1>1. /\ t.pc = "wait" /\ free[t.host] > 0 /\ Occupies(t) /\ lost' = lost
      /\ SetThread(f, i, new) /\ UNCHANGED <<op, database>>
  BY DEF Grant, Occupies
<1>2. Busy(f, i)
  BY <1>1 DEF Busy
<1>3. t \in Task /\ AtWork(f, i) /\ TypeOK
  BY <1>2, BusyThread
<1>4. /\ new \in Task /\ new.pc = "granted" /\ new.unit = t.unit /\ new.host = t.host
      /\ new.hops = t.hops /\ new.attempt = t.attempt
  BY <1>3 DEF Task, Steps
<1>5. /\ t.host \in Hosts /\ t.attempt \in 1..Ops[f].attempts
      /\ t.hops = 0 => op[f].counted[t.unit] < t.attempt
  BY <1>1, <1>3 DEF AtWork
<1> HIDE DEF new
<1>6. SlotsMove(t, new)
  BY <1>1, <1>3, <1>4, <1>5, SlotTaken
<1>7. new.attempt >= t.attempt
  BY <1>4, <1>5
<1> QED BY <1>1, <1>2, <1>4, <1>5, <1>6, <1>7, GoesOn

LEMMA RedirectKeeps ==
  ASSUME IInv, NEW f \in Fetches, NEW i \in Threads(f), NEW h \in Hosts, Redirect(f, i, h)
  PROVE  IInv'
<1> DEFINE t == thread[f][i]
           new == [t EXCEPT !.pc = "wait", !.host = h, !.hops = @ + 1]
<1>1. t.pc = "sent" /\ Release(t) /\ lost' = lost /\ UNCHANGED database
  BY DEF Redirect
<1>2. Busy(f, i)
  BY <1>1 DEF Busy
<1>3. t \in Task /\ AtWork(f, i) /\ TypeOK
  BY <1>2, BusyThread
<1>4. CASE t.hops = MaxRedirects
  <2>1. Settle(f, i, "redirects")
    BY <1>4 DEF Redirect
  <2>2. "redirects" \in Endings \ {"saved"} /\ "redirects" # "exhausted"
    BY DEF Endings
  <2> QED BY <1>1, <2>1, <2>2, ReleasedKeeps
<1>5. CASE t.hops # MaxRedirects
  <2>1. SetThread(f, i, new) /\ UNCHANGED op
    BY <1>5 DEF Redirect
  <2>2. /\ new \in Task /\ new.pc = "wait" /\ new.unit = t.unit /\ new.host = h
        /\ new.hops # 0 /\ new.attempt = t.attempt
    <3>1. t.hops + 1 \in Nat /\ t.hops + 1 # 0
      BY <1>3 DEF Task
    <3> DEFINE n == t.hops + 1
    <3> HIDE DEF n
    <3>2. \A k \in Nat : [t EXCEPT !.pc = "wait", !.host = h, !.hops = k] \in Task
      BY <1>3 DEF Task, Steps
    <3>3. \A k : LET r == [t EXCEPT !.pc = "wait", !.host = h, !.hops = k]
                 IN  /\ r.pc = "wait" /\ r.unit = t.unit /\ r.host = h /\ r.hops = k
                     /\ r.attempt = t.attempt
      BY <1>3 DEF Task
    <3>4. new = [t EXCEPT !.pc = "wait", !.host = h, !.hops = n]
      BY DEF n
    <3> QED BY <3>1, <3>2, <3>3, <3>4 DEF n
  <2>3. t.host \in Hosts /\ t.attempt \in 1..Ops[f].attempts
    BY <1>3 DEF AtWork
  <2> HIDE DEF new
  <2>4. SlotsMove(t, new)
    BY <1>1, <1>3, <2>2, <2>3, SlotReturned
  <2>5. new.attempt >= t.attempt
    BY <2>2, <2>3
  <2> QED BY <1>1, <1>2, <2>1, <2>2, <2>3, <2>4, <2>5, GoesOn
<1> QED BY <1>4, <1>5

LEMMA AskAgainKeeps ==
  ASSUME IInv, NEW f \in Fetches, NEW i \in Threads(f), NEW a, AskAgain(f, i, a)
  PROVE  IInv'
<1> DEFINE t == thread[f][i]
           new == [t EXCEPT !.pc = "wait", !.hops = 0, !.attempt = @ + 1,
                            !.host = IF Ops[f].stays THEN @ ELSE Ops[f].host]
<1>1. /\ t.pc = "sent" /\ Release(t) /\ lost' = lost /\ UNCHANGED <<op, database>>
      /\ t.attempt < Ops[f].attempts /\ SetThread(f, i, new)
  BY DEF AskAgain
<1>2. Busy(f, i)
  BY <1>1 DEF Busy
<1>3. t \in Task /\ AtWork(f, i) /\ TypeOK /\ op[f] \in Run(f) /\ t.unit \in Ops[f].units
  BY <1>2, BusyThread
<1>4. /\ t.host \in Hosts /\ t.attempt \in 1..Ops[f].attempts
      /\ op[f].counted[t.unit] <= t.attempt
  BY <1>3 DEF AtWork
<1>5. Ops[f].host \in Hosts /\ Ops[f].attempts \in Nat
  BY Settings
<1>6. /\ new \in Task /\ new.pc = "wait" /\ new.unit = t.unit /\ new.host \in Hosts
      /\ new.attempt = t.attempt + 1
  <2> DEFINE n == t.attempt + 1
             h == IF Ops[f].stays THEN t.host ELSE Ops[f].host
  <2>1. n \in Nat /\ h \in Hosts
    BY <1>4, <1>5
  <2>2. new = [t EXCEPT !.pc = "wait", !.hops = 0, !.attempt = n, !.host = h]
    OBVIOUS
  <2> HIDE DEF n, h, new
  <2>3. new \in Task
    BY <1>3, <2>1, <2>2 DEF Task, Steps
  <2>4. new.pc = "wait" /\ new.unit = t.unit /\ new.host = h /\ new.attempt = n
    BY <1>3, <2>2 DEF Task
  <2> QED BY <2>1, <2>3, <2>4 DEF n
<1> HIDE DEF new
<1>7. SlotsMove(t, new)
  BY <1>1, <1>3, <1>4, <1>6, SlotReturned
<1>8. /\ new.attempt \in 1..Ops[f].attempts /\ new.attempt >= t.attempt
      /\ op[f].counted[new.unit] < new.attempt
  <2>1. op[f].counted[t.unit] \in Nat
    BY <1>3 DEF Run
  <2> QED BY <1>1, <1>4, <1>5, <1>6, <2>1
<1> QED BY <1>1, <1>2, <1>6, <1>7, <1>8, GoesOn

LEMMA AnswerServesKeeps ==
  ASSUME IInv, NEW f \in Fetches, NEW i \in Threads(f), NEW a, AnswerServes(f, i, a)
  PROVE  IInv'
<1> DEFINE t == thread[f][i]
           new == [t EXCEPT !.pc = "parsed"]
<1>1. /\ t.pc = "sent" /\ Release(t) /\ lost' = lost /\ UNCHANGED database
      /\ a \in {"ok", "empty"}
  BY DEF AnswerServes
<1>2. Busy(f, i)
  BY <1>1 DEF Busy
<1>3. t \in Task /\ AtWork(f, i) /\ TypeOK
  BY <1>2, BusyThread
<1>4. CASE Settle(f, i, a)
  <2>1. a \in Endings \ {"saved"} /\ a # "exhausted"
    BY <1>1 DEF Endings, Answers
  <2> QED BY <1>1, <1>4, <2>1, ReleasedKeeps
<1>5. CASE SetThread(f, i, new) /\ UNCHANGED op
  <2>1. /\ new \in Task /\ new.pc = "parsed" /\ new.unit = t.unit /\ new.host = t.host
        /\ new.attempt = t.attempt
    BY <1>3 DEF Task, Steps
  <2>2. t.host \in Hosts /\ t.attempt \in 1..Ops[f].attempts
    BY <1>3 DEF AtWork
  <2> HIDE DEF new
  <2>3. SlotsMove(t, new)
    BY <1>1, <1>3, <2>1, <2>2, SlotReturned
  <2>4. new.attempt >= t.attempt
    BY <2>1, <2>2
  <2> QED BY <1>1, <1>2, <1>5, <2>1, <2>2, <2>3, <2>4, GoesOn
<1>6. Ops[f].stores \in {"unit", "end"}
  BY FetchAssumption DEF OpType
<1> QED BY <1>1, <1>4, <1>5, <1>6 DEF AnswerServes

LEMMA StorePartKeeps ==
  ASSUME IInv, NEW f \in Fetches, NEW i \in Threads(f), StorePart(f, i)
  PROVE  IInv'
<1> DEFINE t == thread[f][i]
           last == op[f].parts + 1 = Ops[f].parts
           new == IF last THEN [t EXCEPT !.pc = "stored"] ELSE t
           p == IF last THEN 0 ELSE op[f].parts + 1
<1>1. /\ t.pc = "parsed" /\ op' = [op EXCEPT ![f].parts = p] /\ SetThread(f, i, new)
      /\ stored' = IF last THEN [stored EXCEPT ![f] = @ \cup {t.unit}] ELSE stored
      /\ UNCHANGED slots /\ fresh' = fresh
  BY DEF StorePart
<1>2. Busy(f, i)
  BY <1>1 DEF Busy
<1>3. /\ t \in Task /\ AtWork(f, i) /\ TypeOK /\ Typed(f) /\ op[f] \in Run(f)
      /\ t.unit \in Ops[f].units
  BY <1>2, BusyThread
<1>4. /\ new \in Task /\ new.pc \in {"parsed", "stored"} /\ new.unit = t.unit
      /\ new.host = t.host /\ new.attempt = t.attempt
      /\ new.pc = "stored" => last
  BY <1>1, <1>3 DEF Task, Steps
<1>5. /\ t.host \in Hosts /\ t.attempt \in 1..Ops[f].attempts
      /\ op[f].counted[t.unit] <= t.attempt
  BY <1>3 DEF AtWork
<1>6. p \in Int
  BY <1>3 DEF Run
<1>7. /\ stored[f] \subseteq stored'[f] /\ stored'[f] \subseteq Ops[f].units
      /\ last => t.unit \in stored'[f]
      /\ Fetches = DOMAIN stored' /\ \A g \in Fetches \ {f} : stored'[g] = stored[g]
  BY <1>1, <1>3 DEF TypeOK, Typed
<1> HIDE DEF new, p, last
<1>8. /\ op'[f] \in Run(f) /\ op'[f].state = op[f].state /\ op'[f].plan = op[f].plan
      /\ op'[f].work = op[f].work /\ op'[f].result = op[f].result
      /\ op'[f].counted = op[f].counted /\ op'[f].requests = op[f].requests
      /\ Fetches = DOMAIN op' /\ \A g \in Fetches \ {f} : op'[g] = op[g]
  BY <1>1, <1>3, <1>6 DEF Run, TypeOK
<1>9. UnitRequests(f)' = UnitRequests(f)
  BY <1>8 DEF UnitRequests
<1>10. new.pc # "idle" /\ new.pc \notin {"wait", "granted", "sent"}
  BY <1>4
<1>11. Typed(f)' /\ FetchInv(f)'
  BY <1>1, <1>2, <1>4, <1>5, <1>7, <1>8, <1>9, <1>10, MovesOn
<1>12. OthersStay(f)
  BY <1>1, <1>3, <1>4, <1>7, <1>8, OneThread DEF OthersStay, TypeOK
<1>13. SlotsMove(t, new)
  <2>1. \A h \in Hosts : HasOf(new, h) = HasOf(t, h)
    BY <1>1, <1>10 DEF HasOf
  <2> QED BY <1>1, <1>3, <2>1, SlotsStay DEF slots
<1> QED BY <1>1, <1>4, <1>11, <1>12, <1>13, ThreadStepKeeps

\* One more request of a unit is one more pair.
LEMMA OneMoreRequest ==
  ASSUME NEW f \in Fetches, Typed(f), UnitsSound(f), NEW u \in op[f].plan,
         op'[f].counted = [op[f].counted EXCEPT ![u] = op[f].counted[u] + 1]
  PROVE  Cardinality(UnitRequests(f)') = Cardinality(UnitRequests(f)) + 1
<1> DEFINE n == op[f].counted[u] + 1
           U == UnitRequests(f)
<1>1. /\ op[f].counted \in [Ops[f].units -> Nat] /\ u \in Ops[f].units
      /\ op[f].plan \subseteq Ops[f].units
  BY DEF Typed, Run
<1>2. UnitRequests(f)' = U \cup {<<u, n>>}
  <2>1. op'[f].counted[u] = n /\ \A v \in Ops[f].units \ {u} : op'[f].counted[v] = op[f].counted[v]
    BY <1>1
  <2>2. 1..n = 1..op[f].counted[u] \cup {n}
    BY <1>1
  <2> DEFINE Of(v, m) == {<<v, k>> : k \in 1..m}
  <2>3. U = UNION {Of(v, op[f].counted[v]) : v \in Ops[f].units}
    BY DEF UnitRequests
  <2>4. UnitRequests(f)' = UNION {Of(v, op'[f].counted[v]) : v \in Ops[f].units}
    BY DEF UnitRequests
  <2>5. Of(u, n) = Of(u, op[f].counted[u]) \cup {<<u, n>>}
    BY <2>2
  <2> HIDE DEF Of, n, U
  <2> QED BY <1>1, <2>1, <2>3, <2>4, <2>5
<1>3. <<u, n>> \notin U
  <2>1. \A m : <<u, m>> \in U <=> u \in op[f].plan /\ m \in 1..op[f].counted[u]
    BY UnitRequestsAre
  <2>2. n \notin 1..op[f].counted[u]
    BY <1>1
  <2> QED BY <2>1, <2>2
<1>4. IsFiniteSet(U)
  BY UnitRequestsAre
<1> HIDE DEF n, U
<1>5. Cardinality(U \cup {<<u, n>>}) = Cardinality(U) + 1
  BY <1>3, <1>4, FS_AddElement
<1> QED BY <1>2, <1>5 DEF U

LEMMA DispatchKeeps ==
  ASSUME IInv, NEW f \in Fetches, NEW i \in Threads(f), Dispatch(f, i)
  PROVE  IInv'
<1> DEFINE t == thread[f][i]
           new == [t EXCEPT !.pc = "sent"]
           own == op[f].counted[t.unit]
           n == IF t.hops = 0 THEN own + 1 ELSE own
           counted == [op[f].counted EXCEPT ![t.unit] = n]
           r == op[f].requests + 1
<1>1. /\ HasSlot(f, t) /\ SetThread(f, i, new) /\ lost' = lost /\ UNCHANGED database
      /\ free' = IF Ops[f].async THEN free ELSE [free EXCEPT ![t.host] = @ - 1]
  BY DEF Dispatch
<1>2. Busy(f, i) /\ t.pc \in {"wait", "granted"}
  BY <1>1 DEF Busy, HasSlot
<1>3. /\ t \in Task /\ AtWork(f, i) /\ TypeOK /\ Typed(f) /\ op[f] \in Run(f)
      /\ t.unit \in Ops[f].units /\ t.unit \in op[f].plan /\ UnitsSound(f)
  BY <1>2, BusyThread DEF FetchInv
<1>4. /\ new \in Task /\ new.pc = "sent" /\ new.unit = t.unit /\ new.host = t.host
      /\ new.attempt = t.attempt
  BY <1>3 DEF Task, Steps
<1>5. /\ t.host \in Hosts /\ t.attempt \in 1..Ops[f].attempts /\ t.attempt \in Nat
      /\ own <= t.attempt /\ (t.hops = 0 => own < t.attempt) /\ own \in Nat
  BY <1>2, <1>3 DEF AtWork, Run
<1>6. op' = [op EXCEPT ![f] = [op[f] EXCEPT !.admitted = TRUE, !.requests = r, !.counted = counted]]
  BY <1>3 DEF Dispatch, TypeOK
<1>7. r \in Nat /\ n \in Nat /\ n <= t.attempt
  BY <1>3, <1>5 DEF Run
<1>8. /\ counted \in [Ops[f].units -> Nat] /\ counted[t.unit] = n
      /\ \A u \in Ops[f].units \ {t.unit} : counted[u] = op[f].counted[u]
  BY <1>3, <1>7 DEF Run
<1> HIDE DEF new, counted, r, n
<1>9. /\ op'[f] \in Run(f) /\ op'[f].state = op[f].state /\ op'[f].plan = op[f].plan
      /\ op'[f].work = op[f].work /\ op'[f].result = op[f].result
      /\ op'[f].counted = counted /\ op'[f].requests = r
      /\ Fetches = DOMAIN op' /\ \A g \in Fetches \ {f} : op'[g] = op[g]
  BY <1>3, <1>6, <1>7, <1>8 DEF Run, TypeOK
<1>10. ASSUME op[f].requests > Cardinality(UnitRequests(f))
       PROVE  op'[f].requests > Cardinality(UnitRequests(f)')
  <2>1. Cardinality(UnitRequests(f)) \in Nat /\ op[f].requests \in Nat
    BY <1>3, UnitRequestsAre DEF Run
  <2>2. CASE t.hops = 0
    <3>1. Cardinality(UnitRequests(f)') = Cardinality(UnitRequests(f)) + 1
      BY <1>3, <1>9, <2>2, OneMoreRequest DEF counted, n
    <3> QED BY <1>9, <1>10, <2>1, <3>1 DEF r
  <2>3. CASE t.hops # 0
    <3>1. \A u \in Ops[f].units : counted[u] = op[f].counted[u]
      BY <1>8, <2>3 DEF n
    <3>2. UnitRequests(f)' = UnitRequests(f)
      BY <1>9, <3>1 DEF UnitRequests
    <3> QED BY <1>9, <1>10, <2>1, <3>2 DEF r
  <2> QED BY <2>2, <2>3
<1>11. /\ stored' = stored /\ fresh' = fresh /\ stored[f] \subseteq Ops[f].units
       /\ new.pc # "idle" /\ new.pc \notin {"wait", "granted", "stored"}
  BY <1>1, <1>3, <1>4 DEF database, Typed
<1>12. Typed(f)' /\ FetchInv(f)'
  BY <1>1, <1>2, <1>4, <1>5, <1>7, <1>8, <1>9, <1>10, <1>11, MovesOn
<1>13. OthersStay(f)
  BY <1>1, <1>3, <1>4, <1>9, <1>11, OneThread DEF OthersStay, TypeOK
<1>14. SlotsMove(t, new)
  <2>1. CASE Ops[f].async
    <3>1. t.pc = "granted" /\ free' = free
      BY <1>1, <2>1 DEF HasSlot
    <3>2. \A h \in Hosts : HasOf(new, h) = HasOf(t, h)
      BY <1>4, <3>1 DEF HasOf
    <3> QED BY <1>1, <1>3, <3>1, <3>2, SlotsStay
  <2>2. CASE ~Ops[f].async
    <3>1. t.pc = "wait" /\ free[t.host] > 0 /\ Occupies(t)
      BY <1>1, <2>2 DEF HasSlot, Occupies
    <3> QED BY <1>1, <1>3, <1>4, <1>5, <3>1, SlotTaken
  <2> QED BY <2>1, <2>2
<1> QED BY <1>1, <1>4, <1>12, <1>13, <1>14, ThreadStepKeeps

----------------------------------------------------------------------------
\* A thread takes the first unit left.

\* A set of numbers that is not empty has a least one: of the initial segments of
\* the numbers up to one of them, a smallest one with a member as its end.
LEMMA LeastChosen ==
  ASSUME NEW T \in SUBSET Nat, T # {}
  PROVE  Min(T) \in T
<1>1. PICK top \in T : TRUE
  OBVIOUS
<1> DEFINE S == 0 .. top
           Ends == {A \in SUBSET S : \E k \in T : k <= top /\ A = 0 .. k}
<1>2. Ends \in SUBSET (SUBSET S) /\ S \in Ends
  BY <1>1
<1>3. IsFiniteSet(S)
  BY <1>1, FS_Interval
<1> HIDE DEF Ends, S
<1>4. IsWellFoundedOn(StrictSubsetOrdering(S), SUBSET S)
  BY <1>3, FS_StrictSubsetOrderingWellFounded, FS_FiniteSubsetsOfFinite
<1>5. PICK A \in Ends : \A B \in Ends : <<B, A>> \notin StrictSubsetOrdering(S)
  <2>1. Ends # {}
    BY <1>2
  <2> QED BY <1>2, <1>4, <2>1, WFMin, Zenon
<1>6. PICK m \in T : m <= top /\ A = 0 .. m
  BY DEF Ends
<1>7. ASSUME NEW k \in T, k < m PROVE FALSE
  <2>1. 0 .. k \in Ends /\ 0 .. k \subseteq A /\ m \in A /\ m \notin 0 .. k
    BY <1>6, <1>7 DEF Ends, S
  <2> QED BY <1>2, <1>5, <2>1 DEF StrictSubsetOrdering
<1>8. \A k \in T : m <= k
  BY <1>7
<1> QED BY <1>6, <1>8 DEF Min

LEMMA TakeKeeps ==
  ASSUME IInv, NEW f \in Fetches, NEW i \in Threads(f), Take(f, i)
  PROVE  IInv'
<1> DEFINE todo == {u \in op[f].plan : op[f].work[u] = "todo"}
           v == Min(todo)
           t == [pc |-> "wait", unit |-> v, host |-> Ops[f].host, hops |-> 0, attempt |-> 1]
<1>1. /\ Typed(f) /\ FetchInv(f) /\ TypeOK /\ op[f] \in Run(f)
      /\ \A j \in Threads(f) : thread[f][j] \in Task /\ (Busy(f, j) => AtWork(f, j))
  BY Here DEF Typed
<1>2. /\ op[f].state = "running" /\ thread[f][i] = Idle /\ todo # {} /\ SetThread(f, i, t)
      /\ op' = [op EXCEPT ![f].work[v] = "busy"] /\ UNCHANGED <<slots, database>>
      /\ Ops[f].threads > 1 \/ ~Stopped(f)
  BY DEF Take
<1>3. op[f].plan \subseteq Ops[f].units /\ todo \in SUBSET Nat
  BY <1>1, Settings DEF Run
<1>4. v \in todo
  <2> HIDE DEF todo
  <2> QED BY <1>2, <1>3, LeastChosen
<1> HIDE DEF v
<1>5. v \in op[f].plan /\ v \in Ops[f].units /\ v \in Nat /\ op[f].work[v] = "todo"
  BY <1>3, <1>4, Settings
<1>6. t \in Task /\ t.pc = "wait" /\ t.unit = v /\ t.host \in Hosts /\ t.hops = 0 /\ t.attempt = 1
  BY <1>5, Settings DEF Task, Steps
<1> HIDE DEF t
<1>7. /\ Fetches = DOMAIN op' /\ \A g \in Fetches \ {f} : op'[g] = op[g]
      /\ op'[f] = [op[f] EXCEPT !.work = [op[f].work EXCEPT ![v] = "busy"]]
  BY <1>1, <1>2 DEF TypeOK
<1>8. /\ op'[f] \in Run(f) /\ op'[f].state = "running" /\ op'[f].plan = op[f].plan
      /\ op'[f].requests = op[f].requests /\ op'[f].counted = op[f].counted
      /\ op'[f].result = op[f].result /\ op'[f].work[v] = "busy"
      /\ \A u \in Ops[f].units \ {v} : op'[f].work[u] = op[f].work[u]
  BY <1>1, <1>2, <1>5, <1>7 DEF Run, Statuses, Pending
<1>9. /\ thread'[f] \in [Threads(f) -> Task] /\ thread'[f][i] = t
      /\ \A j \in Threads(f) \ {i} : thread'[f][j] = thread[f][j]
      /\ Fetches = DOMAIN thread' /\ \A g \in Fetches \ {f} : thread'[g] = thread[g]
  BY <1>1, <1>2, <1>6, OneThread
<1>10. stored' = stored /\ fresh' = fresh
  BY <1>2 DEF database
<1>11. Typed(f)' /\ OthersStay(f)
  BY <1>1, <1>7, <1>8, <1>9, <1>10 DEF Typed, OthersStay, TypeOK
<1>12. Stopped(f)' = Stopped(f)
  BY <1>3, <1>5, <1>8 DEF Stopped, Fatal, Failed, Pending
<1>13. ThreadsAtWork(f)'
  <2>1. AtWork(f, i)' /\ Busy(f, i)'
    <3>1. op[f].counted[v] = 0
      BY <1>1, <1>5 DEF FetchInv, UnitsSound
    <3>2. 1 \in 1..Ops[f].attempts
      BY Settings
    <3> QED BY <1>5, <1>6, <1>8, <1>9, <3>1, <3>2 DEF AtWork, Busy
  <2>2. ASSUME NEW j \in Threads(f), j # i, Busy(f, j)'
        PROVE  Busy(f, j) /\ AtWork(f, j)' /\ thread'[f][j].unit # v
    <3>1. Busy(f, j) /\ thread'[f][j] = thread[f][j]
      BY <1>9, <2>2 DEF Busy
    <3>2. AtWork(f, j)
      BY <1>1, <3>1
    <3>3. thread[f][j].unit # v /\ thread[f][j].unit \in Ops[f].units
      BY <1>3, <1>5, <3>2 DEF AtWork
    <3> QED BY <1>8, <1>10, <3>1, <3>2, <3>3 DEF AtWork
  <2>3. \A j, k \in Threads(f) : Busy(f, j)' /\ Busy(f, k)' /\ j # k
          => thread'[f][j].unit # thread'[f][k].unit
    BY <1>1, <1>6, <1>9, <2>2 DEF FetchInv, ThreadsAtWork
  <2>4. ~(Ops[f].threads = 1 /\ Stopped(f)')
    BY <1>2, <1>12, Settings
  <2> QED BY <2>1, <2>2, <2>3, <2>4 DEF ThreadsAtWork
<1>14. UnitsSound(f)'
  <2>1. UnitRequests(f)' = UnitRequests(f)
    BY <1>8 DEF UnitRequests
  <2> QED BY <1>1, <1>3, <1>8, <1>10, <1>12, <2>1 DEF FetchInv, UnitsSound
<1>15. ResultSound(f)'
  BY <1>1, <1>2, <1>8, Numbers DEF FetchInv, ResultSound
<1>16. FetchInv(f)'
  BY <1>13, <1>14, <1>15 DEF FetchInv
<1>17. SlotsMove(thread[f][i], t)
  <2>1. \A h \in Hosts : HasOf(t, h) = HasOf(thread[f][i], h)
    BY <1>2, <1>6 DEF HasOf, Idle
  <2> QED BY <1>1, <1>2, <2>1, SlotsStay DEF slots
<1> QED BY <1>2, <1>6, <1>11, <1>16, <1>17, ThreadStepKeeps

----------------------------------------------------------------------------
\* The steps of a fetch that leave its threads alone.

LEMMA FetchStepKeeps ==
  ASSUME IInv, NEW f \in Fetches, OthersStay(f), Typed(f)', FetchInv(f)',
         thread' = thread, UNCHANGED slots
  PROVE  IInv'
<1>1. free' = free /\ lost' = lost /\ Balance /\ TypeOK
  BY DEF slots, IInv
<1>2. Balance'
  BY <1>1, BalanceKept
<1>3. free' \in [Hosts -> Nat] /\ lost' \in [Hosts -> Nat]
  BY <1>1 DEF TypeOK
<1>4. TypeOK' /\ \A g \in Fetches : FetchInv(g)'
  BY <1>3, OneFetchSteps
<1> QED BY <1>2, <1>4 DEF IInv

\* No thread is busy when no unit is left, or when its only one stopped.
LEMMA NobodyAtWork ==
  ASSUME IInv, NEW f \in Fetches,
         NoneLeft(f) \/ (Ops[f].threads = 1 /\ Stopped(f)) \/ op[f].state = "ended"
  PROVE  \A i \in Threads(f) : ~Busy(f, i)
BY Here DEF FetchInv, ThreadsAtWork, AtWork, NoneLeft

\* A run keeps its units, its requests, its state and its result.
LEMMA QuietKeeps ==
  ASSUME IInv, NEW f \in Fetches, thread' = thread, UNCHANGED slots, stored' = stored,
         Fetches = DOMAIN op', \A g \in Fetches \ {f} : op'[g] = op[g], op'[f] \in Run(f),
         op'[f].state = op[f].state, op'[f].plan = op[f].plan, op'[f].work = op[f].work,
         op'[f].counted = op[f].counted, op'[f].requests = op[f].requests,
         op'[f].result = op[f].result,
         Fetches = DOMAIN fresh', \A g \in Fetches \ {f} : fresh'[g] = fresh[g],
         fresh'[f] \subseteq Ops[f].units
  PROVE  IInv'
<1>1. Typed(f) /\ FetchInv(f) /\ TypeOK
  BY Here
<1>2. Typed(f)' /\ OthersStay(f)
  BY <1>1 DEF Typed, OthersStay, TypeOK
<1>3. Stopped(f)' = Stopped(f) /\ UnitRequests(f)' = UnitRequests(f)
  BY DEF Stopped, Fatal, Failed, UnitRequests
<1>4. ThreadsAtWork(f)'
  BY <1>1, <1>3 DEF FetchInv, ThreadsAtWork, Busy, AtWork
<1>5. UnitsSound(f)' /\ ResultSound(f)'
  BY <1>1, <1>3 DEF FetchInv, UnitsSound, ResultSound, Whole
<1> QED BY <1>2, <1>4, <1>5, FetchStepKeeps DEF FetchInv

LEMMA ElapseKeeps ==
  ASSUME IInv, NEW f \in Fetches, Elapse(f)
  PROVE  IInv'
<1>1. Typed(f) /\ TypeOK /\ op[f] \in Run(f)
  BY Here DEF Typed
<1>2. /\ op' = [op EXCEPT ![f] = [op[f] EXCEPT !.late = TRUE]]
      /\ UNCHANGED slots /\ thread' = thread /\ stored' = stored /\ fresh' = fresh
  BY <1>1 DEF Elapse, TypeOK, database
<1>3. /\ Fetches = DOMAIN op' /\ \A g \in Fetches \ {f} : op'[g] = op[g]
      /\ op'[f] \in Run(f) /\ op'[f].state = op[f].state /\ op'[f].plan = op[f].plan
      /\ op'[f].work = op[f].work /\ op'[f].counted = op[f].counted
      /\ op'[f].requests = op[f].requests /\ op'[f].result = op[f].result
  BY <1>1, <1>2 DEF Run, TypeOK
<1>4. fresh[f] \subseteq Ops[f].units /\ Fetches = DOMAIN fresh
  BY <1>1 DEF Typed, TypeOK
<1> QED BY <1>2, <1>3, <1>4, QuietKeeps

LEMMA AgeKeeps ==
  ASSUME IInv, NEW f \in Fetches, Age(f)
  PROVE  IInv'
<1>1. Typed(f) /\ TypeOK /\ op[f] \in Run(f)
  BY Here DEF Typed
<1>2. /\ op' = op /\ UNCHANGED slots /\ thread' = thread /\ stored' = stored
      /\ fresh' = [fresh EXCEPT ![f] = {}]
  BY DEF Age
<1>3. Fetches = DOMAIN fresh' /\ fresh'[f] = {} /\ \A g \in Fetches \ {f} : fresh'[g] = fresh[g]
  BY <1>1, <1>2 DEF TypeOK
<1>4. Fetches = DOMAIN op'
  BY <1>1, <1>2 DEF TypeOK
<1> QED BY <1>1, <1>2, <1>3, <1>4, QuietKeeps

LEMMA MarkAllKeeps ==
  ASSUME IInv, NEW f \in Fetches, MarkAll(f)
  PROVE  IInv'
<1>1. Typed(f) /\ TypeOK /\ op[f] \in Run(f)
  BY Here DEF Typed
<1>2. /\ op' = [op EXCEPT ![f] = [op[f] EXCEPT !.marked = TRUE]]
      /\ fresh' = [fresh EXCEPT ![f] = op[f].plan]
      /\ UNCHANGED slots /\ thread' = thread /\ stored' = stored
  BY <1>1 DEF MarkAll, TypeOK
<1>3. /\ Fetches = DOMAIN op' /\ \A g \in Fetches \ {f} : op'[g] = op[g]
      /\ op'[f] \in Run(f) /\ op'[f].state = op[f].state /\ op'[f].plan = op[f].plan
      /\ op'[f].work = op[f].work /\ op'[f].counted = op[f].counted
      /\ op'[f].requests = op[f].requests /\ op'[f].result = op[f].result
  BY <1>1, <1>2 DEF Run, TypeOK
<1>4. /\ Fetches = DOMAIN fresh' /\ \A g \in Fetches \ {f} : fresh'[g] = fresh[g]
      /\ fresh'[f] \subseteq Ops[f].units
  BY <1>1, <1>2 DEF Run, TypeOK
<1> QED BY <1>2, <1>3, <1>4, QuietKeeps

\* A run ends when no thread is busy.
LEMMA EndedKeeps ==
  ASSUME IInv, NEW f \in Fetches, thread' = thread, UNCHANGED slots, UNCHANGED database,
         \A i \in Threads(f) : ~Busy(f, i), Fetches = DOMAIN op',
         \A g \in Fetches \ {f} : op'[g] = op[g], op'[f] \in Run(f), op'[f].state = "ended",
         op'[f].plan = op[f].plan, op'[f].work = op[f].work,
         op'[f].counted = op[f].counted, op'[f].requests = op[f].requests,
         op'[f].result = "ok" => Whole(f)
  PROVE  IInv'
<1>1. Typed(f) /\ FetchInv(f) /\ TypeOK /\ stored' = stored /\ fresh' = fresh
  BY Here DEF database
<1>2. Typed(f)' /\ OthersStay(f)
  BY <1>1 DEF Typed, OthersStay, TypeOK
<1>3. Stopped(f)' = Stopped(f) /\ UnitRequests(f)' = UnitRequests(f)
  BY DEF Stopped, Fatal, Failed, UnitRequests
<1>4. ThreadsAtWork(f)'
  BY DEF ThreadsAtWork, Busy
<1>5. UnitsSound(f)' /\ ResultSound(f)'
  BY <1>1, <1>3 DEF FetchInv, UnitsSound, ResultSound, Whole
<1> QED BY <1>2, <1>4, <1>5, FetchStepKeeps DEF FetchInv

LEMMA MarkAllFailsKeeps ==
  ASSUME IInv, NEW f \in Fetches, MarkAllFails(f)
  PROVE  IInv'
<1>1. Typed(f) /\ TypeOK /\ op[f] \in Run(f)
  BY Here DEF Typed
<1>2. /\ op' = [op EXCEPT ![f] = [op[f] EXCEPT !.marked = TRUE, !.state = "ended",
                                               !.result = "error"]]
      /\ UNCHANGED slots /\ thread' = thread /\ UNCHANGED database
  BY <1>1 DEF MarkAllFails, TypeOK
<1>3. /\ Fetches = DOMAIN op' /\ \A g \in Fetches \ {f} : op'[g] = op[g]
      /\ op'[f] \in Run(f) /\ op'[f].state = "ended" /\ op'[f].plan = op[f].plan
      /\ op'[f].work = op[f].work /\ op'[f].counted = op[f].counted
      /\ op'[f].requests = op[f].requests /\ op'[f].result = "error"
  BY <1>1, <1>2 DEF Run, TypeOK, States, Results
<1>4. NoneLeft(f)
  BY DEF MarkAllFails, MarkDue, Answered, NoneLeft
<1>5. \A i \in Threads(f) : ~Busy(f, i)
  BY <1>4, NobodyAtWork
<1> QED BY <1>2, <1>3, <1>5, EndedKeeps

\* A run that ends as ok has no failure, so nothing was cancelled, and nothing is
\* left to do or to store.
LEMMA OkEnds ==
  ASSUME IInv, NEW f \in Fetches, End(f), Result(f) = "ok"
  PROVE  Whole(f)
<1>1. Typed(f) /\ UnitsSound(f) /\ op[f] \in Run(f)
  BY Here DEF Typed, FetchInv
<1>2. ~Stopped(f) /\ ~AnyFailed(f)
  BY DEF Result
<1>3. NoneLeft(f) /\ Kept(f) = {}
  BY <1>2 DEF End
<1> SUFFICES ASSUME NEW u \in op[f].plan
             PROVE  \/ op[f].work[u] = "empty"
                    \/ op[f].work[u] = "saved" /\ u \in stored[f]
  BY DEF Whole
<1>4. op[f].work[u] \in Pending \cup Answered \cup {"cancelled"}
  BY <1>2 DEF AnyFailed, Failed
<1>5. op[f].work[u] \notin {"todo", "busy", "ok", "left", "cancelled"}
  BY <1>1, <1>2, <1>3 DEF NoneLeft, Kept, UnitsSound
<1>6. op[f].work[u] \in {"saved", "empty"}
  BY <1>4, <1>5 DEF Pending, Answered
<1> QED BY <1>1, <1>6 DEF UnitsSound

LEMMA EndKeeps ==
  ASSUME IInv, NEW f \in Fetches, End(f)
  PROVE  IInv'
<1>1. Typed(f) /\ TypeOK /\ op[f] \in Run(f)
  BY Here DEF Typed
<1>2. /\ op' = [op EXCEPT ![f] = [op[f] EXCEPT !.state = "ended", !.result = Result(f)]]
      /\ UNCHANGED slots /\ thread' = thread /\ UNCHANGED database
  BY <1>1 DEF End, TypeOK
<1>3. Result(f) \in {"ok", "partial", "error"}
  BY DEF Result
<1>4. /\ Fetches = DOMAIN op' /\ \A g \in Fetches \ {f} : op'[g] = op[g]
      /\ op'[f] \in Run(f) /\ op'[f].state = "ended" /\ op'[f].plan = op[f].plan
      /\ op'[f].work = op[f].work /\ op'[f].counted = op[f].counted
      /\ op'[f].requests = op[f].requests /\ op'[f].result = Result(f)
  BY <1>1, <1>2, <1>3 DEF Run, TypeOK, States, Results
<1>5. \A i \in Threads(f) : ~Busy(f, i)
  BY NobodyAtWork DEF End
<1> QED BY <1>2, <1>4, <1>5, OkEnds, EndedKeeps

\* The work of a fetch changes in units that no thread has.
Reworked(f, w) ==
  /\ op' = [op EXCEPT ![f].work = w] /\ w \in [Ops[f].units -> Statuses]
  /\ \A u \in Ops[f].units :
       \/ w[u] = op[f].work[u]
       \/ op[f].work[u] \in {"todo", "ok"} /\ w[u] \in {"cancelled", "saved", "persistence"}

LEMMA WorkKeeps ==
  ASSUME IInv, NEW f \in Fetches, thread' = thread, UNCHANGED slots, fresh' = fresh,
         op[f].state = "running", NEW w, Reworked(f, w),
         \A u \in op[f].plan : /\ w[u] = "cancelled" => Stopped(f)'
                               /\ w[u] = "saved" => u \in stored'[f],
         Ops[f].threads = 1 /\ Stopped(f)' => \A i \in Threads(f) : ~Busy(f, i),
         Fetches = DOMAIN stored', \A g \in Fetches \ {f} : stored'[g] = stored[g],
         stored[f] \subseteq stored'[f], stored'[f] \subseteq Ops[f].units
  PROVE  IInv'
<1>1. /\ Typed(f) /\ FetchInv(f) /\ TypeOK /\ op[f] \in Run(f)
      /\ \A i \in Threads(f) : thread[f][i] \in Task /\ (Busy(f, i) => AtWork(f, i))
  BY Here DEF Typed
<1>2. /\ Fetches = DOMAIN op' /\ \A g \in Fetches \ {f} : op'[g] = op[g]
      /\ op'[f] \in Run(f) /\ op'[f].state = "running" /\ op'[f].plan = op[f].plan
      /\ op'[f].work = w /\ op'[f].counted = op[f].counted
      /\ op'[f].requests = op[f].requests /\ op'[f].result = op[f].result
  BY <1>1 DEF Run, TypeOK, Reworked
<1>3. Typed(f)' /\ OthersStay(f)
  BY <1>1, <1>2 DEF Typed, OthersStay, TypeOK
<1>4. op[f].plan \subseteq Ops[f].units
  BY <1>1 DEF Run
<1>5. ThreadsAtWork(f)'
  <2>1. ASSUME NEW i \in Threads(f), Busy(f, i)' PROVE Busy(f, i) /\ AtWork(f, i)'
    <3>1. Busy(f, i) /\ AtWork(f, i)
      BY <1>1, <2>1 DEF Busy
    <3>2. thread[f][i].unit \in Ops[f].units /\ w[thread[f][i].unit] = "busy"
      BY <1>4, <3>1 DEF AtWork, Reworked
    <3> QED BY <1>2, <3>1, <3>2 DEF AtWork
  <2> QED BY <1>1, <2>1 DEF FetchInv, ThreadsAtWork, Busy
<1>6. UnitsSound(f)'
  <2>1. UnitRequests(f)' = UnitRequests(f)
    BY <1>2 DEF UnitRequests
  <2>2. ASSUME NEW u \in op[f].plan
        PROVE  /\ w[u] # "left" /\ (w[u] = "todo" => op[f].counted[u] = 0)
               /\ w[u] = "exhausted" => op[f].requests > Cardinality(UnitRequests(f))
    BY <1>1, <1>4 DEF FetchInv, UnitsSound, Reworked
  <2> QED BY <1>1, <1>2, <2>1, <2>2 DEF FetchInv, UnitsSound
<1>7. ResultSound(f)'
  BY <1>1, <1>2, Numbers DEF FetchInv, ResultSound
<1> QED BY <1>3, <1>5, <1>6, <1>7, FetchStepKeeps DEF FetchInv

LEMMA CancelKeeps ==
  ASSUME IInv, NEW f \in Fetches, Cancel(f)
  PROVE  IInv'
<1> DEFINE w == [u \in Ops[f].units |->
                   IF op[f].work[u] = "todo" THEN "cancelled" ELSE op[f].work[u]]
<1>1. Typed(f) /\ FetchInv(f) /\ TypeOK /\ op[f] \in Run(f)
  BY Here DEF Typed
<1>2. /\ op[f].state = "running" /\ Ops[f].threads > 1 /\ op' = [op EXCEPT ![f].work = w]
      /\ UNCHANGED slots /\ thread' = thread /\ stored' = stored /\ fresh' = fresh
  BY DEF Cancel, database
<1>3. w \in [Ops[f].units -> Statuses]
  BY <1>1 DEF Run, Statuses
<1>4. PICK v \in op[f].plan : Fatal(f, v)
  BY DEF Cancel
<1>5. op[f].plan \subseteq Ops[f].units
  BY <1>1 DEF Run
<1>6. w[v] = op[f].work[v]
  BY <1>4, <1>5 DEF Fatal, Failed, Pending
<1>7. \A u \in Ops[f].units :
        w[u] = op[f].work[u] \/ (op[f].work[u] = "todo" /\ w[u] = "cancelled")
  OBVIOUS
<1> HIDE DEF w
<1>8. Stopped(f)'
  <2>1. op'[f].work = w /\ op'[f].plan = op[f].plan
    BY <1>1, <1>2 DEF Run, TypeOK
  <2> QED BY <1>4, <1>6, <2>1 DEF Stopped, Fatal, Failed
<1>9. \A u \in op[f].plan : w[u] = "saved" => u \in stored'[f]
  BY <1>1, <1>2, <1>5, <1>7 DEF FetchInv, UnitsSound
<1>10. /\ Fetches = DOMAIN stored' /\ \A g \in Fetches \ {f} : stored'[g] = stored[g]
       /\ stored[f] \subseteq stored'[f] /\ stored'[f] \subseteq Ops[f].units
  BY <1>1, <1>2 DEF Typed, TypeOK
<1>11. Ops[f].threads # 1
  BY <1>2, Settings
<1>12. Reworked(f, w)
  BY <1>2, <1>3, <1>7 DEF Reworked
<1> QED BY <1>2, <1>8, <1>9, <1>10, <1>11, <1>12, WorkKeeps

LEMMA StoreAllKeeps ==
  ASSUME IInv, NEW f \in Fetches, StoreAll(f)
  PROVE  IInv'
<1> DEFINE w == [u \in Ops[f].units |-> IF u \in Kept(f) THEN "saved" ELSE op[f].work[u]]
<1>1. Typed(f) /\ FetchInv(f) /\ TypeOK /\ op[f] \in Run(f)
  BY Here DEF Typed
<1>2. /\ op[f].state = "running" /\ NoneLeft(f) /\ ~Stopped(f)
      /\ UNCHANGED slots /\ thread' = thread /\ fresh' = fresh
      /\ stored' = [stored EXCEPT ![f] = @ \cup Kept(f)]
  BY DEF StoreAll, Storing
<1>3. op' = [op EXCEPT ![f].work = w]
  BY <1>1 DEF StoreAll, TypeOK
<1>4. w \in [Ops[f].units -> Statuses]
  BY <1>1 DEF Run, Statuses, Endings
<1>5. Kept(f) \subseteq Ops[f].units /\ op[f].plan \subseteq Ops[f].units
  BY <1>1 DEF Run, Kept
<1>6. \A u \in Ops[f].units :
        w[u] = op[f].work[u] \/ (op[f].work[u] = "ok" /\ w[u] = "saved" /\ u \in Kept(f))
  BY DEF Kept
<1> HIDE DEF w
<1>7. /\ Fetches = DOMAIN stored' /\ stored'[f] = stored[f] \cup Kept(f)
      /\ \A g \in Fetches \ {f} : stored'[g] = stored[g]
      /\ stored'[f] \subseteq Ops[f].units
  BY <1>1, <1>2, <1>5 DEF TypeOK, Typed
<1>8. \A u \in op[f].plan : w[u] # "cancelled" /\ (w[u] = "saved" => u \in stored'[f])
  BY <1>1, <1>2, <1>5, <1>6, <1>7 DEF FetchInv, UnitsSound
<1>9. \A i \in Threads(f) : ~Busy(f, i)
  BY <1>2, NobodyAtWork
<1>10. Reworked(f, w)
  BY <1>3, <1>4, <1>6 DEF Reworked
<1>11. stored[f] \subseteq stored'[f]
  BY <1>7
<1> QED BY <1>2, <1>7, <1>8, <1>9, <1>10, <1>11, WorkKeeps

LEMMA StoreAllFailsKeeps ==
  ASSUME IInv, NEW f \in Fetches, StoreAllFails(f)
  PROVE  IInv'
<1> DEFINE w == [u \in Ops[f].units |-> IF u \in Kept(f) THEN "persistence" ELSE op[f].work[u]]
<1>1. Typed(f) /\ FetchInv(f) /\ TypeOK /\ op[f] \in Run(f)
  BY Here DEF Typed
<1>2. /\ op[f].state = "running" /\ NoneLeft(f) /\ ~Stopped(f)
      /\ UNCHANGED slots /\ thread' = thread /\ stored' = stored /\ fresh' = fresh
  BY DEF StoreAllFails, Storing, database
<1>3. op' = [op EXCEPT ![f].work = w]
  BY <1>1 DEF StoreAllFails, TypeOK
<1>4. w \in [Ops[f].units -> Statuses]
  BY <1>1 DEF Run, Statuses, Endings
<1>5. op[f].plan \subseteq Ops[f].units
  BY <1>1 DEF Run
<1>6. \A u \in Ops[f].units :
        w[u] = op[f].work[u] \/ (op[f].work[u] = "ok" /\ w[u] = "persistence")
  BY DEF Kept
<1> HIDE DEF w
<1>7. \A u \in op[f].plan : w[u] # "cancelled" /\ (w[u] = "saved" => u \in stored'[f])
  BY <1>1, <1>2, <1>5, <1>6 DEF FetchInv, UnitsSound
<1>8. \A i \in Threads(f) : ~Busy(f, i)
  BY <1>2, NobodyAtWork
<1>9. /\ Fetches = DOMAIN stored' /\ \A g \in Fetches \ {f} : stored'[g] = stored[g]
      /\ stored[f] \subseteq stored'[f] /\ stored'[f] \subseteq Ops[f].units
  BY <1>1, <1>2 DEF Typed, TypeOK
<1>10. Reworked(f, w)
  BY <1>3, <1>4, <1>6 DEF Reworked
<1> QED BY <1>2, <1>7, <1>8, <1>9, <1>10, WorkKeeps

\* A new run has counted nothing, and no thread is left of the one before.
FreshRun(f, plan, o) ==
  /\ o \in Run(f) /\ [o EXCEPT !.state = "ended"] \in Run(f)
  /\ o.state = "running" /\ o.plan = plan /\ o.requests = 0 /\ o.result = None
  /\ \A u \in Ops[f].units : o.work[u] = IF u \in plan THEN "todo" ELSE "left"
  /\ \A u \in Ops[f].units : o.counted[u] = 0

LEMMA NewRunSound ==
  ASSUME NEW f \in Fetches, NEW plan \in SUBSET Ops[f].units, NEW round \in Nat
  PROVE  FreshRun(f, plan, NewRun(f, plan, round))
<1> DEFINE o == NewRun(f, plan, round)
<1>1. [u \in Ops[f].units |-> IF u \in plan THEN "todo" ELSE "left"] \in [Ops[f].units -> Statuses]
  BY DEF Statuses, Pending
<1>2. [u \in Ops[f].units |-> 0] \in [Ops[f].units -> Nat]
  OBVIOUS
<1>3. o \in Run(f)
  BY <1>1, <1>2 DEF NewRun, Run, States, Results
<1>4. [o EXCEPT !.state = "ended"] \in Run(f)
  BY <1>3 DEF Run, States
<1>5. /\ o.state = "running" /\ o.plan = plan /\ o.requests = 0 /\ o.result = None
      /\ \A u \in Ops[f].units : o.work[u] = IF u \in plan THEN "todo" ELSE "left"
      /\ \A u \in Ops[f].units : o.counted[u] = 0
  BY DEF NewRun
<1> HIDE DEF o
<1>6. FreshRun(f, plan, o)
  BY <1>3, <1>4, <1>5 DEF FreshRun
<1> QED BY <1>6 DEF o

LEMMA BeginKeeps ==
  ASSUME IInv, NEW f \in Fetches, NEW cached \in BOOLEAN, Begin(f, cached)
  PROVE  IInv'
<1> DEFINE plan == Plan(f, cached)
           round == op[f].round + 1
           o == NewRun(f, plan, round)
<1>1. Typed(f) /\ FetchInv(f) /\ TypeOK /\ op[f] \in Run(f)
  BY Here DEF Typed
<1>2. /\ op[f].state = "ended" /\ op' = [op EXCEPT ![f] = o]
      /\ UNCHANGED slots /\ thread' = thread /\ stored' = stored /\ fresh' = fresh
  BY DEF Begin, database
<1>3. plan \in SUBSET Ops[f].units /\ round \in Nat
  BY <1>1 DEF Plan, Run
<1> HIDE DEF plan, round
<1>4. FreshRun(f, plan, o)
  BY <1>3, NewRunSound
<1> HIDE DEF o
<1>5. op'[f] = o /\ Fetches = DOMAIN op' /\ \A g \in Fetches \ {f} : op'[g] = op[g]
  BY <1>1, <1>2 DEF TypeOK
<1>6. Typed(f)' /\ OthersStay(f)
  BY <1>1, <1>2, <1>4, <1>5 DEF Typed, OthersStay, TypeOK, FreshRun
<1>7. \A i \in Threads(f) : ~Busy(f, i)'
  BY <1>2, NobodyAtWork DEF Busy
<1>8. ThreadsAtWork(f)'
  BY <1>7 DEF ThreadsAtWork
<1>9. UnitsSound(f)'
  <2>1. Ops[f].unitCap \in Nat
    BY Settings
  <2> QED BY <1>3, <1>4, <1>5, <2>1 DEF UnitsSound, FreshRun
<1>10. ResultSound(f)'
  BY <1>4, <1>5, Numbers DEF ResultSound, FreshRun
<1> QED BY <1>2, <1>6, <1>8, <1>9, <1>10, FetchStepKeeps DEF FetchInv

\* Before the first request, and after a crash, every slot is free.
LEMMA AllFree ==
  ASSUME \A f \in Fetches : thread[f] = [i \in Threads(f) |-> Idle],
         \A h \in Hosts : free[h] = Slots /\ lost[h] = 0
  PROVE  Balance
<1> SUFFICES ASSUME NEW h \in Hosts
             PROVE  free[h] + lost[h] + Cardinality(Holders(h)) = Slots
  BY DEF Balance
<1>1. Holders(h) = {}
  <2> \A f \in Fetches : \A i \in Threads(f) : thread[f][i] = Idle
    OBVIOUS
  <2>1. \A f \in Fetches : \A i \in Threads(f) : ~Holds(f, i, h)
    BY DEF Holds, Idle
  <2>2. \A t \in AllTasks : \E f \in Fetches : \E i \in Threads(f) : t = <<f, i>>
    BY DEF AllTasks
  <2>3. \A t \in AllTasks : ~Holds(t[1], t[2], h)
    BY <2>1, <2>2 DEF Holds
  <2> QED BY <2>3 DEF Holders
<1>2. Cardinality(Holders(h)) = 0
  BY <1>1, FS_EmptySet
<1> QED BY <1>2, Numbers

LEMMA IdleThreads ==
  ASSUME NEW f \in Fetches
  PROVE  [i \in Threads(f) |-> Idle] \in [Threads(f) -> Task] /\ Idle.pc = "idle"
<1>1. Idle \in Task
  BY DEF Idle, Task, Steps
<1> QED BY <1>1 DEF Idle

LEMMA CrashKeeps ==
  ASSUME IInv, Crash
  PROVE  IInv'
<1>1. /\ free' = [h \in Hosts |-> Slots] /\ lost' = [h \in Hosts |-> 0]
      /\ thread' = [f \in Fetches |-> [i \in Threads(f) |-> Idle]]
      /\ op' = [f \in Fetches |-> IF op[f].state = "running"
                                  THEN [op[f] EXCEPT !.state = "ended", !.result = "unknown"]
                                  ELSE op[f]]
      /\ stored' = stored /\ fresh' = fresh
  BY DEF Crash, database
<1>2. Balance'
  <2>1. \A f \in Fetches : \A i \in Threads(f) : thread'[f][i] = Idle
    BY <1>1
  <2>2. \A h \in Hosts : free'[h] = Slots /\ lost'[h] = 0
    BY <1>1
  <2>3. ASSUME NEW h \in Hosts PROVE Holders(h)' = {}
    <3>1. \A f \in Fetches : \A i \in Threads(f) : ~Holds(f, i, h)'
      BY <2>1 DEF Holds, Idle
    <3>2. \A t \in AllTasks : \E f \in Fetches : \E i \in Threads(f) : t = <<f, i>>
      BY DEF AllTasks
    <3>3. \A t \in AllTasks : ~Holds(t[1], t[2], h)'
      BY <3>1, <3>2 DEF Holds
    <3> QED BY <3>3 DEF Holders
  <2>4. ASSUME NEW h \in Hosts PROVE Cardinality(Holders(h)') = 0
    BY <2>3, FS_EmptySet
  <2> QED BY <2>2, <2>4, Numbers DEF Balance
<1>3. ASSUME NEW f \in Fetches PROVE Typed(f)' /\ FetchInv(f)'
  <2>1. Typed(f) /\ FetchInv(f) /\ op[f] \in Run(f)
    BY Here DEF Typed
  <2>2. thread'[f] \in [Threads(f) -> Task] /\ \A i \in Threads(f) : ~Busy(f, i)'
    BY <1>1, IdleThreads DEF Busy
  <2>3. /\ op'[f] \in Run(f) /\ op'[f].state = "ended" /\ op'[f].plan = op[f].plan
        /\ op'[f].work = op[f].work /\ op'[f].counted = op[f].counted
        /\ op'[f].requests = op[f].requests
        /\ op'[f].result = op[f].result \/ op'[f].result = "unknown"
    BY <1>1, <2>1 DEF Run, States, Results
  <2>4. Typed(f)'
    BY <1>1, <2>1, <2>2, <2>3 DEF Typed
  <2>5. Stopped(f)' = Stopped(f) /\ UnitRequests(f)' = UnitRequests(f)
    BY <2>3 DEF Stopped, Fatal, Failed, UnitRequests
  <2>6. ThreadsAtWork(f)'
    BY <2>2 DEF ThreadsAtWork
  <2>7. stored' = stored
    BY <1>1
  <2>8. UnitsSound(f)'
    BY <2>1, <2>3, <2>5, <2>7 DEF FetchInv, UnitsSound
  <2>9. ResultSound(f)'
    BY <2>1, <2>3, <2>7 DEF FetchInv, ResultSound, Whole
  <2> QED BY <2>4, <2>6, <2>8, <2>9 DEF FetchInv
<1>4. free' \in [Hosts -> Nat] /\ lost' \in [Hosts -> Nat]
  BY <1>1, Numbers
<1>5. /\ Fetches = DOMAIN op' /\ Fetches = DOMAIN thread'
      /\ Fetches = DOMAIN stored' /\ Fetches = DOMAIN fresh'
  BY <1>1 DEF IInv, TypeOK
<1>6. TypeOK'
  BY <1>3, <1>4, <1>5 DEF TypeOK
<1> QED BY <1>2, <1>3, <1>6 DEF IInv

LEMMA InitSound == Init => IInv
<1> SUFFICES ASSUME Init PROVE IInv
  OBVIOUS
<1> DEFINE First(f, active) ==
             [NewRun(f, {}, IF f \in active THEN 0 ELSE Rounds[f]) EXCEPT !.state = "ended"]
<1>1. PICK active \in Scenarios : op = [f \in Fetches |-> First(f, active)]
  BY DEF Init
<1>2. /\ free = [h \in Hosts |-> Slots] /\ lost = [h \in Hosts |-> 0]
      /\ thread = [f \in Fetches |-> [i \in Threads(f) |-> Idle]]
      /\ stored = [f \in Fetches |-> {}] /\ fresh = [f \in Fetches |-> {}]
  BY DEF Init
<1>3. Balance
  BY <1>2, AllFree
<1>4. ASSUME NEW f \in Fetches PROVE Typed(f) /\ FetchInv(f)
  <2> DEFINE round == IF f \in active THEN 0 ELSE Rounds[f]
             o == NewRun(f, {}, round)
  <2>1. round \in Nat
    BY Settings
  <2> HIDE DEF round
  <2>2. FreshRun(f, {}, o)
    <3>1. {} \in SUBSET Ops[f].units
      OBVIOUS
    <3> QED BY <2>1, <3>1, NewRunSound
  <2>3. op[f] = [o EXCEPT !.state = "ended"]
    BY <1>1 DEF round
  <2> HIDE DEF o
  <2>4. /\ op[f] \in Run(f) /\ op[f].state = "ended" /\ op[f].plan = {}
        /\ op[f].result = None /\ \A u \in Ops[f].units : op[f].counted[u] = 0
    BY <2>2, <2>3 DEF Run, FreshRun
  <2>5. thread[f] \in [Threads(f) -> Task] /\ \A i \in Threads(f) : ~Busy(f, i)
    BY <1>2, IdleThreads DEF Busy
  <2>6. Typed(f)
    BY <1>2, <2>4, <2>5 DEF Typed
  <2>7. ThreadsAtWork(f) /\ ResultSound(f)
    BY <2>4, <2>5, Numbers DEF ThreadsAtWork, ResultSound
  <2>8. UnitsSound(f)
    BY <2>4, Settings DEF UnitsSound
  <2> QED BY <2>6, <2>7, <2>8 DEF FetchInv
<1>5. free \in [Hosts -> Nat] /\ lost \in [Hosts -> Nat]
  BY <1>2, Numbers
<1>6. TypeOK
  BY <1>1, <1>2, <1>4, <1>5 DEF TypeOK
<1> QED BY <1>3, <1>4, <1>6 DEF IInv

----------------------------------------------------------------------------
\* Every step of the processes, and none.

LEMMA ThreadKeeps ==
  ASSUME IInv, NEW f \in Fetches, NEW i \in Threads(f), ThreadStep(f, i)
  PROVE  IInv'
<1>1. CASE Take(f, i)
  BY <1>1, TakeKeeps
<1>2. CASE Grant(f, i)
  BY <1>2, GrantKeeps
<1>3. CASE GiveUp(f, i)
  BY <1>3, GiveUpKeeps
<1>4. CASE CancelGranted(f, i)
  BY <1>4, CancelGrantedKeeps
<1>5. CASE Dispatch(f, i)
  BY <1>5, DispatchKeeps
<1>6. CASE Refuse(f, i)
  BY <1>6, RefuseKeeps
<1>7. ASSUME NEW h \in Hosts, Redirect(f, i, h) PROVE IInv'
  BY <1>7, RedirectKeeps
<1>8. ASSUME NEW a \in Ops[f].answers, AskAgain(f, i, a) PROVE IInv'
  BY <1>8, AskAgainKeeps
<1>9. ASSUME NEW a \in Ops[f].answers, AnswerFails(f, i, a) PROVE IInv'
  BY <1>9, AnswerFailsKeeps
<1>10. ASSUME NEW a \in Ops[f].answers, AnswerServes(f, i, a) PROVE IInv'
  BY <1>10, AnswerServesKeeps
<1>11. CASE AnswerLate(f, i)
  BY <1>11, AnswerLateKeeps
<1>12. CASE StorePart(f, i)
  BY <1>12, StorePartKeeps
<1>13. CASE MarkUnit(f, i)
  BY <1>13, MarkUnitKeeps
<1>14. CASE StoreFails(f, i)
  BY <1>14, StoreFailsKeeps
<1> QED
  BY <1>1, <1>2, <1>3, <1>4, <1>5, <1>6, <1>7, <1>8, <1>9, <1>10, <1>11, <1>12, <1>13, <1>14
     DEF ThreadStep

LEMMA StutterKeeps ==
  ASSUME IInv, UNCHANGED vars
  PROVE  IInv'
<1>1. /\ thread' = thread /\ free' = free /\ lost' = lost /\ op' = op
      /\ stored' = stored /\ fresh' = fresh
  BY DEF vars
<1>2. Balance'
  BY <1>1, BalanceKept DEF IInv
<1>3. ASSUME NEW f \in Fetches PROVE Typed(f)' /\ FetchInv(f)'
  BY <1>1, Here, Elsewhere
<1>4. TypeOK'
  BY <1>1, <1>3 DEF IInv, TypeOK
<1> QED BY <1>2, <1>3, <1>4 DEF IInv

LEMMA NextKeeps == IInv /\ [Next]_vars => IInv'
<1> SUFFICES ASSUME IInv, [Next]_vars PROVE IInv'
  OBVIOUS
<1>1. ASSUME NEW f \in Fetches, NEW cached \in BOOLEAN, Begin(f, cached) PROVE IInv'
  BY <1>1, BeginKeeps
<1>2. ASSUME NEW f \in Fetches, Elapse(f) PROVE IInv'
  BY <1>2, ElapseKeeps
<1>3. ASSUME NEW f \in Fetches, Age(f) PROVE IInv'
  BY <1>3, AgeKeeps
<1>4. ASSUME NEW f \in Fetches, FetchStep(f) PROVE IInv'
  <2>1. CASE Cancel(f)
    BY <2>1, CancelKeeps
  <2>2. CASE StoreAll(f)
    BY <2>2, StoreAllKeeps
  <2>3. CASE StoreAllFails(f)
    BY <2>3, StoreAllFailsKeeps
  <2>4. CASE MarkAll(f)
    BY <2>4, MarkAllKeeps
  <2>5. CASE MarkAllFails(f)
    BY <2>5, MarkAllFailsKeeps
  <2>6. CASE End(f)
    BY <2>6, EndKeeps
  <2> QED BY <1>4, <2>1, <2>2, <2>3, <2>4, <2>5, <2>6 DEF FetchStep
<1>5. ASSUME NEW f \in Fetches, NEW i \in Threads(f), ThreadStep(f, i) PROVE IInv'
  BY <1>5, ThreadKeeps
<1>6. CASE Crash
  BY <1>6, CrashKeeps
<1>7. CASE UNCHANGED vars
  BY <1>7, StutterKeeps
<1> QED BY <1>1, <1>2, <1>3, <1>4, <1>5, <1>6, <1>7 DEF Next

LEMMA Inductive == Spec => []IInv
BY InitSound, NextKeeps, PTL DEF Spec

----------------------------------------------------------------------------
(* The state of every fetch, thread and slot keeps its type: a request is of  *)
(* a planned unit, and no host's slots fall below zero (provider_http's       *)
(* BoundedSemaphore).                                                        *)
THEOREM TypeCorrect == Spec => []TypeOK
<1>1. IInv => TypeOK
  BY DEF IInv
<1> QED BY <1>1, Inductive, PTL

\* A thread that holds a slot belongs to a fetch that has not ended.
LEMMA HoldersAreTasks ==
  ASSUME IInv, NEW h \in Hosts
  PROVE  {t \in Tasks : Holds(t[1], t[2], h)} = Holders(h)
<1>1. ASSUME NEW f \in Fetches, NEW i \in Threads(f), Holds(f, i, h) PROVE op[f].state # "ended"
  <2>1. Busy(f, i) => AtWork(f, i)
    BY Here
  <2> QED BY <1>1, <2>1 DEF Holds, Busy, AtWork
<1>2. \A t \in AllTasks : Holds(t[1], t[2], h) => t \in Tasks
  BY <1>1 DEF AllTasks, Tasks
<1>3. Tasks \subseteq AllTasks
  BY DEF AllTasks, Tasks
<1> QED BY <1>2, <1>3 DEF Holders

(* Every slot of a host is free, with a request of a fetch that has not ended *)
(* or lost to a cancelled one, whatever was redirected, retried, refused or   *)
(* late (provider_http: limiter.release in finally).                         *)
THEOREM SlotsComeBackHolds == Spec => []SlotsComeBack
<1>1. IInv => SlotsComeBack
  <2> SUFFICES ASSUME IInv PROVE SlotsComeBack
    OBVIOUS
  <2>1. Balance
    BY DEF IInv
  <2> QED BY <2>1, HoldersAreTasks DEF SlotsComeBack, Balance
<1> QED BY <1>1, Inductive, PTL

(* Retries of other units cannot spend the budget a planned unit needs: a     *)
(* unit that finds it spent finds redirects among the requests counted, for   *)
(* any number of units, attempts and threads (bcb_sgs and b3_di:              *)
(* set_request_limit).                                                       *)
THEOREM PlannedServedHolds == Spec => []PlannedServed
<1>1. IInv => PlannedServed
  BY DEF IInv, FetchInv, UnitsSound, PlannedServed
<1> QED BY <1>1, Inductive, PTL

(* A task that ended ok has an answer for every unit it planned and its rows  *)
(* in the database, whether units are stored by threads or at the end, and    *)
(* after failures, cancellations, deadlines and restarts (the fetchers'       *)
(* results of a day's tasks).                                                *)
THEOREM OkIsWholeHolds == Spec => []OkIsWhole
<1>1. IInv => OkIsWhole
  BY DEF IInv, FetchInv, ResultSound, Whole, OkIsWhole
<1> QED BY <1>1, Inductive, PTL
=============================================================================
