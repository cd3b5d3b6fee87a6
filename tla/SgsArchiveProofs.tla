-------------------------- MODULE SgsArchiveProofs --------------------------
(***************************************************************************)
(* Proofs about SgsArchive: that every plan fits its cap and can be read   *)
(* back, that what counts as covered was committed, and that a unit is     *)
(* committed once, for any series, windows, cap and number of days.        *)
(***************************************************************************)
EXTENDS SgsArchive, FiniteSetTheorems, TLAPS

-----------------------------------------------------------------------------
(* The leading elements of a finite set *)

(* A set of subsets of a finite set has a minimal one.                     *)
LEMMA Minimal ==
  ASSUME NEW S, IsFiniteSet(S), NEW F, F \subseteq SUBSET S, F # {}
  PROVE \E A \in F : \A B \in F : B \subseteq A => B = A
<1>1. IsWellFoundedOn(StrictSubsetOrdering(S), SUBSET S)
  BY FS_StrictSubsetOrderingWellFounded, FS_FiniteSubsetsOfFinite
<1>2. PICK A \in F : \A B \in F : <<B, A>> \notin StrictSubsetOrdering(S)
  BY <1>1, WFMin, Zenon
<1> QED BY <1>2 DEF StrictSubsetOrdering

LEMMA Least ==
  ASSUME NEW T, T \subseteq Nat, T # {}
  PROVE \E m \in T : \A k \in T : m <= k
<1>1. PICK n \in T : TRUE
  OBVIOUS
<1>2. PICK S : S = 0 .. n
  OBVIOUS
<1> DEFINE F == {A \in SUBSET S : \E k \in T : k <= n /\ A = 0 .. k}
<1>3. IsFiniteSet(S)
  BY <1>2, FS_Interval
<1>4. F \subseteq SUBSET S /\ F # {}
  BY <1>2
<1>5. \E A \in F : \A B \in F : B \subseteq A => B = A
  <2> HIDE DEF F
  <2> QED BY <1>3, <1>4, Minimal
<1>6. PICK A \in F : \A B \in F : B \subseteq A => B = A
  BY <1>5
<1>7. PICK m \in T : m <= n /\ A = 0 .. m
  BY <1>6
<1>8. ASSUME NEW k \in T, k < m PROVE FALSE
  <2>1. 0 .. k \in F /\ 0 .. k \subseteq A /\ m \in A /\ m \notin 0 .. k
    BY <1>2, <1>7, <1>8
  <2> QED BY <1>6, <2>1
<1> QED BY <1>7, <1>8

(* As many elements as n have fewer than n before them in a total order.   *)
LEMMA FewLead ==
  ASSUME NEW S, IsFiniteSet(S), NEW n \in Nat, NEW before \in [S -> SUBSET S],
         \A x \in S : x \notin before[x],
         \A x, y \in S : y \in before[x] => before[y] \subseteq before[x],
         \A x, y \in S : x # y => x \in before[y] \/ y \in before[x],
         NEW L \in SUBSET S, \A x \in L : Cardinality(before[x]) < n
  PROVE IsFiniteSet(L) /\ Cardinality(L) <= n
<1>1. IsFiniteSet(L) /\ Cardinality(L) \in Nat
  BY FS_Subset, FS_CardinalityType
<1>2. CASE L = {}
  BY <1>1, <1>2, FS_EmptySet
<1>3. CASE L # {}
  <2> DEFINE F == {A \in SUBSET S : \E x \in L : A = S \ before[x]}
  <2>1. F \subseteq SUBSET S /\ F # {} /\ \A x \in L : S \ before[x] \in F
    BY <1>3
  <2>2. \E A \in F : \A B \in F : B \subseteq A => B = A
    <3> HIDE DEF F
    <3> QED BY <2>1, Minimal
  <2>3. PICK A \in F : \A B \in F : B \subseteq A => B = A
    BY <2>2
  <2>4. PICK m \in L : A = S \ before[m]
    BY <2>3
  <2>5. ASSUME NEW y \in L, y # m, y \notin before[m] PROVE FALSE
    <3>1. m \in before[y] /\ before[m] \subseteq before[y] /\ before[y] \subseteq S
      BY <2>5
    <3>2. S \ before[y] \in F /\ S \ before[y] \subseteq S \ before[m]
      BY <2>1, <3>1
    <3> HIDE DEF F
    <3>3. S \ before[y] = S \ before[m]
      BY <2>3, <2>4, <3>2
    <3> QED BY <3>1, <3>3
  <2>6. PICK B \in SUBSET S : B = before[m]
    OBVIOUS
  <2>7. IsFiniteSet(B) /\ Cardinality(B) \in Nat /\ Cardinality(B) < n
    BY <2>6, FS_Subset, FS_CardinalityType
  <2>8. /\ IsFiniteSet(B \cup {m}) /\ Cardinality(B \cup {m}) \in Nat
        /\ Cardinality(B \cup {m}) <= Cardinality(B) + 1
    <3>1. /\ IsFiniteSet(B \cup {m})
          /\ Cardinality(B \cup {m}) = IF m \in B THEN Cardinality(B) ELSE Cardinality(B) + 1
      BY <2>7, FS_AddElement
    <3> QED BY <2>7, <3>1
  <2>9. Cardinality(L) <= Cardinality(B \cup {m})
    <3>1. L \in SUBSET (B \cup {m})
      BY <2>5, <2>6
    <3> QED BY <2>8, <3>1, FS_Subset
  <2> QED BY <1>1, <2>7, <2>8, <2>9
<1> QED BY <1>2, <1>3

(* Keys of one length are in a total order.                                *)
LEMMA KeysOrdered ==
  ASSUME NEW k \in Nat, NEW s \in [1 .. k -> Int], NEW t \in [1 .. k -> Int]
  PROVE /\ ~Before(s, s)
        /\ s # t => Before(s, t) \/ Before(t, s)
        /\ \A u \in [1 .. k -> Int] : Before(s, t) /\ Before(t, u) => Before(s, u)
<1>1. ~Before(s, s)
  BY DEF Before
<1>2. ASSUME s # t PROVE Before(s, t) \/ Before(t, s)
  <2> DEFINE T == {i \in 1 .. k : s[i] # t[i]}
  <2>1. T \subseteq Nat /\ T # {}
    BY <1>2
  <2>2. PICK m \in T : \A i \in T : m <= i
    BY <2>1, Least
  <2>3. m \in 1 .. k /\ s[m] # t[m] /\ \A j \in 1 .. m - 1 : s[j] = t[j]
    BY <2>2
  <2>4. s[m] < t[m] \/ t[m] < s[m]
    BY <2>3
  <2>5. DOMAIN s = 1 .. k /\ DOMAIN t = 1 .. k
    OBVIOUS
  <2> QED BY <2>3, <2>4, <2>5 DEF Before
<1>3. ASSUME NEW u \in [1 .. k -> Int], Before(s, t), Before(t, u) PROVE Before(s, u)
  <2>1. PICK i \in 1 .. k : s[i] < t[i] /\ \A j \in 1 .. i - 1 : s[j] = t[j]
    BY <1>3 DEF Before
  <2>2. PICK j \in 1 .. k : t[j] < u[j] /\ \A h \in 1 .. j - 1 : t[h] = u[h]
    BY <1>3 DEF Before
  <2>3. CASE i <= j
    <3>1. s[i] < u[i] /\ \A h \in 1 .. i - 1 : s[h] = u[h]
      BY <2>1, <2>2, <2>3
    <3> QED BY <3>1 DEF Before
  <2>4. CASE j < i
    <3>1. s[j] < u[j] /\ \A h \in 1 .. j - 1 : s[h] = u[h]
      BY <2>1, <2>2, <2>4
    <3> QED BY <3>1 DEF Before
  <2> QED BY <2>3, <2>4
<1> QED BY <1>1, <1>2, <1>3

(* At most n elements lead a finite set whose elements have distinct keys. *)
LEMMA LeadingCount ==
  ASSUME NEW S, IsFiniteSet(S), NEW n \in Nat, NEW k \in Nat, NEW key \in [S -> [1 .. k -> Int]],
         \A x, y \in S : key[x] = key[y] => x = y,
         NEW L \in SUBSET S, \A x \in L : Cardinality({y \in S : Before(key[y], key[x])}) < n
  PROVE IsFiniteSet(L) /\ Cardinality(L) <= n
<1> DEFINE before == [x \in S |-> {y \in S : Before(key[y], key[x])}]
<1>1. before \in [S -> SUBSET S] /\ \A x \in S : x \notin before[x]
  BY KeysOrdered
<1>2. \A x, y \in S : y \in before[x] => before[y] \subseteq before[x]
  BY KeysOrdered
<1>3. \A x, y \in S : x # y => x \in before[y] \/ y \in before[x]
  BY KeysOrdered
<1>4. \A x \in L : Cardinality(before[x]) < n
  OBVIOUS
<1> HIDE DEF before
<1> QED BY <1>1, <1>2, <1>3, <1>4, FewLead

(* What a function maps a finite set to is not larger.                     *)
LEMMA ImageCount ==
  ASSUME NEW S, IsFiniteSet(S), NEW f, DOMAIN f = S
  PROVE LET T == {f[x] : x \in S}
        IN IsFiniteSet(T) /\ Cardinality(T) <= Cardinality(S)
<1> DEFINE T == {f[x] : x \in S}
           g == [x \in S |-> f[x]]
<1>1. g \in Surjection(S, T)
  BY DEF Surjection
<1> QED BY <1>1, FS_Surjection

-----------------------------------------------------------------------------
(* What a day's plan is built of *)

LEMMA Numbers ==
  /\ Codes \subseteq Int /\ Windows \subseteq Int /\ Runs \subseteq Int
  /\ IsFiniteSet(Runs \X Codes) /\ IsFiniteSet(Codes \X Windows)
<1>1. /\ Codes \subseteq Nat /\ IsFiniteSet(Codes)
      /\ LastWindow \in Int /\ Days \in Int /\ 0 \in Int /\ 1 \in Int
  BY SgsAssumption
<1>2. IsFiniteSet(Runs) /\ IsFiniteSet(Windows)
  BY <1>1, FS_Interval DEF Runs, Windows
<1>3. IsFiniteSet(Runs \X Codes) /\ IsFiniteSet(Codes \X Windows)
  BY <1>1, <1>2, FS_Product
<1> QED BY <1>1, <1>3 DEF Runs, Windows

LEMMA UnitTyped ==
  ASSUME TypeOK, NEW r \in Runs, NEW c \in Codes
  PROVE /\ plan[r][c] \in UnitType /\ plan[r][c].window \in Int /\ r \in Int /\ c \in Nat
        /\ plan[r][c].role \in Roles
BY SgsAssumption DEF TypeOK, UnitType, Windows, NoWindow, Runs

(* Of the days on which a window was covered one is the last.              *)
LEMMA DueDayTyped ==
  ASSUME NEW c \in Codes, NEW w \in Windows, Verified(c, w)
  PROVE DueDay(c, w) \in Int
<1> DEFINE T == {n \in Nat : \E r \in Proofs(c, w) : n = Days - r}
<1>1. Days \in Nat /\ ReverifyDays \in Nat /\ Proofs(c, w) \subseteq 0 .. Days
  BY SgsAssumption DEF Proofs, Runs
<1>2. T \subseteq Nat /\ T # {}
  BY <1>1 DEF Verified
<1>3. PICK m \in T : \A n \in T : m <= n
  BY <1>2, Least
<1>4. \E r \in Proofs(c, w) : \A q \in Proofs(c, w) : q <= r
  <2>1. PICK r \in Proofs(c, w) : m = Days - r
    BY <1>3
  <2>2. ASSUME NEW q \in Proofs(c, w) PROVE q <= r
    <3>1. Days - q \in T
      BY <1>1
    <3> QED BY <1>1, <1>3, <2>1, <3>1
  <2> QED BY <2>2
<1> QED BY <1>1, <1>4 DEF DueDay

(* Of each series one intent is carried over, and of the series the cap.   *)
LEMMA CarriedSound ==
  ASSUME TypeOK, NEW d \in 1 .. Days
  PROVE /\ Carried(d) \subseteq Runs \X Codes
        /\ IsFiniteSet(Carried(d)) /\ Cardinality(Carried(d)) <= Cap
        /\ \A u \in Carried(d) : Archived(plan[u[1]][u[2]].window, d)
<1> DEFINE intents == {u \in PendingUnits : Carryable(u, d)}
           Key(u) == <<plan[u[1]][u[2]].window, u[1]>>
           oldest == {u \in intents : \A v \in intents : v[2] = u[2] => ~Before(Key(v), Key(u))}
           series == [u \in oldest |-> <<u[2]>>]
<1>1. intents \subseteq Runs \X Codes /\ oldest \subseteq intents
  BY DEF PendingUnits, Leading, Pending
<1>2. IsFiniteSet(oldest)
  <2>1. oldest \in SUBSET (Runs \X Codes)
    BY <1>1
  <2> HIDE DEF oldest
  <2> QED BY <2>1, Numbers, FS_Subset
<1>3. \A u, v \in oldest : u[2] = v[2] => u = v
  <2>1. ASSUME NEW u \in oldest, NEW v \in oldest, u[2] = v[2], u # v PROVE FALSE
    <3>1. Key(u) \in [1 .. 2 -> Int] /\ Key(v) \in [1 .. 2 -> Int] /\ u[1] # v[1]
      BY <1>1, <2>1, UnitTyped
    <3>2. Key(u) # Key(v)
      BY <3>1
    <3> HIDE DEF Key
    <3>3. Before(Key(u), Key(v)) \/ Before(Key(v), Key(u))
      BY <3>1, <3>2, KeysOrdered
    <3> QED BY <2>1, <3>3
  <2> QED BY <2>1
<1>4. series \in [oldest -> [1 .. 1 -> Int]] /\ \A u, v \in oldest : series[u] = series[v] => u = v
  <2>1. \A u \in oldest : u[2] \in Int
    BY <1>1, Numbers
  <2>2. \A u \in oldest : <<u[2]>> \in [1 .. 1 -> Int]
    BY <2>1
  <2> QED BY <1>3, <2>2
<1>5. Carried(d) = {u \in oldest : Cardinality({v \in oldest : Before(<<v[2]>>, <<u[2]>>)}) < Cap}
  BY DEF Carried, Leading
<1>6. \A u \in oldest : {v \in oldest : Before(<<v[2]>>, <<u[2]>>)}
                       = {v \in oldest : Before(series[v], series[u])}
  OBVIOUS
<1>7. /\ Carried(d) \in SUBSET oldest
      /\ \A u \in Carried(d) : Cardinality({v \in oldest : Before(series[v], series[u])}) < Cap
  <2> HIDE DEF oldest, series
  <2> QED BY <1>5, <1>6
<1>8. IsFiniteSet(Carried(d)) /\ Cardinality(Carried(d)) <= Cap
  <2> HIDE DEF oldest, series
  <2>1. PICK S, key, k, L : S = oldest /\ key = series /\ k = 1 /\ L = Carried(d)
    OBVIOUS
  <2>2. /\ Cap \in Nat /\ k \in Nat /\ IsFiniteSet(S) /\ key \in [S -> [1 .. k -> Int]]
        /\ \A u, v \in S : key[u] = key[v] => u = v
        /\ L \in SUBSET S /\ \A u \in L : Cardinality({v \in S : Before(key[v], key[u])}) < Cap
    BY <1>2, <1>4, <1>7, <2>1, SgsAssumption
  <2>3. IsFiniteSet(L) /\ Cardinality(L) <= Cap
    BY <2>2, LeadingCount
  <2> QED BY <2>1, <2>3
<1>9. \A u \in Carried(d) : Carryable(u, d)
  BY <1>7
<1> QED BY <1>1, <1>7, <1>8, <1>9 DEF Carryable

(* The rest of the cap is left to the best windows of other series.        *)
LEMMA SelectedSound ==
  ASSUME TypeOK, NEW d \in 1 .. Days, NEW carried, IsFiniteSet(carried),
         Cardinality(carried) <= Cap
  PROVE LET chosen == Selected(carried, d)
        IN /\ chosen \subseteq Codes \X Windows /\ IsFiniteSet(chosen)
           /\ Cardinality(chosen) <= Cap - Cardinality(carried)
           /\ \A x \in chosen : Archived(x[2], d)
<1> DEFINE chosen == Selected(carried, d)
           free == {x \in Candidates(d) : \A u \in carried : u[2] # x[1]}
           best == {x \in free : \A y \in free : x[1] = y[1] => ~Before(Rank(y), Rank(x))}
           rank == [x \in best |-> Rank(x)]
<1>1. best \subseteq Candidates(d) /\ Candidates(d) \subseteq Codes \X Windows
  BY DEF Candidates
<1>2. IsFiniteSet(best)
  <2>1. best \in SUBSET (Codes \X Windows)
    BY <1>1
  <2> HIDE DEF best
  <2> QED BY <2>1, Numbers, FS_Subset
<1>3. \A x \in best : /\ Rank(x) \in [1 .. 5 -> Int]
                      /\ Rank(x)[4] = x[1] /\ Rank(x)[5] = x[2]
  <2>1. ASSUME NEW x \in best
        PROVE Rank(x) \in [1 .. 5 -> Int] /\ Rank(x)[4] = x[1] /\ Rank(x)[5] = x[2]
    <3>1. x[1] \in Codes /\ x[2] \in Windows /\ x[1] \in Int /\ x[2] \in Int
      BY <1>1, Numbers
    <3>2. (IF Verified(x[1], x[2]) THEN DueDay(x[1], x[2]) ELSE 0) \in Int
      BY <3>1, DueDayTyped
    <3> HIDE DEF best
    <3> QED BY <3>1, <3>2 DEF Rank
  <2> QED BY <2>1
<1>4. rank \in [best -> [1 .. 5 -> Int]] /\ \A x, y \in best : rank[x] = rank[y] => x = y
  <2>1. \A x \in best : x = <<x[1], x[2]>>
    BY <1>1
  <2> HIDE DEF best
  <2> QED BY <1>3, <2>1
<1>5. chosen = {x \in best : Cardinality({y \in best : Before(Rank(y), Rank(x))})
                             < Cap - Cardinality(carried)}
  BY DEF Selected, Leading
<1>6. \A x \in best : {y \in best : Before(Rank(y), Rank(x))}
                     = {y \in best : Before(rank[y], rank[x])}
  OBVIOUS
<1>7. /\ chosen \in SUBSET best
      /\ \A x \in chosen : Cardinality({y \in best : Before(rank[y], rank[x])})
                          < Cap - Cardinality(carried)
  <2> HIDE DEF best, rank, chosen
  <2> QED BY <1>5, <1>6
<1>8. IsFiniteSet(chosen) /\ Cardinality(chosen) <= Cap - Cardinality(carried)
  <2> HIDE DEF best, rank, chosen
  <2>1. PICK S, key, k, L, n : /\ S = best /\ key = rank /\ k = 5 /\ L = chosen
                              /\ n = Cap - Cardinality(carried)
    OBVIOUS
  <2>2. n \in Nat /\ k \in Nat
    BY <2>1, SgsAssumption, FS_CardinalityType
  <2>3. /\ IsFiniteSet(S) /\ key \in [S -> [1 .. k -> Int]]
        /\ \A x, y \in S : key[x] = key[y] => x = y
        /\ L \in SUBSET S /\ \A x \in L : Cardinality({y \in S : Before(key[y], key[x])}) < n
    BY <1>2, <1>4, <1>7, <2>1
  <2>4. IsFiniteSet(L) /\ Cardinality(L) <= n
    BY <2>2, <2>3, LeadingCount
  <2> QED BY <2>1, <2>4
<1>9. chosen \subseteq Candidates(d)
  <2> HIDE DEF chosen, rank
  <2> QED BY <1>1, <1>7
<1>10. \A x \in Candidates(d) : Archived(x[2], d)
  BY DEF Candidates
<1> HIDE DEF chosen
<1>11. /\ chosen \subseteq Codes \X Windows /\ \A x \in chosen : Archived(x[2], d)
  BY <1>1, <1>9, <1>10
<1> QED BY <1>8, <1>11 DEF chosen

(* The plan of a day: within the cap, of archive windows of that day, and  *)
(* nothing of it covered.                                                  *)
LEMMA BuiltSound ==
  ASSUME TypeOK, NEW d \in 1 .. Days, NEW built, built = Built(d)
  PROVE /\ built \in [Codes -> UnitType]
        /\ \A c \in Codes : /\ built[c].status # "verified"
                            /\ built[c].window # NoWindow => Archived(built[c].window, d)
        /\ Cardinality({c \in Codes : built[c].window # NoWindow}) <= Cap
<1>1. PICK carried : carried = Carried(d)
  OBVIOUS
<1>2. PICK chosen : chosen = Selected(carried, d)
  OBVIOUS
<1>3. /\ carried \subseteq Runs \X Codes /\ IsFiniteSet(carried) /\ Cardinality(carried) <= Cap
      /\ \A u \in carried : Archived(plan[u[1]][u[2]].window, d)
  BY <1>1, CarriedSound
<1>4. /\ chosen \subseteq Codes \X Windows /\ IsFiniteSet(chosen)
      /\ Cardinality(chosen) <= Cap - Cardinality(carried)
      /\ \A x \in chosen : Archived(x[2], d)
  BY <1>2, <1>3, SelectedSound
<1>5. PICK units : units = {Again(u) : u \in carried} \cup {Anew(x) : x \in chosen}
  OBVIOUS
<1>6. built = [c \in Codes |-> IF \E u \in units : u.code = c
                               THEN (CHOOSE u \in units : u.code = c).unit ELSE NoUnit]
  BY <1>1, <1>2, <1>5 DEF Built, Units
<1>7. ASSUME NEW u \in units
      PROVE /\ u.unit \in UnitType /\ u.unit.status = "reserved" /\ Archived(u.unit.window, d)
            /\ (\E v \in carried : u.code = v[2]) \/ (\E x \in chosen : u.code = x[1])
  <2>1. ASSUME NEW v \in carried, u = Again(v) PROVE u.code = v[2] /\ u.unit \in UnitType
               /\ u.unit.status = "reserved" /\ Archived(u.unit.window, d)
    <3>1. plan[v[1]][v[2]] \in UnitType
      BY <1>3, UnitTyped
    <3> QED BY <1>3, <2>1, <3>1 DEF Again, Unit, UnitType
  <2>2. ASSUME NEW x \in chosen, u = Anew(x) PROVE u.code = x[1] /\ u.unit \in UnitType
               /\ u.unit.status = "reserved" /\ Archived(u.unit.window, d)
    BY <1>4, <2>2 DEF Anew, Unit, UnitType, Roles
  <2> QED BY <1>5, <2>1, <2>2
<1>8. ASSUME NEW c \in Codes
      PROVE \/ built[c] = NoUnit
            \/ \E u \in units : u.code = c /\ built[c] = u.unit
  BY <1>6
<1>9. NoUnit \in UnitType /\ NoUnit.status # "verified" /\ NoUnit.window = NoWindow
  BY DEF NoUnit, UnitType, Roles
<1>10. /\ built \in [Codes -> UnitType]
       /\ \A c \in Codes : /\ built[c].status # "verified"
                           /\ built[c].window # NoWindow => Archived(built[c].window, d)
  <2>1. ASSUME NEW c \in Codes
        PROVE /\ built[c] \in UnitType /\ built[c].status # "verified"
              /\ built[c].window # NoWindow => Archived(built[c].window, d)
    BY <1>7, <1>8, <1>9
  <2> QED BY <1>6, <2>1
<1>11. Cardinality({c \in Codes : built[c].window # NoWindow}) <= Cap
  <2>1. PICK f, g : f = [u \in carried |-> u[2]] /\ g = [x \in chosen |-> x[1]]
    OBVIOUS
  <2>2. PICK A, B : A = {f[u] : u \in carried} /\ B = {g[x] : x \in chosen}
    OBVIOUS
  <2>3. /\ IsFiniteSet(A) /\ Cardinality(A) <= Cardinality(carried)
        /\ IsFiniteSet(B) /\ Cardinality(B) <= Cardinality(chosen)
    BY <1>3, <1>4, <2>1, <2>2, ImageCount
  <2>4. PICK planned : planned = {c \in Codes : built[c].window # NoWindow}
    OBVIOUS
  <2>5. planned \in SUBSET (A \cup B)
    <3>1. ASSUME NEW c \in planned PROVE c \in A \cup B
      <4>1. PICK u \in units : u.code = c
        BY <1>8, <1>9, <2>4, <3>1
      <4> QED BY <1>7, <2>1, <2>2, <4>1
    <3> QED BY <3>1
  <2>6. IsFiniteSet(A \cup B) /\ Cardinality(A \cup B) <= Cardinality(A) + Cardinality(B)
    <3>1. /\ IsFiniteSet(A \cup B) /\ IsFiniteSet(A \cap B)
          /\ Cardinality(A \cup B) = Cardinality(A) + Cardinality(B) - Cardinality(A \cap B)
      <4>1. A \cap B \in SUBSET A
        OBVIOUS
      <4> QED BY <2>3, <4>1, FS_Union, FS_Subset
    <3>2. /\ Cardinality(A) \in Nat /\ Cardinality(B) \in Nat
          /\ Cardinality(A \cap B) \in Nat
      BY <2>3, <3>1, FS_CardinalityType
    <3> QED BY <3>1, <3>2
  <2>7. Cardinality(planned) <= Cardinality(A \cup B) /\ IsFiniteSet(planned)
    BY <2>5, <2>6, FS_Subset
  <2>8. /\ Cardinality(planned) \in Nat /\ Cardinality(A \cup B) \in Nat
        /\ Cardinality(A) \in Nat /\ Cardinality(B) \in Nat
        /\ Cardinality(carried) \in Nat /\ Cardinality(chosen) \in Nat /\ Cap \in Nat
    BY <1>3, <1>4, <2>3, <2>6, <2>7, FS_CardinalityType, SgsAssumption
  <2>9. Cardinality(planned) <= Cap
    BY <1>4, <2>3, <2>6, <2>7, <2>8
  <2> QED BY <2>4, <2>9
<1> QED BY <1>10, <1>11

-----------------------------------------------------------------------------
(* Each step *)

LEMMA Facts ==
  ASSUME ArchiveInv, NEW c \in Codes
  PROVE /\ TypeOK /\ Working(c) /\ day \in Runs /\ commits \in [Codes -> SUBSET Attempts]
        /\ item \in [Codes -> [status : {"pending", "claimed"} \cup Settled,
                              attempt : 0 .. MaxAttempts]]
        /\ item[c] \in [status : {"pending", "claimed"} \cup Settled, attempt : 0 .. MaxAttempts]
        /\ stage \in [Codes -> {"idle", "fetch", "cover", "settle", "promote"}]
        /\ Days \in Nat /\ MaxAttempts \in Nat \ {0}
BY SgsAssumption DEF ArchiveInv, TypeOK

LEMMA OutcomeTyped ==
  ASSUME ArchiveInv, NEW c \in Codes, NEW f \in [Attempts -> {"none", "open", "completed",
                                                         "outcome_unknown", "committed"}],
         outcome' = [outcome EXCEPT ![c] = f]
  PROVE outcome' \in [Codes -> [Attempts ->
          {"none", "open", "completed", "outcome_unknown", "committed"}]]
BY DEF ArchiveInv, TypeOK

LEMMA CloseTyped ==
  ASSUME ArchiveInv, NEW c \in Codes, NEW how \in {"completed", "outcome_unknown"}, Close(c, how)
  PROVE outcome' \in [Codes -> [Attempts ->
          {"none", "open", "completed", "outcome_unknown", "committed"}]]
<1> DEFINE f == [outcome[c] EXCEPT ![item[c].attempt] = how]
<1>1. f \in [Attempts -> {"none", "open", "completed", "outcome_unknown", "committed"}]
  BY DEF ArchiveInv, TypeOK
<1>2. outcome' = [outcome EXCEPT ![c] = f]
  BY DEF Close
<1> HIDE DEF f
<1> QED BY <1>1, <1>2, OutcomeTyped

(* What is planned and covered stands while a request moves on.            *)
LEMMA BooksStand ==
  ASSUME ArchiveInv, NEW c \in Codes, UNCHANGED <<day, plan, coverage, cursor>>,
         item' \in [Codes -> [status : {"pending", "claimed"} \cup Settled, attempt : 0 .. MaxAttempts]],
         stage' \in [Codes -> {"idle", "fetch", "cover", "settle", "promote"}],
         commits' \in [Codes -> SUBSET Attempts],
         outcome' \in [Codes -> [Attempts ->
           {"none", "open", "completed", "outcome_unknown", "committed"}]],
         \A b \in Codes \ {c} : /\ item'[b] = item[b] /\ stage'[b] = stage[b]
                               /\ commits'[b] = commits[b],
         Working(c)', commits[c] \subseteq commits'[c], Cardinality(commits'[c]) <= 1
  PROVE ArchiveInv'
<1>1. TypeOK'
  BY DEF ArchiveInv, TypeOK
<1>2. Unplanned' /\ PlanReads'
  BY DEF ArchiveInv, Unplanned, PlanReads, HasUnit
<1>3. CoverageProven'
  <2>1. ASSUME NEW b \in Codes, b \in coverage[day] PROVE commits'[b] # {}
    BY <2>1 DEF ArchiveInv, CoverageProven
  <2> QED BY <2>1 DEF ArchiveInv, CoverageProven
<1>4. CommittedOnce'
  BY DEF ArchiveInv, CommittedOnce
<1>5. ASSUME NEW b \in Codes PROVE Working(b)'
  BY DEF ArchiveInv, Working, HasUnit
<1> QED BY <1>1, <1>2, <1>3, <1>4, <1>5 DEF ArchiveInv

LEMMA StartDayKeeps ==
  ASSUME ArchiveInv, StartDay
  PROVE ArchiveInv'
<1>1. /\ TypeOK /\ day \in 0 .. Days /\ day + 1 \in 1 .. Days /\ day + 1 \in Runs
      /\ Runs = 0 .. Days /\ Days \in Nat
  BY SgsAssumption DEF ArchiveInv, TypeOK, StartDay, Runs
<1>2. PICK built : built = Built(day + 1)
  OBVIOUS
<1>3. /\ built \in [Codes -> UnitType]
      /\ \A c \in Codes : /\ built[c].status # "verified"
                          /\ built[c].window # NoWindow => Archived(built[c].window, day + 1)
      /\ Cardinality({c \in Codes : built[c].window # NoWindow}) <= Cap
  BY <1>1, <1>2, BuiltSound
<1>4. /\ plan' \in [Runs -> [Codes -> UnitType]] /\ plan'[day + 1] = built
      /\ \A r \in Runs \ {day + 1} : plan'[r] = plan[r]
  BY <1>1, <1>2, <1>3 DEF StartDay, TypeOK
<1>5. \A c \in Codes : stage[c] = "idle"
  <2>1. ASSUME NEW c \in Codes, stage[c] # "idle" PROVE FALSE
    BY <2>1 DEF ArchiveInv, Working, StartDay, DayDone, Settled
  <2> QED BY <2>1
<1>6. TypeOK'
  BY <1>1, <1>4, SgsAssumption DEF StartDay, TypeOK, FreshItem, Unopened, Attempts
<1>7. Unplanned'
  BY <1>1, <1>4 DEF ArchiveInv, Unplanned, StartDay
<1>8. PlanReads'
  <2>1. ASSUME NEW d \in 1 .. Days
        PROVE /\ Cardinality({c \in Codes : HasUnit(d, c)'}) <= Cap
              /\ \A c \in Codes : HasUnit(d, c)' => Archived(plan'[d][c].window, d)
    <3>1. CASE d = day + 1
      <4>1. {c \in Codes : HasUnit(d, c)'} = {c \in Codes : built[c].window # NoWindow}
        BY <1>4, <3>1 DEF HasUnit
      <4> QED BY <1>3, <1>4, <3>1, <4>1 DEF HasUnit
    <3>2. CASE d # day + 1
      <4>1. plan'[d] = plan[d]
        BY <1>1, <1>4, <3>2
      <4>2. {c \in Codes : HasUnit(d, c)'} = {c \in Codes : HasUnit(d, c)}
        BY <4>1 DEF HasUnit
      <4> QED BY <4>1, <4>2 DEF ArchiveInv, PlanReads, HasUnit
    <3> QED BY <3>1, <3>2
  <2> QED BY <2>1 DEF PlanReads
<1>9. CoverageProven'
  <2>1. coverage[day + 1] = {}
    BY <1>1 DEF ArchiveInv, Unplanned
  <2>2. ASSUME NEW c \in Codes, NEW r \in Runs
        PROVE plan'[r][c].status = "verified" <=> c \in coverage[r]
    BY <1>3, <1>4, <2>1 DEF ArchiveInv, CoverageProven
  <2> QED BY <2>1, <2>2 DEF CoverageProven, StartDay
<1>10. CommittedOnce'
  BY FS_EmptySet DEF CommittedOnce, StartDay
<1>11. \A c \in Codes : Working(c)'
  BY <1>5 DEF Working, StartDay
<1> QED BY <1>6, <1>7, <1>8, <1>9, <1>10, <1>11 DEF ArchiveInv

LEMMA ClaimKeeps ==
  ASSUME ArchiveInv, NEW c \in Codes, Claim(c)
  PROVE ArchiveInv'
<1> DEFINE x == [status |-> "claimed", attempt |-> item[c].attempt + 1]
           f == [Reconciled(c) EXCEPT ![item[c].attempt + 1] = "open"]
<1>1. x \in [status : {"pending", "claimed"} \cup Settled, attempt : 0 .. MaxAttempts]
      /\ x.status = "claimed" /\ x.attempt >= 1
  BY Facts DEF Claim
<1>2. f \in [Attempts -> {"none", "open", "completed", "outcome_unknown", "committed"}]
  BY ZenonT(60) DEF ArchiveInv, TypeOK, Reconciled
<1>3. NextStage(c) \in {"fetch", "promote"} /\ (NextStage(c) = "fetch" <=> commits[c] = {})
  BY DEF NextStage
<1>4. /\ item' = [item EXCEPT ![c] = x] /\ stage' = [stage EXCEPT ![c] = NextStage(c)]
      /\ outcome' = [outcome EXCEPT ![c] = f] /\ UNCHANGED <<day, books>>
  BY DEF Claim
<1> HIDE DEF x, f
<1>5. /\ item' \in [Codes -> [status : {"pending", "claimed"} \cup Settled, attempt : 0 .. MaxAttempts]]
      /\ item'[c] = x /\ \A b \in Codes \ {c} : item'[b] = item[b]
  BY <1>1, <1>4, Facts
<1>6. /\ stage' \in [Codes -> {"idle", "fetch", "cover", "settle", "promote"}]
      /\ stage'[c] = NextStage(c) /\ \A b \in Codes \ {c} : stage'[b] = stage[b]
  BY <1>3, <1>4, Facts
<1>7. Working(c)'
  BY <1>1, <1>3, <1>4, <1>5, <1>6 DEF Working, books, HasUnit, Claim
<1>8. outcome' \in [Codes -> [Attempts ->
        {"none", "open", "completed", "outcome_unknown", "committed"}]]
  BY <1>2, <1>4, OutcomeTyped
<1>9. commits' = commits /\ commits \in [Codes -> SUBSET Attempts] /\ Cardinality(commits[c]) <= 1
  BY <1>4, Facts DEF books, ArchiveInv, CommittedOnce
<1> QED BY <1>4, <1>5, <1>6, <1>7, <1>8, <1>9, BooksStand DEF books

LEMMA CommitKeeps ==
  ASSUME ArchiveInv, NEW c \in Codes, Commit(c)
  PROVE ArchiveInv'
<1>1. /\ commits[c] = {} /\ day >= 1 /\ HasUnit(day, c)
      /\ item[c].status = "claimed" /\ item[c].attempt \in Attempts /\ item[c].attempt >= 1
  BY Facts DEF Commit, Working, Attempts
<1>2. /\ commits' \in [Codes -> SUBSET Attempts] /\ commits'[c] = {item[c].attempt}
      /\ \A b \in Codes \ {c} : commits'[b] = commits[b]
  BY <1>1, Facts DEF Commit
<1>3. /\ stage' \in [Codes -> {"idle", "fetch", "cover", "settle", "promote"}]
      /\ stage'[c] = "cover" /\ \A b \in Codes \ {c} : stage'[b] = stage[b]
  BY Facts DEF Commit
<1>4. Cardinality(commits'[c]) <= 1
  <2>1. Cardinality({item[c].attempt}) = 1
    BY FS_Singleton, Zenon
  <2> QED BY <1>2, <2>1
<1>5. Working(c)'
  BY <1>1, <1>2, <1>3 DEF Working, Commit, HasUnit
<1> QED BY <1>1, <1>2, <1>3, <1>4, <1>5, Facts, BooksStand DEF Commit, ArchiveInv, TypeOK

(* A request ends, or goes on to settle, without a write of its own.       *)
LEMMA RequestEnds ==
  ASSUME ArchiveInv, NEW c \in Codes, UNCHANGED <<day, books>>,
         stage' = [stage EXCEPT ![c] = "idle"],
         UNCHANGED item \/ \E status \in {"pending"} \cup Settled : Becomes(c, status),
         UNCHANGED outcome \/ \E how \in {"completed", "outcome_unknown"} : Close(c, how)
  PROVE ArchiveInv'
<1>1. /\ stage' \in [Codes -> {"idle", "fetch", "cover", "settle", "promote"}]
      /\ stage'[c] = "idle" /\ \A b \in Codes \ {c} : stage'[b] = stage[b]
  BY Facts
<1>2. /\ item' \in [Codes -> [status : {"pending", "claimed"} \cup Settled, attempt : 0 .. MaxAttempts]]
      /\ \A b \in Codes \ {c} : item'[b] = item[b]
  <2>1. ASSUME NEW status \in {"pending"} \cup Settled, Becomes(c, status)
        PROVE /\ item' \in [Codes -> [status : {"pending", "claimed"} \cup Settled,
                                    attempt : 0 .. MaxAttempts]]
              /\ \A b \in Codes \ {c} : item'[b] = item[b]
    BY <2>1, Facts DEF Becomes
  <2> QED BY <2>1, Facts
<1>3. outcome' \in [Codes -> [Attempts ->
        {"none", "open", "completed", "outcome_unknown", "committed"}]]
  BY CloseTyped DEF ArchiveInv, TypeOK
<1>4. Working(c)'
  BY <1>1 DEF Working
<1>5. commits' = commits /\ commits \in [Codes -> SUBSET Attempts] /\ Cardinality(commits[c]) <= 1
  BY Facts DEF books, ArchiveInv, CommittedOnce
<1> QED BY <1>1, <1>2, <1>3, <1>4, <1>5, BooksStand DEF books

LEMMA SweepKeeps ==
  ASSUME ArchiveInv, NEW c \in Codes, Sweep(c)
  PROVE ArchiveInv'
<1>1. stage' = [stage EXCEPT ![c] = "idle"]
  BY Facts DEF Sweep
<1> QED BY <1>1, RequestEnds DEF Sweep, Settled

(* A unit that was committed becomes covered: its row and its receipt.     *)
LEMMA CoverKeeps ==
  ASSUME ArchiveInv, NEW c \in Codes, Cover(c), UNCHANGED <<day, commits, item>>,
         stage[c] \in {"cover", "promote"}, NEW next \in {"settle", "idle"},
         stage' = [stage EXCEPT ![c] = next],
         outcome' \in [Codes -> [Attempts ->
           {"none", "open", "completed", "outcome_unknown", "committed"}]]
  PROVE ArchiveInv'
<1>1. /\ commits[c] # {} /\ day \in Runs /\ HasUnit(day, c)
      /\ item[c].status = "claimed" /\ day >= 1 /\ item[c].attempt >= 1
  BY Facts DEF Working
<1> DEFINE unit == [plan[day][c] EXCEPT !.status = "verified"]
           units == [plan[day] EXCEPT ![c] = unit]
<1>2. /\ unit \in UnitType /\ unit.status = "verified"
      /\ unit.window = plan[day][c].window
  BY ZenonT(60), <1>1, Facts, UnitTyped DEF UnitType
<1> HIDE DEF unit
<1>3. /\ units \in [Codes -> UnitType] /\ units[c] = unit
      /\ \A b \in Codes \ {c} : units[b] = plan[day][b]
  BY <1>1, <1>2, Facts DEF TypeOK
<1>4. plan' = [plan EXCEPT ![day] = units]
  BY DEF Cover, unit
<1> HIDE DEF units
<1>5. /\ plan' \in [Runs -> [Codes -> UnitType]] /\ plan'[day] = units
      /\ \A r \in Runs \ {day} : plan'[r] = plan[r]
  BY <1>1, <1>3, <1>4, Facts DEF TypeOK
<1>6. \A r \in Runs, b \in Codes : plan'[r][b].window = plan[r][b].window
  BY <1>2, <1>3, <1>5
<1>7. /\ coverage' \in [Runs -> SUBSET Codes] /\ coverage'[day] = coverage[day] \cup {c}
      /\ \A r \in Runs \ {day} : coverage'[r] = coverage[r]
  BY <1>1, Facts DEF Cover, TypeOK
<1>8. /\ stage' \in [Codes -> {"idle", "fetch", "cover", "settle", "promote"}]
      /\ stage'[c] = next /\ \A b \in Codes \ {c} : stage'[b] = stage[b]
  BY Facts
<1>9. TypeOK'
  <2>1. cursor' \in Codes \cup {0}
    BY Facts DEF Cover, TypeOK
  <2> QED BY <1>5, <1>7, <1>8, <2>1, Facts DEF TypeOK
<1>10. Unplanned'
  BY <1>5, <1>7 DEF ArchiveInv, Unplanned, Runs
<1>11. PlanReads'
  <2>1. 1 .. Days \subseteq Runs
    BY SgsAssumption DEF Runs
  <2>2. \A d \in 1 .. Days, b \in Codes : HasUnit(d, b)' <=> HasUnit(d, b)
    BY <1>6, <2>1 DEF HasUnit
  <2>3. \A d \in 1 .. Days : {b \in Codes : HasUnit(d, b)'} = {b \in Codes : HasUnit(d, b)}
    BY <2>2
  <2>4. ASSUME NEW d \in 1 .. Days
        PROVE /\ Cardinality({b \in Codes : HasUnit(d, b)'}) <= Cap
              /\ \A b \in Codes : HasUnit(d, b)' => Archived(plan'[d][b].window, d)
    <3>1. \A b \in Codes : plan'[d][b].window = plan[d][b].window
      BY <1>6, <2>1
    <3> QED BY <2>2, <2>3, <3>1 DEF ArchiveInv, PlanReads
  <2> QED BY <2>4 DEF PlanReads
<1>12. CoverageProven'
  <2>1. ASSUME NEW b \in Codes, b \in coverage'[day] PROVE commits[b] # {}
    BY <1>1, <1>7, <2>1 DEF ArchiveInv, CoverageProven
  <2>2. ASSUME NEW b \in Codes, NEW r \in Runs
        PROVE plan'[r][b].status = "verified" <=> b \in coverage'[r]
    <3>1. CASE r = day /\ b = c
      BY <1>2, <1>3, <1>5, <1>7, <3>1
    <3>2. CASE ~(r = day /\ b = c)
      BY <1>3, <1>5, <1>7, <3>2 DEF ArchiveInv, CoverageProven
    <3> QED BY <3>1, <3>2
  <2> QED BY <2>1, <2>2 DEF CoverageProven
<1>13. CommittedOnce'
  BY DEF ArchiveInv, CommittedOnce
<1>14. ASSUME NEW b \in Codes PROVE Working(b)'
  <2>1. HasUnit(day, b)' <=> HasUnit(day, b)
    BY <1>1, <1>6 DEF HasUnit
  <2> QED BY <1>1, <1>8, <2>1 DEF ArchiveInv, Working
<1> QED BY <1>9, <1>10, <1>11, <1>12, <1>13, <1>14 DEF ArchiveInv

-----------------------------------------------------------------------------
(* The invariant holds *)

LEMMA InitHolds == Init => ArchiveInv
<1> SUFFICES ASSUME Init PROVE ArchiveInv
  OBVIOUS
<1>1. /\ 0 \in Runs /\ Codes \subseteq Nat /\ Days \in Nat \ {0}
      /\ Runs = 0 .. Days /\ MaxAttempts \in Nat
  BY SgsAssumption DEF Runs
<1>2. plan \in [Runs -> [Codes -> UnitType]]
  BY SgsAssumption DEF Init, NoUnit, Unit, UnitType, Roles
<1>3. TypeOK
  <2>1. item \in [Codes -> [status : {"pending", "claimed"} \cup Settled, attempt : 0 .. MaxAttempts]]
    BY <1>1 DEF Init, Settled
  <2>2. outcome \in [Codes -> [Attempts ->
          {"none", "open", "completed", "outcome_unknown", "committed"}]]
    BY DEF Init, Unopened
  <2>3. /\ commits \in [Codes -> SUBSET Attempts] /\ coverage \in [Runs -> SUBSET Codes]
        /\ stage \in [Codes -> {"idle", "fetch", "cover", "settle", "promote"}]
    BY DEF Init
  <2>4. day \in Runs /\ cursor \in Codes \cup {0}
    BY <1>1 DEF Init
  <2> QED BY <1>2, <2>1, <2>2, <2>3, <2>4 DEF TypeOK
<1>4. \A r \in Runs, c \in Codes : r > 0 => plan[r][c] = NoUnit
  BY <1>1 DEF Init
<1>5. Unplanned
  BY <1>1, <1>4 DEF Init, Unplanned
<1>6. PlanReads
  <2>1. ASSUME NEW d \in 1 .. Days
        PROVE {c \in Codes : HasUnit(d, c)} = {}
    <3>1. d \in Runs /\ d > 0
      BY <1>1
    <3>2. \A c \in Codes : plan[d][c].window = NoWindow
      BY <1>4, <3>1 DEF NoUnit
    <3> QED BY <3>2 DEF HasUnit
  <2>2. ASSUME NEW d \in 1 .. Days PROVE Cardinality({c \in Codes : HasUnit(d, c)}) <= Cap
    <3>1. PICK planned : planned = {c \in Codes : HasUnit(d, c)}
      OBVIOUS
    <3>2. planned = {}
      BY <2>1, <3>1
    <3>3. Cardinality(planned) = 0
      BY <3>2, FS_EmptySet
    <3> QED BY <3>1, <3>3, SgsAssumption
  <2> QED BY <2>1, <2>2 DEF PlanReads
<1>7. CoverageProven
  BY <1>1 DEF Init, CoverageProven, NoUnit, Unit
<1>8. CommittedOnce /\ \A c \in Codes : Working(c)
  BY FS_EmptySet DEF Init, CommittedOnce, Working
<1> QED BY <1>3, <1>5, <1>6, <1>7, <1>8 DEF ArchiveInv

LEMMA NextKeeps == ArchiveInv /\ [Next]_vars => ArchiveInv'
<1> SUFFICES ASSUME ArchiveInv, [Next]_vars PROVE ArchiveInv'
  OBVIOUS
<1>1. CASE UNCHANGED vars
  <2>1. UNCHANGED <<day, plan, commits, coverage, cursor, item, stage, outcome>>
    BY <1>1 DEF vars, books
  <2>2. TypeOK' /\ Unplanned' /\ CoverageProven' /\ CommittedOnce'
    BY <2>1 DEF ArchiveInv, TypeOK, Unplanned, CoverageProven, CommittedOnce
  <2>3. PlanReads'
    BY <2>1 DEF ArchiveInv, PlanReads, HasUnit
  <2>4. \A c \in Codes : Working(c)'
    BY <2>1 DEF ArchiveInv, Working, HasUnit
  <2> QED BY <2>2, <2>3, <2>4 DEF ArchiveInv
<1>2. ASSUME NEW c \in Codes, Settle(c) PROVE ArchiveInv'
  BY <1>2, RequestEnds DEF Settle, Settled
<1>3. ASSUME NEW c \in Codes, Fail(c) PROVE ArchiveInv'
  BY <1>3, RequestEnds DEF Fail, Settled
<1>4. ASSUME NEW c \in Codes, Die(c) PROVE ArchiveInv'
  BY <1>4, RequestEnds DEF Die
<1>5. ASSUME NEW c \in Codes, CoverCommit(c) PROVE ArchiveInv'
  BY <1>5, CoverKeeps DEF CoverCommit, ArchiveInv, TypeOK
<1>6. ASSUME NEW c \in Codes, Promote(c) PROVE ArchiveInv'
  BY <1>6, CoverKeeps, CloseTyped DEF Promote
<1>7. ASSUME NEW c \in Codes, Work(c) PROVE ArchiveInv'
  BY <1>2, <1>5, <1>6, <1>7, ClaimKeeps, CommitKeeps, SweepKeeps DEF Work
<1> QED BY <1>1, <1>3, <1>4, <1>7, StartDayKeeps DEF Next

(* The inductive invariant of SgsArchive.                                  *)
THEOREM ArchiveHolds == Spec => []ArchiveInv
BY InitHolds, NextKeeps, PTL DEF Spec

(* What a run froze can be read back: at most the cap, and archive windows *)
(* of its day, whatever intents were left (_validate_v3_plan_scopes).      *)
THEOREM EveryPlanReads == Spec => []PlanReads
<1>1. ArchiveInv => PlanReads
  BY DEF ArchiveInv
<1> QED BY <1>1, ArchiveHolds, PTL

(* Only a committed unit is covered, and row and receipt agree             *)
(* (record_verified_coverage).                                             *)
THEOREM CoverageIsProven == Spec => []CoverageProven
<1>1. ArchiveInv => CoverageProven
  BY DEF ArchiveInv
<1> QED BY <1>1, ArchiveHolds, PTL

(* No second attempt commits a unit again (reconcile_committed_unit).      *)
THEOREM UnitsCommitOnce == Spec => []CommittedOnce
<1>1. ArchiveInv => CommittedOnce
  BY DEF ArchiveInv
<1> QED BY <1>1, ArchiveHolds, PTL

=============================================================================
