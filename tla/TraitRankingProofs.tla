------------------------ MODULE TraitRankingProofs ------------------------
(* What a ranking promises for any number of traits and attempts, whatever *)
(* scores they got.  The comparison has cycles; all that is used of it is  *)
(* that no two attempts beat each other.                                   *)
EXTENDS TraitRanking, FiniteSetTheorems, TLAPS

\* Halving stays between the bounds.
LEMMA MiddleBetween ==
    ASSUME lo \in Nat, hi \in Nat, lo < hi
    PROVE  Middle \in Nat /\ lo <= Middle /\ Middle < hi
  BY DEF Middle

\* The corrected answer is a vector of scores again.
LEMMA ParsedType == ASSUME NEW v \in Vectors PROVE Parsed(v) \in Vectors
  BY DEF Parsed, Vectors, Scores, Absent

\* While elements are inserted, one is left.
InsertOK == phase = "insert" => start <= NumAttempts

LEMMA TypeStep == TypeOK /\ InsertOK /\ [Next]_vars => TypeOK' /\ InsertOK'
<1> SUFFICES ASSUME TypeOK, InsertOK, [Next]_vars PROVE TypeOK' /\ InsertOK'
  OBVIOUS
<1> USE AttemptsAssumption DEF TypeOK, InsertOK, Attempts
<1>1. CASE Rate
  <2>1. rated + 1 \in Attempts /\ rated' \in 0..NumAttempts
    BY <1>1 DEF Rate
  <2>2. vec' \in [Attempts -> Vectors]
    <3>1. PICK v \in Vectors : vec' = [vec EXCEPT ![rated + 1] = v]
      BY <1>1, ParsedType DEF Rate, Answers, Fallbacks, Vectors
    <3> QED BY <2>1, <3>1
  <2> QED BY <1>1, <2>1, <2>2 DEF Rate
<1>2. CASE Sort
  BY <1>2 DEF Sort
<1>3. CASE CountRun
  <2>1. Descends(run) \in BOOLEAN
    BY DEF Descends, Before, Beats
  <2> QED BY <1>3, <2>1 DEF CountRun, RunGoesOn
<1>4. CASE EndRun
  <2>1. list' \in [Attempts -> Attempts]
    BY <1>4 DEF EndRun, RunTurned
  <2>2. start' \in 2..NumAttempts + 1 /\ lo' \in 1..start' /\ hi' \in lo'..start'
    BY <1>4 DEF EndRun
  <2>3. phase' \in {"rate", "run", "insert", "done"} /\ (phase' = "insert" => start' <= NumAttempts)
    BY <1>4 DEF EndRun
  <2> QED BY <1>4, <2>1, <2>2, <2>3 DEF EndRun
<1>5. CASE Search
  <2>1. Middle \in Nat /\ lo <= Middle /\ Middle < hi
    BY <1>5, MiddleBetween DEF Search
  <2>2. CASE hi' = Middle /\ lo' = lo
    BY <1>5, <2>1, <2>2 DEF Search
  <2>3. CASE lo' = Middle + 1 /\ hi' = hi
    BY <1>5, <2>1, <2>3 DEF Search
  <2> QED BY <1>5, <2>2, <2>3 DEF Search
<1>6. CASE Insert
  <2>1. list' \in [Attempts -> Attempts]
    BY <1>6 DEF Insert, Inserted
  <2>2. start' \in 2..NumAttempts + 1 /\ lo' \in 1..start' /\ hi' \in lo'..start'
    BY <1>6 DEF Insert
  <2>3. phase' \in {"rate", "run", "insert", "done"} /\ (phase' = "insert" => start' <= NumAttempts)
    BY <1>6 DEF Insert
  <2> QED BY <1>6, <2>1, <2>2, <2>3 DEF Insert
<1>7. CASE UNCHANGED vars
  BY <1>7 DEF vars
<1> QED BY <1>1, <1>2, <1>3, <1>4, <1>5, <1>6, <1>7 DEF Next

\* The search of the binary insertion stays within the sorted part, and a
\* corrected answer is a vector of scores.
THEOREM RankingTypes == Spec => [](TypeOK /\ InsertOK)
<1>1. Init => TypeOK /\ InsertOK
  <2> SUFFICES ASSUME Init PROVE TypeOK /\ InsertOK
    OBVIOUS
  <2>1. vec \in [Attempts -> Vectors]
    BY DEF Init, Vectors
  <2>2. /\ list \in [Attempts -> Attempts] /\ rated \in 0..NumAttempts /\ run \in Attempts
        /\ start \in 2..NumAttempts + 1 /\ lo \in 1..start /\ hi \in lo..start
    BY AttemptsAssumption DEF Init, Attempts
  <2> QED BY <2>1, <2>2 DEF Init, TypeOK, InsertOK
<1> QED BY <1>1, TypeStep, PTL DEF Spec

-----------------------------------------------------------------------------
\* The list is a permutation of the attempts.
Permuted ==
    /\ \A j, k \in Attempts : j # k => list[j] # list[k]
    /\ \A a \in Attempts : \E k \in Attempts : list[k] = a

\* A list read at permuted places is a permutation if the list was one.
LEMMA Reindexed ==
    ASSUME TypeOK, Permuted,
           NEW to \in [Attempts -> Attempts], NEW from \in [Attempts -> Attempts],
           \A k \in Attempts : from[to[k]] = k /\ to[from[k]] = k,
           \A k \in Attempts : list'[k] = list[to[k]]
    PROVE  Permuted'
<1>1. ASSUME NEW j \in Attempts, NEW k \in Attempts, j # k PROVE list'[j] # list'[k]
  <2>1. to[j] # to[k]
    BY <1>1
  <2> QED BY <2>1 DEF Permuted
<1>2. ASSUME NEW a \in Attempts PROVE \E k \in Attempts : list'[k] = a
  <2>1. PICK k \in Attempts : list[k] = a
    BY DEF Permuted
  <2>2. list'[from[k]] = a
    BY <2>1
  <2> QED BY <2>2
<1> QED BY <1>1, <1>2 DEF Permuted

LEMMA PermutedStep == TypeOK /\ InsertOK /\ Permuted /\ [Next]_vars => Permuted'
<1> SUFFICES ASSUME TypeOK, InsertOK, Permuted, [Next]_vars PROVE Permuted'
  OBVIOUS
<1>0. NumAttempts \in Nat /\ run \in 1..NumAttempts /\ start \in Nat /\ lo \in Nat /\ 1 <= lo /\ lo <= start
  BY AttemptsAssumption DEF TypeOK, Attempts
<1>1. CASE EndRun
  <2> DEFINE to == [k \in Attempts |-> IF descending /\ k <= run THEN run + 1 - k ELSE k]
  <2>1. to \in [Attempts -> Attempts]
    BY <1>0 DEF Attempts
  <2>2. \A k \in Attempts : to[to[k]] = k
    BY <1>0 DEF Attempts
  <2>3. \A k \in Attempts : list'[k] = list[to[k]]
    BY <1>1 DEF EndRun, RunTurned
  <2> HIDE DEF to
  <2> QED BY <2>1, <2>2, <2>3, Reindexed
<1>2. CASE Insert
  <2> DEFINE to == [k \in Attempts |-> IF k < lo \/ k > start THEN k
                                       ELSE IF k = lo THEN start ELSE k - 1]
             from == [k \in Attempts |-> IF k < lo \/ k > start THEN k
                                         ELSE IF k = start THEN lo ELSE k + 1]
  <2>1. start <= NumAttempts
    BY <1>2 DEF Insert, InsertOK
  <2>2. to \in [Attempts -> Attempts] /\ from \in [Attempts -> Attempts]
    BY <1>0, <2>1 DEF Attempts
  <2>3. \A k \in Attempts : from[to[k]] = k /\ to[from[k]] = k
    BY <1>0, <2>1 DEF Attempts
  <2>4. \A k \in Attempts : list'[k] = list[to[k]]
    <3> SUFFICES ASSUME NEW k \in Attempts PROVE list'[k] = list[to[k]]
      OBVIOUS
    <3>1. list'[k] = CASE k < lo -> list[k]
                       [] k = lo -> list[start]
                       [] k > lo /\ k <= start -> list[k - 1]
                       [] k > lo /\ k > start -> list[k]
      BY <1>2 DEF Insert, Inserted
    <3>2. k \in Nat
      BY <1>0 DEF Attempts
    <3> QED BY <1>0, <3>1, <3>2
  <2> HIDE DEF to, from
  <2> QED BY <2>2, <2>3, <2>4, Reindexed
<1>3. CASE UNCHANGED list
  BY <1>3 DEF Permuted
<1> QED BY <1>1, <1>2, <1>3 DEF Next, Rate, Sort, CountRun, Search, vars

\* The sort moves attempts and loses none.
LEMMA OneRankEach == Spec => []Permuted
<1>1. Init => Permuted
  BY DEF Init, Permuted
<1> QED BY <1>1, PermutedStep, RankingTypes, PTL DEF Spec

-----------------------------------------------------------------------------
\* What the comparison counts are numbers.
LEMMA Counts ==
    ASSUME NEW v, NEW w
    PROVE  Dominant(v, w) \in Nat /\ Margin(v, w) \in Nat
<1>1. IsFiniteSet(Traits) /\ IsFiniteSet(1..4)
  <2>1. 1 \in Int /\ 4 \in Int /\ NumTraits \in Int
    BY TraitsAssumption
  <2> QED BY <2>1, FS_Interval DEF Traits
<1>2. IsFiniteSet(Traits \X (1..4))
  BY <1>1, FS_Product
<1>3. IsFiniteSet({c \in Traits : Score(v, c) > Score(w, c)})
  BY <1>1, FS_Subset
<1>4. IsFiniteSet({p \in Traits \X (1..4) : p[2] <= Score(v, p[1]) - Score(w, p[1])})
  <2>1. {p \in Traits \X (1..4) : p[2] <= Score(v, p[1]) - Score(w, p[1])} \subseteq Traits \X (1..4)
    OBVIOUS
  <2> QED BY <1>2, <2>1, FS_Subset
<1> QED BY <1>3, <1>4, FS_CardinalityType DEF Dominant, Margin

\* No two attempts beat each other.
LEMMA Asymmetric == ASSUME NEW x, NEW y, Before(x, y) PROVE ~Before(y, x)
  BY Counts DEF Before, Beats

\* The run is in one direction; behind it, the part before start is in order,
\* and what is inserted belongs behind lo - 1 and before hi.
Sorted ==
    /\ phase = "run" => \A k \in 1..run - 1 : Descends(k) = descending
    /\ phase \in {"insert", "done"} => \A k \in 1..start - 2 : ~Descends(k)
    /\ phase = "insert" => /\ lo = 1 \/ ~Before(list[start], list[lo - 1])
                           /\ hi = start \/ Before(list[start], list[hi])
    /\ phase = "done" => start = NumAttempts + 1
    /\ phase = "rate" => run = 1

LEMMA SortedStep == TypeOK /\ InsertOK /\ Sorted /\ [Next]_vars => Sorted'
<1> SUFFICES ASSUME TypeOK, InsertOK, Sorted, [Next]_vars PROVE Sorted'
  OBVIOUS
<1> USE AttemptsAssumption DEF TypeOK, InsertOK, Attempts
<1>1. CASE Rate \/ Sort
  BY <1>1 DEF Rate, Sort, Sorted
<1>2. CASE CountRun
  <2>1. \A k \in 1..run : Descends(k)' = Descends(k)
    BY <1>2 DEF CountRun, Descends, Before
  <2>2. \A k \in 1..run - 1 : Descends(k) = Descends(run)
    BY <1>2 DEF CountRun, RunGoesOn, Sorted
  <2>3. \A k \in 1..run' - 1 : Descends(k)' = descending'
    BY <1>2, <2>1, <2>2 DEF CountRun
  <2> QED BY <1>2, <2>3 DEF CountRun, Sorted
<1>3. CASE EndRun
  <2>1. \A k \in 1..start' - 2 : ~Descends(k)'
    <3>1. \A x, y : Before(x, y)' = Before(x, y)
      BY <1>3 DEF EndRun, Before
    <3> SUFFICES ASSUME NEW k \in 1..run - 1 PROVE ~Before(list'[k + 1], list'[k])
      BY <1>3, <3>1 DEF EndRun, Descends
    <3>2. CASE descending
      <4>1. run - k \in 1..run - 1
        OBVIOUS
      <4>2. Descends(run - k)
        BY <1>3, <3>2, <4>1 DEF EndRun, Sorted
      <4>3. list'[k + 1] = list[run - k] /\ list'[k] = list[run - k + 1]
        <5>1. k \in Attempts /\ k + 1 \in Attempts /\ k <= run /\ k + 1 <= run
          OBVIOUS
        <5>2. \A i \in Attempts : i <= run => list'[i] = list[run + 1 - i]
          BY <1>3, <3>2 DEF EndRun, RunTurned
        <5>3. run + 1 - (k + 1) = run - k /\ run + 1 - k = run - k + 1
          OBVIOUS
        <5> QED BY <5>1, <5>2, <5>3
      <4> QED BY <4>2, <4>3, Asymmetric DEF Descends
    <3>3. CASE ~descending
      <4>1. ~Descends(k)
        BY <1>3, <3>3 DEF EndRun, Sorted
      <4>2. list'[k + 1] = list[k + 1] /\ list'[k] = list[k]
        BY <1>3, <3>3 DEF EndRun, RunTurned
      <4> QED BY <4>1, <4>2 DEF Descends
    <3> QED BY <3>2, <3>3
  <2> QED BY <1>3, <2>1 DEF EndRun, Sorted
<1>4. CASE Search
  <2>1. Middle \in Nat /\ lo <= Middle /\ Middle < hi
    BY <1>4, MiddleBetween DEF Search
  <2>2. /\ \A k \in 1..start - 2 : Descends(k)' = Descends(k)
        /\ \A x, y : Before(x, y)' = Before(x, y)
    BY <1>4 DEF Search, Descends, Before
  <2>3. CASE Before(list[start], list[Middle])
    BY <1>4, <2>1, <2>2, <2>3 DEF Search, Sorted
  <2>4. CASE ~Before(list[start], list[Middle])
    BY <1>4, <2>1, <2>2, <2>4 DEF Search, Sorted
  <2> QED BY <2>3, <2>4
<1>5. CASE Insert
  <2>1. list' = [k \in Attempts |-> CASE k < lo -> list[k]
                                      [] k = lo -> list[start]
                                      [] k > lo /\ k <= start -> list[k - 1]
                                      [] k > lo /\ k > start -> list[k]]
    BY <1>5 DEF Insert, Inserted
  <2>2. \A x, y : Before(x, y)' = Before(x, y)
    BY <1>5 DEF Insert, Before
  <2>3. start \in Attempts /\ lo \in Attempts /\ lo <= start
    BY <1>5 DEF Insert
  <2>4. ASSUME NEW k \in 1..start - 1 PROVE ~Before(list'[k + 1], list'[k])
    <3>1. CASE k + 1 < lo
      BY <1>5, <2>1, <2>3, <3>1 DEF Insert, Sorted, Descends
    <3>2. CASE k + 1 = lo
      BY <1>5, <2>1, <2>3, <3>2 DEF Insert, Sorted
    <3>3. CASE k = lo
      <4>1. list'[k + 1] = list[lo] /\ list'[k] = list[start]
        BY <2>1, <2>3, <3>3
      <4>2. Before(list[start], list[lo])
        BY <1>5, <3>3 DEF Insert, Sorted
      <4> QED BY <4>1, <4>2, Asymmetric
    <3>4. CASE lo < k
      <4>1. list'[k + 1] = list[k] /\ list'[k] = list[k - 1]
        BY <2>1, <2>3, <3>4
      <4>2. k - 1 \in 1..start - 2 /\ (k - 1) + 1 = k
        BY <2>3, <3>4
      <4>3. ~Descends(k - 1)
        BY <1>5, <4>2 DEF Insert, Sorted
      <4> QED BY <4>1, <4>2, <4>3 DEF Descends
    <3> QED BY <2>3, <3>1, <3>2, <3>3, <3>4
  <2>5. \A k \in 1..start' - 2 : ~Descends(k)'
    BY <1>5, <2>2, <2>4 DEF Insert, Descends
  <2> QED BY <1>5, <2>5 DEF Insert, Sorted
<1>6. CASE UNCHANGED vars
  BY <1>6 DEF vars, Sorted, Descends, Before
<1> QED BY <1>1, <1>2, <1>3, <1>4, <1>5, <1>6 DEF Next

LEMMA AlwaysSorted == Spec => []Sorted
<1>1. Init => Sorted
  BY DEF Init, Sorted
<1> QED BY <1>1, SortedStep, RankingTypes, PTL DEF Spec

\* No attempt is ranked directly behind one that it beats, although the
\* comparison has cycles.
THEOREM NoUpset == Spec => []NeighboursInOrder
<1>1. Sorted => NeighboursInOrder
  BY AttemptsAssumption DEF Sorted, NeighboursInOrder, Descends, Before
<1> QED BY <1>1, AlwaysSorted, PTL

\* An attempt that beats all others is ranked first.
THEOREM WinnerFirst == Spec => []BestWins
<1>1. TypeOK /\ Permuted /\ NeighboursInOrder => BestWins
  <2> SUFFICES ASSUME TypeOK, Permuted, NeighboursInOrder, phase = "done",
                      NEW a \in Attempts, \A b \in Attempts \ {a} : Beats(vec[a], vec[b])
               PROVE  list[1] = a
    BY DEF BestWins
  <2>1. PICK j \in Attempts : list[j] = a
    BY DEF Permuted
  <2>2. SUFFICES ASSUME j # 1 PROVE FALSE
    BY <2>1
  <2>3. j - 1 \in 1..NumAttempts - 1 /\ j - 1 \in Attempts /\ (j - 1) + 1 = j
    BY <2>2, AttemptsAssumption DEF Attempts
  <2>4. list[j - 1] \in Attempts \ {a}
    BY <2>1, <2>3 DEF Permuted, TypeOK
  <2> QED BY <2>1, <2>3, <2>4 DEF NeighboursInOrder
<1> QED BY <1>1, RankingTypes, OneRankEach, NoUpset, PTL
=============================================================================
