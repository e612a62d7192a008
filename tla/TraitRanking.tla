--------------------------- MODULE TraitRanking ---------------------------
(* How the attempts of a build are rated and ranked:                       *)
(* core/pipeline_domain.py, TraitVectorRanker.                             *)
(*                                                                         *)
(* Every attempt gets a vector of trait scores, from the answer of the     *)
(* language model or at random if there is none; the attempts are then     *)
(* sorted by pairwise comparison of their vectors.  The comparison has     *)
(* cycles, so what the sorted list promises depends on how list.sort works *)
(* (CPython 3.12, fewer than 64 elements: one run, then binary insertion); *)
(* each comparison of the sort is a step.                                  *)
EXTENDS Integers, FiniteSets

CONSTANTS
    NumTraits,      \* 20 in the code
    Quota,          \* poor and exceptional traits wanted, 5 in the code
    NumAttempts,    \* two builders for each of five stacks in the code
    MaxAbsent       \* bound on the traits an answer leaves out

ASSUME TraitsAssumption == NumTraits \in Nat /\ Quota \in Nat /\ MaxAbsent \in Nat
ASSUME AttemptsAssumption == NumAttempts \in Nat \ {0}

Traits == 1..NumTraits         \* in the order of category_map
Attempts == 1..NumAttempts
Scores == {1, 3, 5}            \* POOR, ACCEPTABLE, EXCEPTIONAL
Absent == 0                    \* the answer had no object for the trait
Vectors == [Traits -> Scores \cup {Absent}]

-----------------------------------------------------------------------------
(* A vector from an answer: scores other than 1, 3, 5 were taken for 3.    *)
Present(v) == {c \in Traits : v[c] # Absent}
Rated(v, s) == {c \in Traits : v[c] = s}
Answers == {v \in Vectors : Cardinality(Rated(v, Absent)) <= MaxAbsent}

\* Place of a trait in the list sorted by score, 0 for the lowest.
Place(v, c) == Cardinality({d \in Present(v) : v[d] < v[c] \/ (v[d] = v[c] /\ d < c)})

\* Variant: both quotas are filled from the lower end.
ParsedLow(v) ==
    LET ones == Quota - Cardinality(Rated(v, 1))
        fives == Quota - Cardinality(Rated(v, 5))
    IN [c \in Traits |-> CASE v[c] = Absent -> Absent
                           [] v[c] # Absent /\ Place(v, c) < fives -> 5
                           [] v[c] # Absent /\ Place(v, c) >= fives /\ Place(v, c) < ones -> 1
                           [] OTHER -> v[c]]

\* The distribution is forced with the list sorted beforehand.
Parsed(v) ==
    LET ones == Quota - Cardinality(Rated(v, 1))
        fives == Quota - Cardinality(Rated(v, 5))
        n == Cardinality(Present(v))
    IN [c \in Traits |-> CASE v[c] = Absent -> Absent
                           [] v[c] # Absent /\ Place(v, c) >= n - fives -> 5
                           [] v[c] # Absent /\ Place(v, c) < n - fives /\ Place(v, c) < ones -> 1
                           [] OTHER -> v[c]]

\* _fallback_trait_vector: the quotas exactly, at random places.
Fallbacks == {v \in [Traits -> Scores] : /\ Cardinality(Rated(v, 1)) = Quota
                                         /\ Cardinality(Rated(v, 5)) = Quota}

-----------------------------------------------------------------------------
(* compare_two.                                                            *)
Score(v, c) == IF v[c] = Absent THEN 3 ELSE v[c]
Dominant(v, w) == Cardinality({c \in Traits : Score(v, c) > Score(w, c)})

\* The sum of the margins, counted point by point.
Margin(v, w) == Cardinality({p \in Traits \X (1..4) : p[2] <= Score(v, p[1]) - Score(w, p[1])})

\* The third criterion, fewer weak categories, compares the numbers of the
\* first one again and never decides.
\* Variant: a tie on dominant traits is won by the first operand.
BeatsAtTie(v, w) == Dominant(v, w) >= Dominant(w, v)

Beats(v, w) ==
    \/ Dominant(v, w) > Dominant(w, v)
    \/ Dominant(v, w) = Dominant(w, v) /\ Margin(v, w) > Margin(w, v)

-----------------------------------------------------------------------------
VARIABLES
    phase,      \* rate, run, insert or done
    rated,      \* attempts that have a vector
    vec,        \* the vectors
    list,       \* the list that is sorted
    run,        \* length of the initial run
    descending, \* the run is strictly descending
    start,      \* element that is inserted
    lo, hi      \* where it goes: lo..hi

vars == <<phase, rated, vec, list, run, descending, start, lo, hi>>

Init ==
    /\ phase = "rate" /\ rated = 0
    /\ vec = [a \in Attempts |-> [c \in Traits |-> Absent]]
    /\ list = [k \in Attempts |-> k]
    /\ run = 1 /\ descending = FALSE /\ start = 2 /\ lo = 1 /\ hi = 2

(* One attempt after the other is rated, with the review at its place in   *)
(* the list or without one.                                                *)
Rate ==
    /\ phase = "rate" /\ rated < NumAttempts
    /\ rated' = rated + 1
    /\ \/ \E answer \in Answers : vec' = [vec EXCEPT ![rated + 1] = Parsed(answer)]
       \/ \E v \in Fallbacks : vec' = [vec EXCEPT ![rated + 1] = v]
    /\ UNCHANGED <<phase, list, run, descending, start, lo, hi>>

\* Variant: the sign of the comparison is lost.
BeforeReversed(x, y) == Beats(vec[y], vec[x])

\* The key function: x goes before y if it beats y.
Before(x, y) == Beats(vec[x], vec[y])

Sort ==
    /\ phase = "rate" /\ rated = NumAttempts
    /\ phase' = "run"
    /\ UNCHANGED <<rated, vec, list, run, descending, start, lo, hi>>

(* count_run: the list starts with a strictly descending run, or with one  *)
(* that is nowhere descending.                                             *)
Descends(k) == Before(list[k + 1], list[k])
RunGoesOn == run < NumAttempts /\ (run = 1 \/ Descends(run) = descending)

CountRun ==
    /\ phase = "run" /\ RunGoesOn
    /\ run' = run + 1
    /\ descending' = Descends(run)
    /\ UNCHANGED <<phase, rated, vec, list, start, lo, hi>>

RunTurned == [k \in Attempts |-> IF descending /\ k <= run THEN list[run + 1 - k] ELSE list[k]]

EndRun ==
    /\ phase = "run" /\ ~RunGoesOn
    /\ list' = RunTurned
    /\ phase' = IF run = NumAttempts THEN "done" ELSE "insert"
    /\ start' = run + 1 /\ lo' = 1 /\ hi' = run + 1
    /\ UNCHANGED <<rated, vec, run, descending>>

(* binarysort.                                                             *)
\* Variant: the middle is one too far.
MiddleNext == lo + (hi - lo) \div 2 + 1

Middle == lo + (hi - lo) \div 2

Search ==
    /\ phase = "insert" /\ lo < hi
    /\ IF Before(list[start], list[Middle])
       THEN hi' = Middle /\ UNCHANGED lo
       ELSE lo' = Middle + 1 /\ UNCHANGED hi
    /\ UNCHANGED <<phase, rated, vec, list, run, descending, start>>

Inserted == [k \in Attempts |-> CASE k < lo -> list[k]
                                  [] k = lo -> list[start]
                                  [] k > lo /\ k <= start -> list[k - 1]
                                  [] k > lo /\ k > start -> list[k]]

Insert ==
    /\ phase = "insert" /\ lo = hi
    /\ list' = Inserted
    /\ phase' = IF start = NumAttempts THEN "done" ELSE "insert"
    /\ start' = start + 1 /\ lo' = 1 /\ hi' = start + 1
    /\ UNCHANGED <<rated, vec, run, descending>>

Next == Rate \/ Sort \/ CountRun \/ EndRun \/ Search \/ Insert

Spec == Init /\ [][Next]_vars

-----------------------------------------------------------------------------
(* The values of the variables.                                            *)
TypeOK ==
    /\ phase \in {"rate", "run", "insert", "done"}
    /\ rated \in 0..NumAttempts
    /\ vec \in [Attempts -> Vectors]
    /\ list \in [Attempts -> Attempts]
    /\ run \in Attempts /\ descending \in BOOLEAN
    /\ start \in 2..NumAttempts + 1
    /\ lo \in 1..start /\ hi \in lo..start

(* "ensure at least 5 ones and 5 fives to prevent clustering": the         *)
(* correction starts with the traits that are rated so already.  Of an     *)
(* answer that rates one and a half quotas of traits, half of each quota   *)
(* is reached all the same.                                                *)
HalfSpread ==
    \A a \in 1..rated : 2 * Cardinality(Present(vec[a])) >= 3 * Quota =>
        \A s \in {1, 5} : 2 * Cardinality(Rated(vec[a], s)) >= Quota

(* _compare_trait_vectors, "winner = the one with more dominant            *)
(* categories": the comparison has cycles, and still no attempt is ranked  *)
(* directly after one it beats.                                            *)
NeighboursInOrder ==
    phase = "done" =>
        \A k \in 1..NumAttempts - 1 : ~Beats(vec[list[k + 1]], vec[list[k]])

(* An attempt that beats every other one wins.                             *)
BestWins ==
    phase = "done" =>
        \A a \in Attempts :
            (\A b \in Attempts \ {a} : Beats(vec[a], vec[b])) => list[1] = a
=============================================================================
