---------------------------- MODULE Deliverable ----------------------------
(* What becomes of the code of a build, from the builders to the package   *)
(* and the leaderboard.                                                    *)
(*                                                                         *)
(*   agents/                 builder, repair, reviewer, ranker, novelty,   *)
(*                           leaderboard                                   *)
(*   core/validation         the gate and the repair loop                  *)
(*   core/pipeline_domain    builders, reviewers, novelty, packages        *)
(*   core/pipeline_runner    validation of the final code, packaging,      *)
(*                           finalize                                      *)
(*   core/pipeline_context   hydrate, save, resolve_winner                 *)
(*                                                                         *)
(* BuildPipeline has which keys of the checkpoint are written when; here   *)
(* is what the keys hold.  A stage works on the copy of the checkpoint it  *)
(* loaded and merges what it saves into the stored one; saves are whole    *)
(* (StageCheckpoint has their halves) and the lease is its holder.         *)
EXTENDS Naturals, Sequences, FiniteSets

CONSTANTS
    Workers,
    NumStacks,      \* tool stacks of the plan, 5 in the code
    MaxOverruns,    \* bound on leases that run out under a live holder
    MaxCrashes      \* bound on deaths of workers

Nobody == "nobody"

ASSUME WorkersAssumption == Nobody \notin Workers
ASSUME StacksAssumption == NumStacks \in Nat \ {0}
ASSUME BoundsAssumption == MaxOverruns \in Nat /\ MaxCrashes \in Nat

(* A code is empty, passes the gate or does not (the text of an error does *)
(* not).                                                                   *)
Codes == {"", "good", "bad"}
Passes(code) == code = "good"

Attempts == [id : Nat, code : Codes, success : BOOLEAN]

Stages == {"builder", "repair", "reviewing", "ranking", "novelty", "packaging",
           "leaderboard", "finalize"}

VARIABLES
    ckpt,       \* the stored checkpoint
    ctx,        \* the context of each worker: its copy of it
    at,         \* the unit of work each worker is in
    job,        \* the stage it executes
    holder,     \* who holds the lease of the stage
    template,   \* what the fallback generator makes for each stack
    ids,        \* attempts that were given an id
    build,      \* builds.status: active, failed or complete
    results,    \* builds.results_json
    board,      \* the entry of the leaderboard: none, new or rated
    overruns, crashes

vars == <<ckpt, ctx, at, job, holder, template, ids, build, results, board, overruns, crashes>>

Empty == [built |-> <<>>, attempts |-> <<>>, fallbacks |-> FALSE, validated |-> FALSE,
          scores |-> "none", reviews |-> <<>>, winner |-> 0, iterated |-> FALSE,
          final |-> "", passed |-> FALSE, zip |-> "", recorded |-> FALSE, marks |-> {}]

Init ==
    /\ ckpt = Empty /\ ctx = [w \in Workers |-> Empty]
    /\ at = [w \in Workers |-> "idle"] /\ job = [w \in Workers |-> "builder"]
    /\ holder = Nobody
    /\ template \in [1..NumStacks -> {"good", "bad"}]
    /\ ids = 0 /\ build = "active" /\ results = "none" /\ board = "none"
    /\ overruns = 0 /\ crashes = 0

-----------------------------------------------------------------------------
(* Reading the checkpoint.                                                 *)
Ids(attempts) == [i \in DOMAIN attempts |-> attempts[i].id]

\* resolve_winner: the attempt ranked first, if it is among the attempts.
HasWinner(c) == c.winner # 0 /\ \E i \in DOMAIN c.attempts : c.attempts[i].id = c.winner
WinnerCode(c) ==
    LET i == CHOOSE i \in DOMAIN c.attempts : c.attempts[i].id = c.winner
    IN c.attempts[i].code

\* checkpoint_satisfies_stage.
DoneIn(c, s) ==
    /\ s \in c.marks
    /\ CASE s = "builder" -> c.attempts # <<>>
         [] s = "repair" -> c.validated
         [] s = "reviewing" -> c.reviews # <<>>
         [] s = "ranking" -> c.winner # 0
         [] s = "novelty" -> c.final # ""
         [] s = "packaging" -> c.zip # ""
         [] s = "leaderboard" -> c.recorded
         [] s = "finalize" -> TRUE

Order == <<"builder", "repair", "reviewing", "ranking", "novelty", "packaging",
           "leaderboard", "finalize">>
\* Variants: any stage that is not done; the last stage that is done as well.
IsOpen(c, s) == ~DoneIn(c, s)
IsLast(c, s) == \E n \in DOMAIN Order : /\ Order[n] = s
                                        /\ n < Len(Order) => ~DoneIn(c, Order[n + 1])
                                        /\ \A k \in 1..n - 1 : DoneIn(c, Order[k])

IsNext(c, s) == \E n \in DOMAIN Order : /\ Order[n] = s /\ ~DoneIn(c, s)
                                        /\ \A k \in 1..n - 1 : DoneIn(c, Order[k])

\* Variant: what failed validation is left to finalize.
MayPackageAlways(c) == TRUE

MayPackage(c) == c.passed

(* The unit a stage begins with.                                           *)
FirstUnit(c, s) ==
    CASE s = "builder" -> IF c.attempts # <<>> THEN "end" ELSE "build"
      [] s = "repair" -> IF c.validated /\ c.attempts # <<>> THEN "end"
                         ELSE IF c.fallbacks THEN "validate" ELSE "fallbacks"
      [] s = "reviewing" -> IF c.attempts = <<>> THEN "raise"
                            ELSE IF c.scores = "none" THEN "score"
                            ELSE IF c.reviews = <<>> THEN "review" ELSE "end"
      [] s = "ranking" -> IF c.winner = 0 THEN "rank" ELSE IF HasWinner(c) THEN "end" ELSE "raise"
      [] s = "novelty" -> IF c.iterated THEN "check" ELSE "iterate"
      [] s = "packaging" -> IF ~MayPackage(c) THEN "raise" ELSE IF c.zip # "" THEN "end"
                            ELSE IF HasWinner(c) THEN "package" ELSE "raise"
      [] s = "leaderboard" -> IF HasWinner(c) THEN "record" ELSE "end"
      [] s = "finalize" -> IF c.passed /\ c.scores # "odd" THEN "publish" ELSE "raise"

-----------------------------------------------------------------------------
(* A worker takes the next stage, unless it is done or the build ended.    *)
Runnable(s) == build = "active" /\ IsNext(ckpt, s)

Begin(w) ==
    /\ at[w] = "idle" /\ holder = Nobody
    /\ \E s \in Stages :
          /\ Runnable(s)
          /\ job' = [job EXCEPT ![w] = s]
          /\ at' = [at EXCEPT ![w] = FirstUnit(ckpt, s)]
    /\ holder' = w /\ ctx' = [ctx EXCEPT ![w] = ckpt]
    /\ UNCHANGED <<ckpt, template, ids, build, results, board, overruns, crashes>>

Go(w, u) == at' = [at EXCEPT ![w] = u]
Release(w) == holder' = IF holder = w THEN Nobody ELSE holder

(* save_checkpoint: the same keys in the copy and in the stored document.  *)
Save(w, Keys(_)) == ckpt' = Keys(ckpt) /\ ctx' = [ctx EXCEPT ![w] = Keys(ctx[w])]

(* ResponsibleBuilder.build, CreativeBuilder.build: the answer of a model  *)
(* may be the text of an error, and asking for it may raise.               *)
Answered(answer) ==
    CASE answer = "error" -> [code |-> "bad", success |-> FALSE]
      [] answer = "raises" -> [code |-> "", success |-> FALSE]
      [] OTHER -> [code |-> answer, success |-> TRUE]

\* apply_builder_tools: what there is must become files.
Materialized(a, written) == IF a.success /\ a.code # "" THEN [a EXCEPT !.success = written] ELSE a

Made == {Materialized(Answered(answer), written) :
            answer \in Codes \cup {"error", "raises"}, written \in BOOLEAN}

(* build_all_attempts: a responsible and a creative attempt for each stack *)
(* (i and i + NumStacks).                                                  *)
Build(w) ==
    /\ at[w] = "build"
    /\ \E made \in [1..2 * NumStacks -> Made] :
          LET pool == [i \in DOMAIN made |-> [id |-> ids + i, code |-> made[i].code,
                                              success |-> made[i].success]]
          IN Save(w, LAMBDA c : [c EXCEPT !.built = pool, !.attempts = pool])
    /\ ids' = ids + 2 * NumStacks
    /\ Go(w, "end")
    /\ UNCHANGED <<job, holder, template, build, results, board, overruns, crashes>>

(* apply_build_fallbacks: what did not succeed is replaced, under new ids. *)
\* Variant: a stub, whatever the stack.
Placeholder(a, i) == [id |-> ids + i, code |-> "TODO", success |-> TRUE]

Replacement(a, i) == [id |-> ids + i, code |-> template[((i - 1) % NumStacks) + 1],
                      success |-> TRUE]

Fallbacks(w) ==
    /\ at[w] = "fallbacks"
    /\ LET pool == [i \in DOMAIN ctx[w].built |->
                       LET a == ctx[w].built[i] IN IF a.success THEN a ELSE Replacement(a, i)]
       IN Save(w, LAMBDA c : [c EXCEPT !.attempts = pool, !.fallbacks = TRUE])
    /\ ids' = ids + 2 * NumStacks
    /\ Go(w, "validate")
    /\ UNCHANGED <<job, holder, template, build, results, board, overruns, crashes>>

(* validation_repair_loop: what does not pass becomes what the generator   *)
(* makes for its stack, in every round; an empty artifact is not tried.    *)
Repaired(a, i) ==
    LET code == IF a.code = "bad" THEN template[((i - 1) % NumStacks) + 1] ELSE a.code
    IN [a EXCEPT !.code = code, !.success = Passes(code)]

\* What passes, in the order of the pool (SelectSeq is out of reach of the
\* provers).
Place(S, i) == Cardinality({k \in S : k <= i})

Validated(pool) ==
    LET passing == {i \in DOMAIN pool : Passes(pool[i].code)}
    IN [n \in 1..Cardinality(passing) |-> pool[CHOOSE i \in passing : Place(passing, i) = n]]

(* _ensure_minimum_validated: for the first stacks, what the generator     *)
(* makes, or what is left of it without the files that do not pass.        *)
Minimum(valid, rest) ==
    LET need == IF Len(valid) < 2 THEN 2 - Len(valid) ELSE 0
        more == [i \in 1..(IF need < NumStacks THEN need ELSE NumStacks) |->
                    [id |-> ids + i, success |-> TRUE,
                     code |-> IF Passes(template[i]) THEN template[i] ELSE rest[i]]]
    IN valid \o Validated(more)

Validate(w) ==
    /\ at[w] = "validate"
    /\ \E rest \in [1..NumStacks -> {"good", "bad"}] :
          LET repaired == [i \in DOMAIN ctx[w].attempts |-> Repaired(ctx[w].attempts[i], i)]
              valid == Minimum(Validated(repaired), rest)
          IN /\ Save(w, LAMBDA c : [c EXCEPT !.attempts = IF valid # <<>> THEN valid ELSE repaired,
                                             !.validated = TRUE, !.passed = FALSE])
             /\ Go(w, IF valid # <<>> THEN "end" ELSE "raise")
    /\ ids' = ids + NumStacks
    /\ UNCHANGED <<job, holder, template, build, results, board, overruns, crashes>>
-----------------------------------------------------------------------------
(* Reviews and ranks.                                                      *)

\* review_all_builders: answers of any shape are kept; a score that is no
\* number, or an answer that is no object, is "odd".
ScoreBuilders(w) ==
    /\ at[w] = "score"
    /\ \E scores \in {"sound", "odd"} : Save(w, LAMBDA c : [c EXCEPT !.scores = scores])
    /\ Go(w, "review")
    /\ UNCHANGED <<job, holder, template, ids, build, results, board, overruns, crashes>>

(* Each reviewer reports on every attempt, with _fallback_review when its  *)
(* answer cannot be read or did not come.                                  *)
CodeReviews(c) == Ids(c.attempts)
ProductReviews(c) == Ids(c.attempts)
CreativeReviews(c) == Ids(c.attempts)

\* _merge_reviews_triple: as far as all three go.
Merged(code, product, creative) ==
    [i \in DOMAIN code \cap DOMAIN product \cap DOMAIN creative |-> code[i]]

Review(w) ==
    /\ at[w] = "review"
    /\ LET c == ctx[w]
       IN Save(w, LAMBDA d : [d EXCEPT !.reviews = Merged(CodeReviews(c), ProductReviews(c),
                                                          CreativeReviews(c))])
    /\ Go(w, "end")
    /\ UNCHANGED <<job, holder, template, ids, build, results, board, overruns, crashes>>

\* rank_all: which attempt comes first is TraitRanking.
Rank(w) ==
    /\ at[w] = "rank"
    /\ \E i \in DOMAIN ctx[w].attempts :
          Save(w, LAMBDA c : [c EXCEPT !.winner = ctx[w].attempts[i].id])
    /\ Go(w, "end")
    /\ UNCHANGED <<job, holder, template, ids, build, results, board, overruns, crashes>>

-----------------------------------------------------------------------------
(* The final code.                                                         *)
FirstCode(c) ==
    IF \E i \in DOMAIN c.attempts : c.attempts[i].code # ""
    THEN LET i == CHOOSE i \in DOMAIN c.attempts :
                      /\ c.attempts[i].code # ""
                      /\ \A k \in 1..i - 1 : c.attempts[k].code = ""
         IN c.attempts[i].code
    ELSE ""

\* What is shipped if no iteration succeeds.
Fallback(c) == IF HasWinner(c) /\ WinnerCode(c) # "" THEN WinnerCode(c)
               ELSE IF c.final # "" THEN c.final ELSE FirstCode(c)

\* build_novelty: three iterations on the winner, the last that succeeded
\* counts; without a winner there are none.
Iterations(c) == IF HasWinner(c) THEN {"good", "bad", "none"} ELSE {"none"}

Iterate(w) ==
    /\ at[w] = "iterate"
    /\ \E best \in Iterations(ctx[w]) :
          Save(w, LAMBDA c : [c EXCEPT !.iterated = HasWinner(ctx[w]),
                                       !.final = IF best = "none" THEN Fallback(ctx[w]) ELSE best])
    /\ Go(w, "check")
    /\ UNCHANGED <<job, holder, template, ids, build, results, board, overruns, crashes>>

\* _validate_final_code: the gate, once more for the winner.
\* Variant: the verdict on the final code stands.
NoRevert(c) == c.final

Reverted(c) ==
    LET code == IF c.final # "" THEN c.final ELSE FirstCode(c)
    IN IF ~Passes(code) /\ HasWinner(c) /\ Passes(WinnerCode(c)) THEN WinnerCode(c) ELSE code

\* Variant: the verdict is saved without the code it is about.
VerdictAlone(c, code) == [c EXCEPT !.passed = Passes(code)]

WithVerdict(c, code) == [c EXCEPT !.final = code, !.passed = Passes(code)]

Check(w) ==
    /\ at[w] = "check"
    /\ IF Reverted(ctx[w]) = "" THEN UNCHANGED <<ckpt, ctx>>
       ELSE Save(w, LAMBDA c : WithVerdict(c, Reverted(ctx[w])))
    /\ Go(w, "end")
    /\ UNCHANGED <<job, holder, template, ids, build, results, board, overruns, crashes>>

\* create_package: the files of the final code.
Packaged(c) == c.final

Package(w) ==
    /\ at[w] = "package"
    /\ Save(w, LAMBDA c : [c EXCEPT !.zip = Packaged(ctx[w])])
    /\ Go(w, "end")
    /\ UNCHANGED <<job, holder, template, ids, build, results, board, overruns, crashes>>

-----------------------------------------------------------------------------
(* The leaderboard, and the end of the build.                              *)

\* add_leaderboard_entry: INSERT OR REPLACE, without a rating.
Entered == "new"

Record(w) ==
    /\ at[w] = "record"
    /\ board' = Entered
    /\ Go(w, "note")
    /\ UNCHANGED <<ckpt, ctx, job, holder, template, ids, build, results, overruns, crashes>>

NoteRecorded(w) ==
    /\ at[w] = "note"
    /\ Save(w, LAMBDA c : [c EXCEPT !.recorded = TRUE])
    /\ Go(w, "end")
    /\ UNCHANGED <<job, holder, template, ids, build, results, board, overruns, crashes>>

\* Variant: the results are left to somebody else.
PublishOnly(w) ==
    /\ at[w] = "publish"
    /\ build' = "complete"
    /\ Go(w, "end")
    /\ UNCHANGED <<ckpt, ctx, job, holder, template, ids, results, board, overruns, crashes>>

\* _finalize_success: the status first, then the results.
Publish(w) ==
    /\ at[w] = "publish"
    /\ build' = "complete"
    /\ Go(w, IF ctx[w].winner # 0 THEN "results" ELSE "raise")
    /\ UNCHANGED <<ckpt, ctx, job, holder, template, ids, results, board, overruns, crashes>>

SaveResults(w) ==
    /\ at[w] = "results"
    /\ build' = "complete" /\ results' = "success"
    /\ Go(w, "end")
    /\ UNCHANGED <<ckpt, ctx, job, holder, template, ids, board, overruns, crashes>>

\* complete_stage_with_checkpoint sets the marker for whoever asks;
\* verify_stage_done fails the build if the stage is not done with it.
End(w) ==
    /\ at[w] = "end"
    /\ ckpt' = [ckpt EXCEPT !.marks = @ \cup {job[w]}]
    /\ build' = IF build = "active" /\ ~DoneIn(ckpt', job[w]) THEN "failed" ELSE build
    /\ Go(w, "idle") /\ Release(w)
    /\ UNCHANGED <<ctx, job, template, ids, results, board, overruns, crashes>>

\* The stage raises: _finalize_failure.
Raise(w) ==
    /\ at[w] = "raise"
    /\ build' = "failed" /\ results' = "failed"
    /\ Go(w, "idle") /\ Release(w)
    /\ UNCHANGED <<ckpt, ctx, job, template, ids, board, overruns, crashes>>

-----------------------------------------------------------------------------
(* A user rates the entry; leases run out; workers die.                    *)
RateEntry ==
    /\ board = "new" /\ board' = "rated"
    /\ UNCHANGED <<ckpt, ctx, at, job, holder, template, ids, build, results, overruns, crashes>>

Overrun ==
    /\ holder # Nobody /\ overruns < MaxOverruns
    /\ holder' = Nobody /\ overruns' = overruns + 1
    /\ UNCHANGED <<ckpt, ctx, at, job, template, ids, build, results, board, crashes>>

Crash(w) ==
    /\ at[w] # "idle" /\ crashes < MaxCrashes
    /\ Go(w, "idle") /\ Release(w) /\ crashes' = crashes + 1
    /\ UNCHANGED <<ckpt, ctx, job, template, ids, build, results, board, overruns>>

Work(w) ==
    \/ Build(w) \/ Fallbacks(w) \/ Validate(w)
    \/ ScoreBuilders(w) \/ Review(w) \/ Rank(w)
    \/ Iterate(w) \/ Check(w) \/ Package(w)
    \/ Record(w) \/ NoteRecorded(w) \/ Publish(w) \/ SaveResults(w)
    \/ End(w) \/ Raise(w)

Next ==
    \/ \E w \in Workers : Begin(w) \/ Work(w) \/ Crash(w)
    \/ RateEntry \/ Overrun

Spec == Init /\ [][Next]_vars

-----------------------------------------------------------------------------
Documents == [built : Seq(Attempts), attempts : Seq(Attempts), fallbacks : BOOLEAN,
              validated : BOOLEAN, scores : {"none", "sound", "odd"}, reviews : Seq(Nat),
              winner : Nat, iterated : BOOLEAN, final : Codes, passed : BOOLEAN,
              zip : Codes, recorded : BOOLEAN, marks : SUBSET Stages]

Units == {"idle", "build", "fallbacks", "validate", "score", "review", "rank", "iterate",
          "check", "package", "record", "note", "publish", "results", "end", "raise"}

(* The values of the variables.                                            *)
TypeOK ==
    /\ ckpt \in Documents /\ ctx \in [Workers -> Documents]
    /\ at \in [Workers -> Units] /\ job \in [Workers -> Stages]
    /\ holder \in Workers \cup {Nobody}
    /\ template \in [1..NumStacks -> {"good", "bad"}] /\ ids \in Nat
    /\ build \in {"active", "failed", "complete"}
    /\ results \in {"none", "success", "failed"} /\ board \in {"none", "new", "rated"}
    /\ overruns \in 0..MaxOverruns /\ crashes \in 0..MaxCrashes

(* pipeline_runner.py:180, "cannot package" what failed validation: the    *)
(* package holds code that passed the gate, whatever died on the way.      *)
DeliverableValidated == ckpt.zip \in {"", "good"}

(* It does unless a worker outlived its lease.                             *)
PackagedPassed == overruns = 0 => DeliverableValidated

(* Reviews are about the attempts that are ranked, one for each and in     *)
(* their order, and the winner is one of them, in every later copy.        *)
ReviewsFit ==
    overruns = 0 =>
        \A c \in {ckpt} \cup {ctx[w] : w \in {v \in Workers : at[v] # "idle"}} :
            /\ c.reviews # <<>> => c.reviews = Ids(c.attempts)
            /\ c.winner # 0 => HasWinner(c)

(* Once attempts have passed the gate, the build does not fail for its     *)
(* code any more: an iteration that does not pass is replaced by the       *)
(* winner.  Only a score that is no number, met when all is done, fails it.*)
NoLateFailure ==
    overruns = 0 /\ crashes = 0 /\ ckpt.scores # "odd" =>
        (build = "failed" => "repair" \notin ckpt.marks)

(* What is on the leaderboard is no failed build, with the same exception. *)
RecordedSucceeds ==
    overruns = 0 /\ ckpt.scores # "odd" => (board # "none" => build # "failed")

(* A build shown complete has its results once its worker is done, unless  *)
(* one died.                                                               *)
ResultsUnlessCrashed ==
    overruns = 0 /\ crashes = 0 /\ build = "complete" /\ (\A w \in Workers : at[w] = "idle")
        => results = "success"

(* A rating of the entry is kept, unless the stage is executed again.      *)
RatingKept == [][board = "rated" /\ overruns = 0 /\ crashes = 0 => board' = "rated"]_vars
=============================================================================
