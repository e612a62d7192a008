---------------------------- MODULE PipelineStages ----------------------------
(***************************************************************************)
(* The tables of the build pipeline and the pure functions over them: the  *)
(* order of stages and the stage a build resumes at                        *)
(* (core/pipeline_stages.py, core/stage_state_machine.py), the states of a *)
(* build and their legal transitions (core/pipeline_fsm.py), and what each *)
(* stage reads and saves (agents/, core/pipeline_runner.py).               *)
(***************************************************************************)
EXTENDS Naturals, Sequences

STAGE_ORDER ==
    <<"planning", "builder", "repair", "reviewing", "ranking", "novelty",
      "packaging", "leaderboard", "finalize">>

Stages == {STAGE_ORDER[i] : i \in 1 .. Len(STAGE_ORDER)}
StageIndex == [s \in Stages |-> CHOOSE i \in 1 .. Len(STAGE_ORDER) : STAGE_ORDER[i] = s]
Earlier(s) == {r \in Stages : StageIndex[r] < StageIndex[s]}
LaterStage(r, s) == IF StageIndex[r] >= StageIndex[s] THEN r ELSE s

NoneLeft == "none left"

\* Variant: an index off by one: the stage after the first one that is left.
FirstIncompleteNext(done) ==
    LET left == {s \in Stages \ done : ~(Earlier(s) \subseteq done)}
    IN IF left = {} THEN NoneLeft ELSE CHOOSE s \in left : Earlier(s) \cap left = {}

\* The first stage in the order that is not among those done, if any.
FirstIncomplete(done) ==
    IF Stages \subseteq done THEN NoneLeft
    ELSE CHOOSE s \in Stages \ done : Earlier(s) \subseteq done

-----------------------------------------------------------------------------
(* States of a build.                                                      *)

LINEAR_PIPELINE ==
    <<"queued", "planning", "generating", "reviewing", "ranking", "packaging", "complete">>
LinearStates == {LINEAR_PIPELINE[i] : i \in 1 .. Len(LINEAR_PIPELINE)}
LinearIndex ==
    [q \in LinearStates |-> CHOOSE i \in 1 .. Len(LINEAR_PIPELINE) : LINEAR_PIPELINE[i] = q]
TERMINAL_STATES == {"complete", "failed", "interrupted"}
PipelineStates == LinearStates \cup TERMINAL_STATES
ActiveStates == PipelineStates \ {"complete", "failed"}

CanTransition(from, to) ==
    \/ to \in {"failed", "interrupted"} /\ from \notin TERMINAL_STATES
    \/ from = "interrupted" /\ to \in LinearStates \ {"queued"}
    \/ /\ {from, to} \subseteq LinearStates
       /\ from \notin TERMINAL_STATES
       /\ LinearIndex[from] <= LinearIndex[to]

PHASE_TO_STATE ==
    [factory_builder |-> "planning", factory_review |-> "planning",
     builders |-> "generating", builder_review |-> "generating",
     validation |-> "generating", app_review |-> "reviewing",
     ranker |-> "ranking", novelty |-> "ranking",
     packaging |-> "packaging", leaderboard |-> "packaging",
     complete |-> "complete"]

STAGE_TO_PIPELINE_STATE ==
    [planning |-> "planning", builder |-> "generating", repair |-> "generating",
     reviewing |-> "reviewing", ranking |-> "ranking", novelty |-> "ranking",
     packaging |-> "packaging", leaderboard |-> "packaging", finalize |-> "complete"]

STAGE_DEFAULT_PHASE ==
    [planning |-> "factory_builder", builder |-> "builders", repair |-> "validation",
     reviewing |-> "app_review", ranking |-> "ranker", novelty |-> "novelty",
     packaging |-> "packaging", leaderboard |-> "leaderboard", finalize |-> "complete"]

-----------------------------------------------------------------------------
(* The stage to resume at.                                                 *)

RESUME_PHASE_TO_STAGE ==
    [factory_builder |-> "planning", factory_review |-> "planning",
     builders |-> "builder", builder_review |-> "reviewing",
     validation |-> "repair", app_review |-> "reviewing",
     ranker |-> "ranking", novelty |-> "novelty",
     packaging |-> "packaging", leaderboard |-> "leaderboard"]

\* Variant: the phase of a build that is not interrupted counts, too, and the
\* stage after it is resumed at.
ResumeStageNext(done, status, phase) ==
    LET canonical == FirstIncomplete(done)
        hinted == RESUME_PHASE_TO_STAGE[phase]
    IN IF canonical # NoneLeft /\ phase \in DOMAIN RESUME_PHASE_TO_STAGE
       THEN LaterStage(canonical, STAGE_ORDER[StageIndex[hinted] + 1])
       ELSE canonical

\* resolve_resume_stage: the first incomplete stage; for an interrupted build,
\* the stage of its last phase when that is later.
ResumeStage(done, status, phase) ==
    LET canonical == FirstIncomplete(done)
    IN IF canonical # NoneLeft /\ status = "interrupted"
          /\ phase \in DOMAIN RESUME_PHASE_TO_STAGE
       THEN LaterStage(canonical, RESUME_PHASE_TO_STAGE[phase])
       ELSE canonical

-----------------------------------------------------------------------------
(* What the stages do, as a list of units of work.  A unit begins in a     *)
(* phase ("enter"), or at once ("work"), or by publishing the results, and *)
(* ends with a save of checkpoint keys.                                    *)
(*                                                                         *)
(* A key stands for an entry of the checkpoint that is present and not     *)
(* empty.  attempts_passed and final_code_passed are two facts the saved   *)
(* attempts and validation reports carry; validated_attempts and           *)
(* validation are saved together and are one key here; ranked_builds is    *)
(* there when the ranking has a winner.                                    *)

Unit == [first |-> "enter", phase |-> "", skip |-> {}, only |-> {}, needs |-> {},
         saves |-> {}, may |-> {}, must |-> {}, drops |-> {}, mark |-> {}, again |-> {}]

\* skip: not done when one of these keys is there; only: done when all are;
\* needs: fails without them; saves: keys saved; may: keys saved when the work
\* yielded them and cleared when not; must: the stage fails, after the save,
\* without them; drops: keys the save clears; mark: the stage whose marker
\* stage_checkpoint sets; again: keys saved a second time by themselves.
PlannerUnits ==
    <<[Unit EXCEPT !.phase = "factory_builder", !.skip = {"tool_combinations"},
         !.saves = {"tool_combinations"}, !.mark = {"planning"},
         !.again = {"tool_combinations"}],
      [Unit EXCEPT !.phase = "factory_review", !.skip = {"factory_review"},
         !.saves = {"factory_review"}, !.mark = {"planning"},
         !.again = {"factory_review"}]>>

BuilderUnits ==
    <<[Unit EXCEPT !.phase = "builders", !.skip = {"all_attempts"},
         !.saves = {"all_attempts"}, !.drops = {"attempts_passed"}]>>

\* Variant: attempts that do not pass are no failure of the stage.
RepairUnitsQuiet ==
    <<[Unit EXCEPT !.first = "work",
         !.skip = {"repair_fallbacks_done", "validated_attempts"},
         !.saves = {"all_attempts", "repair_fallbacks_done"},
         !.drops = {"attempts_passed"}],
      [Unit EXCEPT !.phase = "validation", !.skip = {"validated_attempts"},
         !.saves = {"all_attempts", "validated_attempts"},
         !.may = {"attempts_passed"}, !.drops = {"final_code_passed"}]>>

RepairUnits ==
    <<[Unit EXCEPT !.first = "work",
         !.skip = {"repair_fallbacks_done", "validated_attempts"},
         !.saves = {"all_attempts", "repair_fallbacks_done"},
         !.drops = {"attempts_passed"}],
      [Unit EXCEPT !.phase = "validation", !.skip = {"validated_attempts"},
         !.saves = {"all_attempts", "validated_attempts"},
         !.may = {"attempts_passed"}, !.must = {"attempts_passed"},
         !.drops = {"final_code_passed"}]>>

\* Variant: the two reviews in the other order.
ReviewerUnitsSwapped ==
    <<[Unit EXCEPT !.phase = "app_review", !.skip = {"app_reviews"},
         !.saves = {"app_reviews"}, !.mark = {"reviewing"}],
      [Unit EXCEPT !.phase = "builder_review", !.skip = {"builder_reviews"},
         !.saves = {"builder_reviews"}]>>

ReviewerUnits ==
    <<[Unit EXCEPT !.phase = "builder_review", !.skip = {"builder_reviews"},
         !.saves = {"builder_reviews"}],
      [Unit EXCEPT !.phase = "app_review", !.skip = {"app_reviews"},
         !.saves = {"app_reviews"}, !.mark = {"reviewing"}]>>

RankerUnits ==
    <<[Unit EXCEPT !.phase = "ranker", !.skip = {"ranked_builds"},
         !.may = {"ranked_builds"}, !.must = {"ranked_builds"}, !.mark = {"ranking"}]>>

NoveltyUnits ==
    <<[Unit EXCEPT !.phase = "novelty", !.skip = {"novelty_attempts"},
         !.may = {"novelty_attempts", "final_code"}, !.mark = {"ranking"}],
      [Unit EXCEPT !.first = "work", !.only = {"final_code"},
         !.saves = {"final_code"}, !.may = {"final_code_passed"}, !.mark = {"ranking"}]>>

PackagingUnits ==
    <<[Unit EXCEPT !.phase = "packaging", !.skip = {"zip_path"},
         !.needs = {"ranked_builds"}, !.saves = {"zip_path"}, !.mark = {"packaging"}]>>

LeaderboardUnits ==
    <<[Unit EXCEPT !.phase = "leaderboard"],
      [Unit EXCEPT !.first = "work", !.only = {"ranked_builds"},
         !.saves = {"leaderboard_recorded"}, !.mark = {"packaging"}]>>

\* Variant: nothing is published.
FinalizeUnitsQuiet ==
    <<[Unit EXCEPT !.phase = "complete"],
      [Unit EXCEPT !.first = "work", !.saves = {"completed"}]>>

FinalizeUnits ==
    <<[Unit EXCEPT !.phase = "complete"],
      [Unit EXCEPT !.first = "publish", !.saves = {"completed"}]>>

Units ==
    [planning |-> PlannerUnits,
     builder |-> BuilderUnits,
     repair |-> RepairUnits,
     reviewing |-> ReviewerUnits,
     ranking |-> RankerUnits,
     novelty |-> NoveltyUnits,
     packaging |-> PackagingUnits,
     leaderboard |-> LeaderboardUnits,
     finalize |-> FinalizeUnits]

\* What a stage checks before anything else.
StageNeeds ==
    [s \in Stages |->
        CASE s = "reviewing" -> {"all_attempts"}
          [] s \in {"packaging", "finalize"} -> {"final_code_passed"}
          [] OTHER -> {}]

\* The plan, which every later save writes again.
PlanKeys == {"tool_combinations", "factory_review"}

\* STAGE_REQUIRED_CHECKPOINT_KEYS: with these and its marker a stage is done.
REQUIRED_KEYS ==
    [planning |-> PlanKeys, builder |-> {"all_attempts"}, repair |-> {"validated_attempts"},
     reviewing |-> {"app_reviews"}, ranking |-> {"ranked_builds"},
     novelty |-> {"final_code"}, packaging |-> {"zip_path"},
     leaderboard |-> {"leaderboard_recorded"}, finalize |-> {"completed"}]

UnitsOf(s) == {Units[s][i] : i \in 1 .. Len(Units[s])}
KeysOf(s) == UNION {u.saves \cup u.may : u \in UnitsOf(s)}
Keys == UNION {KeysOf(s) : s \in Stages}

\* A checkpoint is a set of keys and stages, a stage standing for its marker.
DoneIn(ckpt) == {s \in Stages : s \in ckpt /\ REQUIRED_KEYS[s] \subseteq ckpt}
=============================================================================
