------------------------ MODULE PipelineStagesProofs ------------------------
(***************************************************************************)
(* What the tables of PipelineStages say for every set of stages done: the *)
(* first incomplete stage has all before it done, and no phase belongs to  *)
(* a stage later than the one that passes it.                              *)
(***************************************************************************)
EXTENDS PipelineStages, TLAPS

\* The order has nine places.
LEMMA StageNumbers == Len(STAGE_ORDER) = 9 /\ 1 .. Len(STAGE_ORDER) = {1, 2, 3, 4, 5, 6, 7, 8, 9}
<1>1. Len(STAGE_ORDER) = 9
  BY DEF STAGE_ORDER
<1> QED BY <1>1

\* The stages, by name.
LEMMA StageNames ==
    Stages = {"planning", "builder", "repair", "reviewing", "ranking", "novelty",
              "packaging", "leaderboard", "finalize"}
  BY StageNumbers DEF Stages, STAGE_ORDER

\* The place of each stage in the order.
LEMMA Indices ==
    /\ StageIndex["planning"] = 1
    /\ StageIndex["builder"] = 2
    /\ StageIndex["repair"] = 3
    /\ StageIndex["reviewing"] = 4
    /\ StageIndex["ranking"] = 5
    /\ StageIndex["novelty"] = 6
    /\ StageIndex["packaging"] = 7
    /\ StageIndex["leaderboard"] = 8
    /\ StageIndex["finalize"] = 9
<1>1. ASSUME NEW k \in 1 .. Len(STAGE_ORDER)
      PROVE  StageIndex[STAGE_ORDER[k]] = k
  <2>1. \A i \in 1 .. Len(STAGE_ORDER) : STAGE_ORDER[i] = STAGE_ORDER[k] <=> i = k
    BY StageNumbers DEF STAGE_ORDER
  <2>2. STAGE_ORDER[k] \in Stages
    BY DEF Stages
  <2> QED BY <2>1, <2>2 DEF StageIndex
<1>2. \A k \in 1 .. 9 : StageIndex[STAGE_ORDER[k]] = k
  BY <1>1, StageNumbers
<1> QED BY <1>2 DEF STAGE_ORDER

\* Every set of stages that is not empty has a first one.
LEMMA FirstOf ==
    ASSUME NEW T \in SUBSET Stages, T # {}
    PROVE  \E s \in T : \A r \in T : StageIndex[s] <= StageIndex[r]
<1>1. CASE "planning" \in T
  BY <1>1, StageNames, Indices
<1>2. CASE "builder" \in T /\ "planning" \notin T
  BY <1>2, StageNames, Indices
<1>3. CASE "repair" \in T /\ "planning" \notin T /\ "builder" \notin T
  BY <1>3, StageNames, Indices
<1>4. CASE "reviewing" \in T /\ "planning" \notin T /\ "builder" \notin T /\ "repair" \notin T
  BY <1>4, StageNames, Indices
<1>5. CASE "ranking" \in T /\ "planning" \notin T /\ "builder" \notin T /\ "repair" \notin T /\ "reviewing" \notin T
  BY <1>5, StageNames, Indices
<1>6. CASE "novelty" \in T /\ "planning" \notin T /\ "builder" \notin T /\ "repair" \notin T /\ "reviewing" \notin T /\ "ranking" \notin T
  BY <1>6, StageNames, Indices
<1>7. CASE "packaging" \in T /\ "planning" \notin T /\ "builder" \notin T /\ "repair" \notin T /\ "reviewing" \notin T /\ "ranking" \notin T /\ "novelty" \notin T
  BY <1>7, StageNames, Indices
<1>8. CASE "leaderboard" \in T /\ "planning" \notin T /\ "builder" \notin T /\ "repair" \notin T /\ "reviewing" \notin T /\ "ranking" \notin T /\ "novelty" \notin T /\ "packaging" \notin T
  BY <1>8, StageNames, Indices
<1>9. CASE "finalize" \in T /\ "planning" \notin T /\ "builder" \notin T /\ "repair" \notin T /\ "reviewing" \notin T /\ "ranking" \notin T /\ "novelty" \notin T /\ "packaging" \notin T /\ "leaderboard" \notin T
  BY <1>9, StageNames, Indices
<1> QED BY <1>1, <1>2, <1>3, <1>4, <1>5, <1>6, <1>7, <1>8, <1>9, StageNames

\* canonical_next_stage: all stages before the one it returns are done.
LEMMA FirstIncompleteIsReady ==
    ASSUME NEW done, FirstIncomplete(done) # NoneLeft
    PROVE  FirstIncomplete(done) \in Stages \ done /\ Earlier(FirstIncomplete(done)) \subseteq done
<1>1. Stages \ done # {} /\ Stages \ done \in SUBSET Stages
  BY DEF FirstIncomplete
<1>2. PICK s \in Stages \ done : \A r \in Stages \ done : StageIndex[s] <= StageIndex[r]
  BY <1>1, FirstOf
<1>3. \A r \in Stages : StageIndex[r] \in Nat
  BY StageNames, Indices
<1>4. Earlier(s) \subseteq done
  BY <1>2, <1>3 DEF Earlier
<1> QED BY <1>1, <1>4 DEF FirstIncomplete

-----------------------------------------------------------------------------
(* Phases.                                                                 *)

\* A phase stands for a stage that may be resumed at, or for none.
LEMMA ResumePhases ==
    /\ DOMAIN RESUME_PHASE_TO_STAGE = {"factory_builder", "factory_review", "builders",
           "builder_review", "validation", "app_review", "ranker", "novelty",
           "packaging", "leaderboard"}
    /\ \A f \in DOMAIN RESUME_PHASE_TO_STAGE : RESUME_PHASE_TO_STAGE[f] \in Stages
  BY StageNames DEF RESUME_PHASE_TO_STAGE

\* The default phase of a stage, and its name, stand for the stage itself.
LEMMA OwnPhases ==
    ASSUME NEW s \in Stages
    PROVE  /\ STAGE_DEFAULT_PHASE[s] \in DOMAIN PHASE_TO_STATE
           /\ STAGE_DEFAULT_PHASE[s] \in DOMAIN RESUME_PHASE_TO_STAGE
              => RESUME_PHASE_TO_STAGE[STAGE_DEFAULT_PHASE[s]] = s
           /\ s \in DOMAIN RESUME_PHASE_TO_STAGE => RESUME_PHASE_TO_STAGE[s] = s
           /\ STAGE_TO_PIPELINE_STATE[s] \in PipelineStates
<1>1. {"planning", "generating", "reviewing", "ranking", "packaging", "complete"} \subseteq PipelineStates
  <2>1. Len(LINEAR_PIPELINE) = 7
    BY DEF LINEAR_PIPELINE
  <2>2. 1 .. Len(LINEAR_PIPELINE) = {1, 2, 3, 4, 5, 6, 7}
    BY <2>1
  <2> QED BY <2>2 DEF PipelineStates, LinearStates, LINEAR_PIPELINE
<1>2. CASE s = "planning"
  BY <1>1, <1>2 DEF STAGE_DEFAULT_PHASE, RESUME_PHASE_TO_STAGE, PHASE_TO_STATE, STAGE_TO_PIPELINE_STATE
<1>3. CASE s = "builder"
  BY <1>1, <1>3 DEF STAGE_DEFAULT_PHASE, RESUME_PHASE_TO_STAGE, PHASE_TO_STATE, STAGE_TO_PIPELINE_STATE
<1>4. CASE s = "repair"
  BY <1>1, <1>4 DEF STAGE_DEFAULT_PHASE, RESUME_PHASE_TO_STAGE, PHASE_TO_STATE, STAGE_TO_PIPELINE_STATE
<1>5. CASE s = "reviewing"
  BY <1>1, <1>5 DEF STAGE_DEFAULT_PHASE, RESUME_PHASE_TO_STAGE, PHASE_TO_STATE, STAGE_TO_PIPELINE_STATE
<1>6. CASE s = "ranking"
  BY <1>1, <1>6 DEF STAGE_DEFAULT_PHASE, RESUME_PHASE_TO_STAGE, PHASE_TO_STATE, STAGE_TO_PIPELINE_STATE
<1>7. CASE s = "novelty"
  BY <1>1, <1>7 DEF STAGE_DEFAULT_PHASE, RESUME_PHASE_TO_STAGE, PHASE_TO_STATE, STAGE_TO_PIPELINE_STATE
<1>8. CASE s = "packaging"
  BY <1>1, <1>8 DEF STAGE_DEFAULT_PHASE, RESUME_PHASE_TO_STAGE, PHASE_TO_STATE, STAGE_TO_PIPELINE_STATE
<1>9. CASE s = "leaderboard"
  BY <1>1, <1>9 DEF STAGE_DEFAULT_PHASE, RESUME_PHASE_TO_STAGE, PHASE_TO_STATE, STAGE_TO_PIPELINE_STATE
<1>10. CASE s = "finalize"
  BY <1>1, <1>10 DEF STAGE_DEFAULT_PHASE, RESUME_PHASE_TO_STAGE, PHASE_TO_STATE, STAGE_TO_PIPELINE_STATE
<1> QED BY <1>2, <1>3, <1>4, <1>5, <1>6, <1>7, <1>8, <1>9, <1>10, StageNames

-----------------------------------------------------------------------------
(* Units of work.                                                          *)

\* A unit that names no stage later than its own, and saves keys only.
IsUnit(s, u) ==
    /\ u.first \in {"enter", "work", "publish"}
    /\ u.phase \in DOMAIN PHASE_TO_STATE \cup {""}
    /\ u.first = "enter" => u.phase # ""
    /\ u.first = "publish" => s = "finalize"
    /\ u.phase = "complete" => s = "finalize"
    /\ u.phase \in DOMAIN RESUME_PHASE_TO_STAGE => RESUME_PHASE_TO_STAGE[u.phase] = s
    /\ u.again \subseteq u.saves
    /\ u.mark \subseteq Stages

\* A stage has one or two units, and they are all its own.
LEMMA UnitFacts ==
    ASSUME NEW s \in Stages
    PROVE  /\ Len(Units[s]) \in {1, 2}
           /\ \A i \in 1 .. Len(Units[s]) : IsUnit(s, Units[s][i])
<1>1. CASE s = "planning"
  <2>1. Units[s] = PlannerUnits
    BY <1>1 DEF Units
  <2>2. Len(PlannerUnits) = 2
    BY DEF PlannerUnits
  <2>3. IsUnit(s, PlannerUnits[1])
    BY <1>1, StageNames DEF PlannerUnits, Unit, IsUnit, PHASE_TO_STATE, RESUME_PHASE_TO_STAGE
  <2>4. IsUnit(s, PlannerUnits[2])
    BY <1>1, StageNames DEF PlannerUnits, Unit, IsUnit, PHASE_TO_STATE, RESUME_PHASE_TO_STAGE
  <2> QED BY <2>1, <2>2, <2>3, <2>4
<1>2. CASE s = "builder"
  <2>1. Units[s] = BuilderUnits
    BY <1>2 DEF Units
  <2>2. Len(BuilderUnits) = 1
    BY DEF BuilderUnits
  <2>3. IsUnit(s, BuilderUnits[1])
    BY <1>2, StageNames DEF BuilderUnits, Unit, IsUnit, PHASE_TO_STATE, RESUME_PHASE_TO_STAGE
  <2> QED BY <2>1, <2>2, <2>3
<1>3. CASE s = "repair"
  <2>1. Units[s] = RepairUnits
    BY <1>3 DEF Units
  <2>2. Len(RepairUnits) = 2
    BY DEF RepairUnits
  <2>3. IsUnit(s, RepairUnits[1])
    BY <1>3, StageNames DEF RepairUnits, Unit, IsUnit, PHASE_TO_STATE, RESUME_PHASE_TO_STAGE
  <2>4. IsUnit(s, RepairUnits[2])
    BY <1>3, StageNames DEF RepairUnits, Unit, IsUnit, PHASE_TO_STATE, RESUME_PHASE_TO_STAGE
  <2> QED BY <2>1, <2>2, <2>3, <2>4
<1>4. CASE s = "reviewing"
  <2>1. Units[s] = ReviewerUnits
    BY <1>4 DEF Units
  <2>2. Len(ReviewerUnits) = 2
    BY DEF ReviewerUnits
  <2>3. IsUnit(s, ReviewerUnits[1])
    BY <1>4, StageNames DEF ReviewerUnits, Unit, IsUnit, PHASE_TO_STATE, RESUME_PHASE_TO_STAGE
  <2>4. IsUnit(s, ReviewerUnits[2])
    BY <1>4, StageNames DEF ReviewerUnits, Unit, IsUnit, PHASE_TO_STATE, RESUME_PHASE_TO_STAGE
  <2> QED BY <2>1, <2>2, <2>3, <2>4
<1>5. CASE s = "ranking"
  <2>1. Units[s] = RankerUnits
    BY <1>5 DEF Units
  <2>2. Len(RankerUnits) = 1
    BY DEF RankerUnits
  <2>3. IsUnit(s, RankerUnits[1])
    BY <1>5, StageNames DEF RankerUnits, Unit, IsUnit, PHASE_TO_STATE, RESUME_PHASE_TO_STAGE
  <2> QED BY <2>1, <2>2, <2>3
<1>6. CASE s = "novelty"
  <2>1. Units[s] = NoveltyUnits
    BY <1>6 DEF Units
  <2>2. Len(NoveltyUnits) = 2
    BY DEF NoveltyUnits
  <2>3. IsUnit(s, NoveltyUnits[1])
    BY <1>6, StageNames DEF NoveltyUnits, Unit, IsUnit, PHASE_TO_STATE, RESUME_PHASE_TO_STAGE
  <2>4. IsUnit(s, NoveltyUnits[2])
    BY <1>6, StageNames DEF NoveltyUnits, Unit, IsUnit, PHASE_TO_STATE, RESUME_PHASE_TO_STAGE
  <2> QED BY <2>1, <2>2, <2>3, <2>4
<1>7. CASE s = "packaging"
  <2>1. Units[s] = PackagingUnits
    BY <1>7 DEF Units
  <2>2. Len(PackagingUnits) = 1
    BY DEF PackagingUnits
  <2>3. IsUnit(s, PackagingUnits[1])
    BY <1>7, StageNames DEF PackagingUnits, Unit, IsUnit, PHASE_TO_STATE, RESUME_PHASE_TO_STAGE
  <2> QED BY <2>1, <2>2, <2>3
<1>8. CASE s = "leaderboard"
  <2>1. Units[s] = LeaderboardUnits
    BY <1>8 DEF Units
  <2>2. Len(LeaderboardUnits) = 2
    BY DEF LeaderboardUnits
  <2>3. IsUnit(s, LeaderboardUnits[1])
    BY <1>8, StageNames DEF LeaderboardUnits, Unit, IsUnit, PHASE_TO_STATE, RESUME_PHASE_TO_STAGE
  <2>4. IsUnit(s, LeaderboardUnits[2])
    BY <1>8, StageNames DEF LeaderboardUnits, Unit, IsUnit, PHASE_TO_STATE, RESUME_PHASE_TO_STAGE
  <2> QED BY <2>1, <2>2, <2>3, <2>4
<1>9. CASE s = "finalize"
  <2>1. Units[s] = FinalizeUnits
    BY <1>9 DEF Units
  <2>2. Len(FinalizeUnits) = 2
    BY DEF FinalizeUnits
  <2>3. IsUnit(s, FinalizeUnits[1])
    BY <1>9, StageNames DEF FinalizeUnits, Unit, IsUnit, PHASE_TO_STATE, RESUME_PHASE_TO_STAGE
  <2>4. IsUnit(s, FinalizeUnits[2])
    BY <1>9, StageNames DEF FinalizeUnits, Unit, IsUnit, PHASE_TO_STATE, RESUME_PHASE_TO_STAGE
  <2> QED BY <2>1, <2>2, <2>3, <2>4
<1> QED BY <1>1, <1>2, <1>3, <1>4, <1>5, <1>6, <1>7, <1>8, <1>9, StageNames

\* The keys of a unit are keys of the checkpoint.
LEMMA UnitKeys ==
    ASSUME NEW s \in Stages, NEW i \in 1 .. Len(Units[s])
    PROVE  Units[s][i].saves \cup Units[s][i].may \cup Units[s][i].again \subseteq Keys
<1>1. IsUnit(s, Units[s][i])
  BY UnitFacts
<1>2. Units[s][i] \in UnitsOf(s)
  BY DEF UnitsOf
<1>3. Units[s][i].saves \cup Units[s][i].may \subseteq KeysOf(s)
  BY <1>2 DEF KeysOf
<1>4. KeysOf(s) \subseteq Keys
  BY DEF Keys
<1> QED BY <1>1, <1>3, <1>4 DEF IsUnit

\* Every phase has a state of the pipeline.
LEMMA StatePhases == \A f \in DOMAIN PHASE_TO_STATE : PHASE_TO_STATE[f] \in PipelineStates
<1>1. Len(LINEAR_PIPELINE) = 7
  BY DEF LINEAR_PIPELINE
<1>2. 1 .. Len(LINEAR_PIPELINE) = {1, 2, 3, 4, 5, 6, 7}
  BY <1>1
<1>3. {"planning", "generating", "reviewing", "ranking", "packaging", "complete"} \subseteq PipelineStates
  BY <1>2 DEF PipelineStates, LinearStates, LINEAR_PIPELINE
<1> QED BY <1>3 DEF PHASE_TO_STATE
-----------------------------------------------------------------------------
(* Keys, and the stages that are done by them.                             *)

\* The stage that is verified by a key.
Home ==
    [tool_combinations |-> "planning", factory_review |-> "planning",
     all_attempts |-> "builder", validated_attempts |-> "repair", app_reviews |-> "reviewing",
     ranked_builds |-> "ranking", final_code |-> "novelty", zip_path |-> "packaging",
     leaderboard_recorded |-> "leaderboard", completed |-> "finalize"]

\* A stage is verified by the keys whose home it is.
LEMMA HomeKeys ==
    /\ \A s \in Stages : \A k \in REQUIRED_KEYS[s] : k \in DOMAIN Home /\ Home[k] = s
    /\ \A k \in PlanKeys : k \in DOMAIN Home /\ Home[k] = "planning"
<1>1. \A k \in REQUIRED_KEYS["planning"] : k \in DOMAIN Home /\ Home[k] = "planning"
  BY DEF REQUIRED_KEYS, PlanKeys, Home
<1>2. \A k \in REQUIRED_KEYS["builder"] : k \in DOMAIN Home /\ Home[k] = "builder"
  BY DEF REQUIRED_KEYS, PlanKeys, Home
<1>3. \A k \in REQUIRED_KEYS["repair"] : k \in DOMAIN Home /\ Home[k] = "repair"
  BY DEF REQUIRED_KEYS, PlanKeys, Home
<1>4. \A k \in REQUIRED_KEYS["reviewing"] : k \in DOMAIN Home /\ Home[k] = "reviewing"
  BY DEF REQUIRED_KEYS, PlanKeys, Home
<1>5. \A k \in REQUIRED_KEYS["ranking"] : k \in DOMAIN Home /\ Home[k] = "ranking"
  BY DEF REQUIRED_KEYS, PlanKeys, Home
<1>6. \A k \in REQUIRED_KEYS["novelty"] : k \in DOMAIN Home /\ Home[k] = "novelty"
  BY DEF REQUIRED_KEYS, PlanKeys, Home
<1>7. \A k \in REQUIRED_KEYS["packaging"] : k \in DOMAIN Home /\ Home[k] = "packaging"
  BY DEF REQUIRED_KEYS, PlanKeys, Home
<1>8. \A k \in REQUIRED_KEYS["leaderboard"] : k \in DOMAIN Home /\ Home[k] = "leaderboard"
  BY DEF REQUIRED_KEYS, PlanKeys, Home
<1>9. \A k \in REQUIRED_KEYS["finalize"] : k \in DOMAIN Home /\ Home[k] = "finalize"
  BY DEF REQUIRED_KEYS, PlanKeys, Home
<1>10. \A k \in PlanKeys : k \in DOMAIN Home /\ Home[k] = "planning"
  BY DEF PlanKeys, Home
<1> QED BY <1>1, <1>2, <1>3, <1>4, <1>5, <1>6, <1>7, <1>8, <1>9, <1>10, StageNames

\* Stages are compared by their places.
LEMMA StageOrder ==
    /\ \A s \in Stages : StageIndex[s] \in Nat /\ StageIndex["planning"] <= StageIndex[s]
    /\ \A r, s \in Stages :
          r = s \/ StageIndex[r] < StageIndex[s] \/ StageIndex[s] < StageIndex[r]
<1>1. \A s \in Stages : StageIndex[s] \in Nat /\ StageIndex["planning"] <= StageIndex[s]
  BY StageNames, Indices
<1>2. \A r, s \in Stages :
         r = s \/ StageIndex[r] < StageIndex[s] \/ StageIndex[s] < StageIndex[r]
  BY StageNames, Indices
<1> QED BY <1>1, <1>2

\* The places of the stages keys are homed at.
LEMMA HomePlaces ==
    /\ DOMAIN Home = {"tool_combinations", "factory_review", "all_attempts", "validated_attempts", "app_reviews", "ranked_builds", "final_code", "zip_path", "leaderboard_recorded", "completed"}
    /\ StageIndex[Home["tool_combinations"]] = 1
    /\ StageIndex[Home["factory_review"]] = 1
    /\ StageIndex[Home["all_attempts"]] = 2
    /\ StageIndex[Home["validated_attempts"]] = 3
    /\ StageIndex[Home["app_reviews"]] = 4
    /\ StageIndex[Home["ranked_builds"]] = 5
    /\ StageIndex[Home["final_code"]] = 6
    /\ StageIndex[Home["zip_path"]] = 7
    /\ StageIndex[Home["leaderboard_recorded"]] = 8
    /\ StageIndex[Home["completed"]] = 9
  BY Indices DEF Home

\* What a unit of stage s writes to the checkpoint.
Written(u) == u.saves \cup u.may \cup u.again

\* Keys W and markers M of stages up to s.
Behind(s, W, M) ==
    /\ W \cap Stages = {}
    /\ \A k \in W \cap DOMAIN Home : StageIndex[Home[k]] <= StageIndex[s]
    /\ \A r \in M : StageIndex[r] <= StageIndex[s]

\* No unit writes ahead of its stage: neither a key that verifies a later stage
\* nor the marker of one.
LEMMA UnitsWriteBehind ==
    ASSUME NEW s \in Stages, NEW i \in 1 .. Len(Units[s])
    PROVE  Behind(s, Written(Units[s][i]), Units[s][i].mark)
<1>1. CASE s = "planning"
  <2>1. Units[s] = PlannerUnits /\ Len(PlannerUnits) = 2
    BY <1>1 DEF Units, PlannerUnits
  <2>2. Behind(s, Written(PlannerUnits[1]), PlannerUnits[1].mark)
    <3>1. /\ Written(PlannerUnits[1]) = {"tool_combinations"}
          /\ PlannerUnits[1].mark = {"planning"}
      BY DEF PlannerUnits, Unit, Written
    <3> QED BY <1>1, <3>1, Indices, HomePlaces, StageNames DEF Behind
  <2>3. Behind(s, Written(PlannerUnits[2]), PlannerUnits[2].mark)
    <3>1. /\ Written(PlannerUnits[2]) = {"factory_review"}
          /\ PlannerUnits[2].mark = {"planning"}
      BY DEF PlannerUnits, Unit, Written
    <3> QED BY <1>1, <3>1, Indices, HomePlaces, StageNames DEF Behind
  <2> QED BY <2>1, <2>2, <2>3
<1>2. CASE s = "builder"
  <2>1. Units[s] = BuilderUnits /\ Len(BuilderUnits) = 1
    BY <1>2 DEF Units, BuilderUnits
  <2>2. Behind(s, Written(BuilderUnits[1]), BuilderUnits[1].mark)
    <3>1. /\ Written(BuilderUnits[1]) = {"all_attempts"}
          /\ BuilderUnits[1].mark = {}
      BY DEF BuilderUnits, Unit, Written
    <3> QED BY <1>2, <3>1, Indices, HomePlaces, StageNames DEF Behind
  <2> QED BY <2>1, <2>2
<1>3. CASE s = "repair"
  <2>1. Units[s] = RepairUnits /\ Len(RepairUnits) = 2
    BY <1>3 DEF Units, RepairUnits
  <2>2. Behind(s, Written(RepairUnits[1]), RepairUnits[1].mark)
    <3>1. /\ Written(RepairUnits[1]) = {"all_attempts", "repair_fallbacks_done"}
          /\ RepairUnits[1].mark = {}
      BY DEF RepairUnits, Unit, Written
    <3> QED BY <1>3, <3>1, Indices, HomePlaces, StageNames DEF Behind
  <2>3. Behind(s, Written(RepairUnits[2]), RepairUnits[2].mark)
    <3>1. /\ Written(RepairUnits[2]) = {"all_attempts", "validated_attempts", "attempts_passed"}
          /\ RepairUnits[2].mark = {}
      BY DEF RepairUnits, Unit, Written
    <3> QED BY <1>3, <3>1, Indices, HomePlaces, StageNames DEF Behind
  <2> QED BY <2>1, <2>2, <2>3
<1>4. CASE s = "reviewing"
  <2>1. Units[s] = ReviewerUnits /\ Len(ReviewerUnits) = 2
    BY <1>4 DEF Units, ReviewerUnits
  <2>2. Behind(s, Written(ReviewerUnits[1]), ReviewerUnits[1].mark)
    <3>1. /\ Written(ReviewerUnits[1]) = {"builder_reviews"}
          /\ ReviewerUnits[1].mark = {}
      BY DEF ReviewerUnits, Unit, Written
    <3> QED BY <1>4, <3>1, Indices, HomePlaces, StageNames DEF Behind
  <2>3. Behind(s, Written(ReviewerUnits[2]), ReviewerUnits[2].mark)
    <3>1. /\ Written(ReviewerUnits[2]) = {"app_reviews"}
          /\ ReviewerUnits[2].mark = {"reviewing"}
      BY DEF ReviewerUnits, Unit, Written
    <3> QED BY <1>4, <3>1, Indices, HomePlaces, StageNames DEF Behind
  <2> QED BY <2>1, <2>2, <2>3
<1>5. CASE s = "ranking"
  <2>1. Units[s] = RankerUnits /\ Len(RankerUnits) = 1
    BY <1>5 DEF Units, RankerUnits
  <2>2. Behind(s, Written(RankerUnits[1]), RankerUnits[1].mark)
    <3>1. /\ Written(RankerUnits[1]) = {"ranked_builds"}
          /\ RankerUnits[1].mark = {"ranking"}
      BY DEF RankerUnits, Unit, Written
    <3> QED BY <1>5, <3>1, Indices, HomePlaces, StageNames DEF Behind
  <2> QED BY <2>1, <2>2
<1>6. CASE s = "novelty"
  <2>1. Units[s] = NoveltyUnits /\ Len(NoveltyUnits) = 2
    BY <1>6 DEF Units, NoveltyUnits
  <2>2. Behind(s, Written(NoveltyUnits[1]), NoveltyUnits[1].mark)
    <3>1. /\ Written(NoveltyUnits[1]) = {"novelty_attempts", "final_code"}
          /\ NoveltyUnits[1].mark = {"ranking"}
      BY DEF NoveltyUnits, Unit, Written
    <3> QED BY <1>6, <3>1, Indices, HomePlaces, StageNames DEF Behind
  <2>3. Behind(s, Written(NoveltyUnits[2]), NoveltyUnits[2].mark)
    <3>1. /\ Written(NoveltyUnits[2]) = {"final_code", "final_code_passed"}
          /\ NoveltyUnits[2].mark = {"ranking"}
      BY DEF NoveltyUnits, Unit, Written
    <3> QED BY <1>6, <3>1, Indices, HomePlaces, StageNames DEF Behind
  <2> QED BY <2>1, <2>2, <2>3
<1>7. CASE s = "packaging"
  <2>1. Units[s] = PackagingUnits /\ Len(PackagingUnits) = 1
    BY <1>7 DEF Units, PackagingUnits
  <2>2. Behind(s, Written(PackagingUnits[1]), PackagingUnits[1].mark)
    <3>1. /\ Written(PackagingUnits[1]) = {"zip_path"}
          /\ PackagingUnits[1].mark = {"packaging"}
      BY DEF PackagingUnits, Unit, Written
    <3> QED BY <1>7, <3>1, Indices, HomePlaces, StageNames DEF Behind
  <2> QED BY <2>1, <2>2
<1>8. CASE s = "leaderboard"
  <2>1. Units[s] = LeaderboardUnits /\ Len(LeaderboardUnits) = 2
    BY <1>8 DEF Units, LeaderboardUnits
  <2>2. Behind(s, Written(LeaderboardUnits[1]), LeaderboardUnits[1].mark)
    <3>1. /\ Written(LeaderboardUnits[1]) = {}
          /\ LeaderboardUnits[1].mark = {}
      BY DEF LeaderboardUnits, Unit, Written
    <3> QED BY <1>8, <3>1, Indices, HomePlaces, StageNames DEF Behind
  <2>3. Behind(s, Written(LeaderboardUnits[2]), LeaderboardUnits[2].mark)
    <3>1. /\ Written(LeaderboardUnits[2]) = {"leaderboard_recorded"}
          /\ LeaderboardUnits[2].mark = {"packaging"}
      BY DEF LeaderboardUnits, Unit, Written
    <3> QED BY <1>8, <3>1, Indices, HomePlaces, StageNames DEF Behind
  <2> QED BY <2>1, <2>2, <2>3
<1>9. CASE s = "finalize"
  <2>1. Units[s] = FinalizeUnits /\ Len(FinalizeUnits) = 2
    BY <1>9 DEF Units, FinalizeUnits
  <2>2. Behind(s, Written(FinalizeUnits[1]), FinalizeUnits[1].mark)
    <3>1. /\ Written(FinalizeUnits[1]) = {}
          /\ FinalizeUnits[1].mark = {}
      BY DEF FinalizeUnits, Unit, Written
    <3> QED BY <1>9, <3>1, Indices, HomePlaces, StageNames DEF Behind
  <2>3. Behind(s, Written(FinalizeUnits[2]), FinalizeUnits[2].mark)
    <3>1. /\ Written(FinalizeUnits[2]) = {"completed"}
          /\ FinalizeUnits[2].mark = {}
      BY DEF FinalizeUnits, Unit, Written
    <3> QED BY <1>9, <3>1, Indices, HomePlaces, StageNames DEF Behind
  <2> QED BY <2>1, <2>2, <2>3
<1> QED BY <1>1, <1>2, <1>3, <1>4, <1>5, <1>6, <1>7, <1>8, <1>9, StageNames

\* The state of only one stage is complete.
LEMMA OnlyFinalizeCompletes ==
    /\ \A s \in Stages : STAGE_TO_PIPELINE_STATE[s] = "complete" => s = "finalize"
    /\ \A f \in DOMAIN PHASE_TO_STATE : PHASE_TO_STATE[f] = "complete" => f = "complete"
<1>1. \A s \in Stages : STAGE_TO_PIPELINE_STATE[s] = "complete" => s = "finalize"
  BY StageNames DEF STAGE_TO_PIPELINE_STATE
<1>2. \A f \in DOMAIN PHASE_TO_STATE : PHASE_TO_STATE[f] = "complete" => f = "complete"
  BY DEF PHASE_TO_STATE
<1> QED BY <1>1, <1>2

\* A save of a unit of stage s makes no stage done but s and those before it: the
\* rest was done in the document c that was read.
LEMMA SaveFinishes ==
    ASSUME NEW s \in Stages, NEW i \in 1 .. Len(Units[s]), NEW c, NEW d,
           d \subseteq c \cup Written(Units[s][i]) \cup PlanKeys \cup Units[s][i].mark
    PROVE  DoneIn(d) \subseteq DoneIn(c) \cup Earlier(s) \cup {s}
<1> DEFINE u == Units[s][i]
<1>1. Behind(s, Written(u), u.mark)
  BY UnitsWriteBehind
<1> SUFFICES ASSUME NEW r \in DoneIn(d), r \notin Earlier(s), r # s
             PROVE  r \in DoneIn(c)
  OBVIOUS
<1>2. r \in Stages /\ r \in d /\ REQUIRED_KEYS[r] \subseteq d
  BY DEF DoneIn
<1>3. /\ StageIndex[s] < StageIndex[r] /\ StageIndex[r] \in Nat /\ StageIndex[s] \in Nat
      /\ StageIndex["planning"] <= StageIndex[s] /\ StageIndex["planning"] \in Nat
  <2>1. "planning" \in Stages
    BY StageNames
  <2>2. ~(StageIndex[r] < StageIndex[s])
    BY <1>2 DEF Earlier
  <2>3. /\ StageIndex[r] \in Nat /\ StageIndex[s] \in Nat /\ StageIndex["planning"] \in Nat
        /\ StageIndex["planning"] <= StageIndex[s]
    BY <1>2, <2>1, StageOrder
  <2>4. r = s \/ StageIndex[r] < StageIndex[s] \/ StageIndex[s] < StageIndex[r]
    BY <1>2, StageOrder
  <2> QED BY <2>2, <2>3, <2>4
<1>4. r # "planning" /\ r \notin u.mark /\ r \notin Written(u) /\ r \notin PlanKeys
  <2>1. r \notin PlanKeys
    BY <1>2, StageNames DEF PlanKeys
  <2> QED BY <1>1, <1>2, <1>3, <2>1 DEF Behind
<1>5. \A k \in REQUIRED_KEYS[r] : k \in DOMAIN Home /\ Home[k] = r
  BY <1>2, HomeKeys
<1>6. \A k \in REQUIRED_KEYS[r] : k \notin Written(u)
  BY <1>1, <1>3, <1>5 DEF Behind
<1>7. \A k \in REQUIRED_KEYS[r] : k \notin PlanKeys
  BY <1>4, <1>5, HomeKeys
\* A required key is no marker: markers are stages, and the home of none.
<1>8. \A k \in REQUIRED_KEYS[r] : k \notin u.mark
  <2>1. DOMAIN Home \cap Stages = {}
    BY HomePlaces, StageNames
  <2>2. u.mark \subseteq Stages
    BY UnitFacts DEF IsUnit
  <2> QED BY <1>5, <2>1, <2>2
<1> HIDE DEF u
<1>9. REQUIRED_KEYS[r] \subseteq c /\ r \in c
  BY <1>2, <1>4, <1>6, <1>7, <1>8 DEF u
<1> QED BY <1>2, <1>9 DEF DoneIn

-----------------------------------------------------------------------------
(* What a unit saves and clears, and the state it enters.                  *)

\* The keys that units are skipped by, and those that reviews rest on.
Tracked == {"tool_combinations", "factory_review", "all_attempts", "repair_fallbacks_done",
            "validated_attempts", "attempts_passed", "builder_reviews", "app_reviews",
            "ranked_builds", "novelty_attempts", "zip_path"}

\* The only keys that a save may clear.
Cleared == {"attempts_passed", "final_code_passed", "ranked_builds", "novelty_attempts",
            "final_code"}
Clears(u) == u.drops \cup u.may

\* A build in state q need not go back to be in state p.
Reaches(q, p) == q \in LinearStates /\ LinearIndex[q] <= LinearIndex[p]

\* A unit clears a key of a finished stage only when it is the one that is to
\* save it, and attempts_passed only while the attempts are still to be built
\* or validated.
Careful(s, i, u) ==
    /\ u.skip \subseteq Tracked /\ Clears(u) \subseteq Cleared
    /\ "ranked_builds" \in Clears(u) => "ranked_builds" \in u.skip
    /\ "final_code" \in Clears(u) => s = "novelty" /\ i = 1
    /\ "attempts_passed" \in Clears(u) =>
          "all_attempts" \in u.skip \/ "validated_attempts" \in u.skip
    /\ "validated_attempts" \in u.saves =>
          s = "repair" /\ "all_attempts" \in u.saves /\ "attempts_passed" \in u.must
    /\ (u.saves \cup u.may) \cap Stages = {} /\ u.mark \subseteq Stages \ {"repair"}
    /\ u.again # {} => s = "planning"

\* The state a unit enters is that of its stage, the first review's apart.
Placed(s, i, u) ==
    /\ u.first = "enter" =>
          \/ PHASE_TO_STATE[u.phase] = STAGE_TO_PIPELINE_STATE[s]
          \/ s = "reviewing" /\ i = 1 /\ PHASE_TO_STATE[u.phase] = "generating"
    /\ s = "reviewing" /\ i = 1 =>
          u.skip = {"builder_reviews"} /\ u.only = {} /\ "builder_reviews" \in u.saves
    /\ s = "repair" /\ i = 2 =>
          u.skip = {"validated_attempts"} /\ u.only = {} /\ "validated_attempts" \in u.saves
    /\ s = "finalize" =>
          /\ u.first = (IF i = 1 THEN "enter" ELSE "publish")
          /\ u.skip = {} /\ u.only = {} /\ u.must = {} /\ u.again = {}
          /\ i = 1 => u.saves \cup u.may = {}

\* Every unit is of that kind.
LEMMA UnitPlaces ==
    ASSUME NEW s \in Stages, NEW i \in 1 .. Len(Units[s])
    PROVE  Careful(s, i, Units[s][i]) /\ Placed(s, i, Units[s][i])
<1> USE StageNames
<1>1. CASE s = "planning"
  <2>1. Units[s] = PlannerUnits /\ Len(PlannerUnits) = 2
    BY <1>1 DEF Units, PlannerUnits
  <2>2. Careful(s, 1, PlannerUnits[1])
    BY <1>1 DEF PlannerUnits, Unit, Careful, Clears, Tracked, Cleared
  <2>3. Placed(s, 1, PlannerUnits[1])
    BY <1>1 DEF PlannerUnits, Unit, Placed, PHASE_TO_STATE, STAGE_TO_PIPELINE_STATE
  <2>4. Careful(s, 2, PlannerUnits[2])
    BY <1>1 DEF PlannerUnits, Unit, Careful, Clears, Tracked, Cleared
  <2>5. Placed(s, 2, PlannerUnits[2])
    BY <1>1 DEF PlannerUnits, Unit, Placed, PHASE_TO_STATE, STAGE_TO_PIPELINE_STATE
  <2>6. i = 1 \/ i = 2
    BY <2>1
  <2> QED BY <2>1, <2>2, <2>3, <2>4, <2>5, <2>6
<1>2. CASE s = "builder"
  <2>1. Units[s] = BuilderUnits /\ Len(BuilderUnits) = 1
    BY <1>2 DEF Units, BuilderUnits
  <2>2. Careful(s, 1, BuilderUnits[1])
    BY <1>2 DEF BuilderUnits, Unit, Careful, Clears, Tracked, Cleared
  <2>3. Placed(s, 1, BuilderUnits[1])
    BY <1>2 DEF BuilderUnits, Unit, Placed, PHASE_TO_STATE, STAGE_TO_PIPELINE_STATE
  <2>4. i = 1
    BY <2>1
  <2> QED BY <2>1, <2>2, <2>3, <2>4
<1>3. CASE s = "repair"
  <2>1. Units[s] = RepairUnits /\ Len(RepairUnits) = 2
    BY <1>3 DEF Units, RepairUnits
  <2>2. Careful(s, 1, RepairUnits[1])
    BY <1>3 DEF RepairUnits, Unit, Careful, Clears, Tracked, Cleared
  <2>3. Placed(s, 1, RepairUnits[1])
    <3>1. RepairUnits[1].first = "work"
      BY DEF RepairUnits, Unit
    <3> QED BY <1>3, <3>1 DEF Placed
  <2>4. Careful(s, 2, RepairUnits[2])
    BY <1>3 DEF RepairUnits, Unit, Careful, Clears, Tracked, Cleared
  <2>5. Placed(s, 2, RepairUnits[2])
    BY <1>3 DEF RepairUnits, Unit, Placed, PHASE_TO_STATE, STAGE_TO_PIPELINE_STATE
  <2>6. i = 1 \/ i = 2
    BY <2>1
  <2> QED BY <2>1, <2>2, <2>3, <2>4, <2>5, <2>6
<1>4. CASE s = "reviewing"
  <2>1. Units[s] = ReviewerUnits /\ Len(ReviewerUnits) = 2
    BY <1>4 DEF Units, ReviewerUnits
  <2>2. Careful(s, 1, ReviewerUnits[1])
    BY <1>4 DEF ReviewerUnits, Unit, Careful, Clears, Tracked, Cleared
  <2>3. Placed(s, 1, ReviewerUnits[1])
    BY <1>4 DEF ReviewerUnits, Unit, Placed, PHASE_TO_STATE, STAGE_TO_PIPELINE_STATE
  <2>4. Careful(s, 2, ReviewerUnits[2])
    BY <1>4 DEF ReviewerUnits, Unit, Careful, Clears, Tracked, Cleared
  <2>5. Placed(s, 2, ReviewerUnits[2])
    <3>1. ReviewerUnits[2].phase = "app_review"
      BY DEF ReviewerUnits, Unit
    <3>2. PHASE_TO_STATE["app_review"] = STAGE_TO_PIPELINE_STATE["reviewing"]
      BY DEF PHASE_TO_STATE, STAGE_TO_PIPELINE_STATE
    <3> QED BY <1>4, <3>1, <3>2 DEF Placed
  <2>6. i = 1 \/ i = 2
    BY <2>1
  <2> QED BY <2>1, <2>2, <2>3, <2>4, <2>5, <2>6
<1>5. CASE s = "ranking"
  <2>1. Units[s] = RankerUnits /\ Len(RankerUnits) = 1
    BY <1>5 DEF Units, RankerUnits
  <2>2. Careful(s, 1, RankerUnits[1])
    BY <1>5 DEF RankerUnits, Unit, Careful, Clears, Tracked, Cleared
  <2>3. Placed(s, 1, RankerUnits[1])
    BY <1>5 DEF RankerUnits, Unit, Placed, PHASE_TO_STATE, STAGE_TO_PIPELINE_STATE
  <2>4. i = 1
    BY <2>1
  <2> QED BY <2>1, <2>2, <2>3, <2>4
<1>6. CASE s = "novelty"
  <2>1. Units[s] = NoveltyUnits /\ Len(NoveltyUnits) = 2
    BY <1>6 DEF Units, NoveltyUnits
  <2>2. Careful(s, 1, NoveltyUnits[1])
    BY <1>6 DEF NoveltyUnits, Unit, Careful, Clears, Tracked, Cleared
  <2>3. Placed(s, 1, NoveltyUnits[1])
    BY <1>6 DEF NoveltyUnits, Unit, Placed, PHASE_TO_STATE, STAGE_TO_PIPELINE_STATE
  <2>4. Careful(s, 2, NoveltyUnits[2])
    BY <1>6 DEF NoveltyUnits, Unit, Careful, Clears, Tracked, Cleared
  <2>5. Placed(s, 2, NoveltyUnits[2])
    BY <1>6 DEF NoveltyUnits, Unit, Placed, PHASE_TO_STATE, STAGE_TO_PIPELINE_STATE
  <2>6. i = 1 \/ i = 2
    BY <2>1
  <2> QED BY <2>1, <2>2, <2>3, <2>4, <2>5, <2>6
<1>7. CASE s = "packaging"
  <2>1. Units[s] = PackagingUnits /\ Len(PackagingUnits) = 1
    BY <1>7 DEF Units, PackagingUnits
  <2>2. Careful(s, 1, PackagingUnits[1])
    BY <1>7 DEF PackagingUnits, Unit, Careful, Clears, Tracked, Cleared
  <2>3. Placed(s, 1, PackagingUnits[1])
    BY <1>7 DEF PackagingUnits, Unit, Placed, PHASE_TO_STATE, STAGE_TO_PIPELINE_STATE
  <2>4. i = 1
    BY <2>1
  <2> QED BY <2>1, <2>2, <2>3, <2>4
<1>8. CASE s = "leaderboard"
  <2>1. Units[s] = LeaderboardUnits /\ Len(LeaderboardUnits) = 2
    BY <1>8 DEF Units, LeaderboardUnits
  <2>2. Careful(s, 1, LeaderboardUnits[1])
    BY <1>8 DEF LeaderboardUnits, Unit, Careful, Clears, Tracked, Cleared
  <2>3. Placed(s, 1, LeaderboardUnits[1])
    BY <1>8 DEF LeaderboardUnits, Unit, Placed, PHASE_TO_STATE, STAGE_TO_PIPELINE_STATE
  <2>4. Careful(s, 2, LeaderboardUnits[2])
    BY <1>8 DEF LeaderboardUnits, Unit, Careful, Clears, Tracked, Cleared
  <2>5. Placed(s, 2, LeaderboardUnits[2])
    BY <1>8 DEF LeaderboardUnits, Unit, Placed, PHASE_TO_STATE, STAGE_TO_PIPELINE_STATE
  <2>6. i = 1 \/ i = 2
    BY <2>1
  <2> QED BY <2>1, <2>2, <2>3, <2>4, <2>5, <2>6
<1>9. CASE s = "finalize"
  <2>1. Units[s] = FinalizeUnits /\ Len(FinalizeUnits) = 2
    BY <1>9 DEF Units, FinalizeUnits
  <2>2. Careful(s, 1, FinalizeUnits[1])
    BY <1>9 DEF FinalizeUnits, Unit, Careful, Clears, Tracked, Cleared
  <2>3. Placed(s, 1, FinalizeUnits[1])
    BY <1>9 DEF FinalizeUnits, Unit, Placed, PHASE_TO_STATE, STAGE_TO_PIPELINE_STATE
  <2>4. Careful(s, 2, FinalizeUnits[2])
    BY <1>9 DEF FinalizeUnits, Unit, Careful, Clears, Tracked, Cleared
  <2>5. Placed(s, 2, FinalizeUnits[2])
    <3>1. /\ FinalizeUnits[2].first = "publish" /\ FinalizeUnits[2].skip = {}
          /\ FinalizeUnits[2].only = {} /\ FinalizeUnits[2].must = {}
          /\ FinalizeUnits[2].again = {}
      BY DEF FinalizeUnits, Unit
    <3> QED BY <1>9, <3>1 DEF Placed
  <2>6. i = 1 \/ i = 2
    BY <2>1
  <2> QED BY <2>1, <2>2, <2>3, <2>4, <2>5, <2>6
<1> QED BY <1>1, <1>2, <1>3, <1>4, <1>5, <1>6, <1>7, <1>8, <1>9

\* The stages that have two units and rest on it.
LEMMA UnitCounts ==
    \A s \in {"repair", "reviewing", "finalize"} : Len(Units[s]) = 2
<1>1. Len(RepairUnits) = 2 /\ Len(ReviewerUnits) = 2 /\ Len(FinalizeUnits) = 2
  BY DEF RepairUnits, ReviewerUnits, FinalizeUnits
<1> QED BY <1>1 DEF Units

\* The place of each state in the order.
LEMMA LinearIndices ==
    /\ LinearStates = {"queued", "planning", "generating", "reviewing", "ranking", "packaging",
                       "complete"}
    /\ LinearIndex["queued"] = 1
    /\ LinearIndex["planning"] = 2
    /\ LinearIndex["generating"] = 3
    /\ LinearIndex["reviewing"] = 4
    /\ LinearIndex["ranking"] = 5
    /\ LinearIndex["packaging"] = 6
    /\ LinearIndex["complete"] = 7
<1>1. Len(LINEAR_PIPELINE) = 7
  BY DEF LINEAR_PIPELINE
<1>2. 1 .. Len(LINEAR_PIPELINE) = {1, 2, 3, 4, 5, 6, 7}
  BY <1>1
<1>3. LinearStates = {"queued", "planning", "generating", "reviewing", "ranking", "packaging",
                      "complete"}
  BY <1>2 DEF LinearStates, LINEAR_PIPELINE
<1>4. LinearIndex["queued"] = 1
  BY <1>2, <1>3 DEF LinearIndex, LINEAR_PIPELINE
<1>5. LinearIndex["planning"] = 2
  BY <1>2, <1>3 DEF LinearIndex, LINEAR_PIPELINE
<1>6. LinearIndex["generating"] = 3
  BY <1>2, <1>3 DEF LinearIndex, LINEAR_PIPELINE
<1>7. LinearIndex["reviewing"] = 4
  BY <1>2, <1>3 DEF LinearIndex, LINEAR_PIPELINE
<1>8. LinearIndex["ranking"] = 5
  BY <1>2, <1>3 DEF LinearIndex, LINEAR_PIPELINE
<1>9. LinearIndex["packaging"] = 6
  BY <1>2, <1>3 DEF LinearIndex, LINEAR_PIPELINE
<1>10. LinearIndex["complete"] = 7
  BY <1>2, <1>3 DEF LinearIndex, LINEAR_PIPELINE
<1> QED BY <1>3, <1>4, <1>5, <1>6, <1>7, <1>8, <1>9, <1>10

\* The states of stages follow their order.
LEMMA StateOrder ==
    /\ \A r, s \in Stages : StageIndex[r] <= StageIndex[s] =>
          Reaches(STAGE_TO_PIPELINE_STATE[r], STAGE_TO_PIPELINE_STATE[s])
    /\ \A s \in Stages : /\ Reaches("queued", STAGE_TO_PIPELINE_STATE[s])
                         /\ Reaches("planning", STAGE_TO_PIPELINE_STATE[s])
                         /\ STAGE_TO_PIPELINE_STATE[s] \in LinearStates
                         /\ Reaches("complete", STAGE_TO_PIPELINE_STATE[s]) => s = "finalize"
                         /\ StageIndex[s] < StageIndex["reviewing"] =>
                               Reaches(STAGE_TO_PIPELINE_STATE[s], "generating")
    /\ Reaches("queued", "generating") /\ Reaches("planning", "generating")
    /\ Reaches("generating", "generating")
    /\ Reaches("generating", STAGE_TO_PIPELINE_STATE["reviewing"])
<1>1. \A s \in Stages : LinearIndex[STAGE_TO_PIPELINE_STATE[s]] =
         IF StageIndex[s] = 1 THEN 2 ELSE IF StageIndex[s] <= 3 THEN 3
         ELSE IF StageIndex[s] = 4 THEN 4 ELSE IF StageIndex[s] <= 6 THEN 5
         ELSE IF StageIndex[s] <= 8 THEN 6 ELSE 7
  BY StageNames, Indices, LinearIndices DEF STAGE_TO_PIPELINE_STATE
<1>2. \A s \in Stages : StageIndex[s] \in 1 .. 9 /\ (StageIndex[s] = 9 => s = "finalize")
  BY StageNames, Indices
<1>3. \A s \in Stages : STAGE_TO_PIPELINE_STATE[s] \in LinearStates
  BY StageNames, LinearIndices DEF STAGE_TO_PIPELINE_STATE
<1>4. \A r, s \in Stages : StageIndex[r] <= StageIndex[s] =>
         Reaches(STAGE_TO_PIPELINE_STATE[r], STAGE_TO_PIPELINE_STATE[s])
  BY <1>1, <1>2, <1>3 DEF Reaches
<1>5. \A s \in Stages : /\ Reaches("queued", STAGE_TO_PIPELINE_STATE[s])
                        /\ Reaches("planning", STAGE_TO_PIPELINE_STATE[s])
                        /\ Reaches("complete", STAGE_TO_PIPELINE_STATE[s]) => s = "finalize"
                        /\ StageIndex[s] < StageIndex["reviewing"] =>
                              Reaches(STAGE_TO_PIPELINE_STATE[s], "generating")
  BY <1>1, <1>2, <1>3, Indices, LinearIndices DEF Reaches
<1>6. /\ Reaches("queued", "generating") /\ Reaches("planning", "generating")
      /\ Reaches("generating", "generating")
      /\ Reaches("generating", STAGE_TO_PIPELINE_STATE["reviewing"])
  BY LinearIndices DEF Reaches, STAGE_TO_PIPELINE_STATE
<1> QED BY <1>3, <1>4, <1>5, <1>6

\* When all stages before r have been done and s has not, r comes no later than s.
LEMMA NotLater ==
    ASSUME NEW o, NEW r \in Stages, Earlier(r) \subseteq o, NEW s \in Stages \ o
    PROVE  StageIndex[r] <= StageIndex[s]
<1>1. s \notin Earlier(r)
  OBVIOUS
<1> QED BY <1>1, StageOrder DEF Earlier
=============================================================================
