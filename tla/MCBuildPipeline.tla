--------------------------- MODULE MCBuildPipeline ---------------------------
(* BuildPipeline for model checking, from its creation or from the moment  *)
(* stage From has been sent and nothing has failed so far.                 *)
EXTENDS BuildPipeline

CONSTANT From

LastPhase(s) == LET u == CHOOSE u \in UnitsOf(s) : u.phase # "" /\ u.phase # "factory_builder"
                                                   /\ u.phase # "builder_review"
                IN u.phase

SegmentInit ==
    LET before == Earlier(From)
        last == STAGE_ORDER[StageIndex[From] - 1]
    IN /\ row = [s \in Stages |-> IF s \in before
                                  THEN [status |-> "completed", token |-> 0, attempt |-> 1]
                                  ELSE L!NoRow]
       /\ ckpt = before \cup UNION {KeysOf(s) : s \in before}
       /\ once = before /\ sent = before \cup {From}
       /\ rphase = LastPhase(last) /\ pstatus = PHASE_TO_STATE[LastPhase(last)]
       /\ build = pstatus /\ results = "none"
       /\ issued = 0 /\ expired = 0 /\ preempted = {}
       /\ pc = [w \in Workers |-> "idle"]
       /\ task = [w \in Workers |-> L!NoStage] /\ held = [w \in Workers |-> 0]
       /\ spc = [x \in Sweepers |-> "idle"] /\ listed = [x \in Sweepers |-> {}]
       /\ victim = [x \in Sweepers |-> L!NoStage]
       /\ run = [w \in Workers |-> NoRun] /\ prep = [p \in Processes |-> NoPrep]
       /\ used = [k \in DOMAIN Bound |-> 0]

SegmentSpec == SegmentInit /\ [][Next]_vars
FairSegmentSpec == SegmentSpec /\ Fairness
=============================================================================
