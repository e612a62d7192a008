------------------------ MODULE BuildPipelineProofs ------------------------
(***************************************************************************)
(* A build, for any number of workers, sweeps and recovering processes:    *)
(* its steps are steps of the leases of StageLocks, no stage is executed   *)
(* before those ahead of it have been done, and it implements              *)
(* BuildProgress, although every process writes back a checkpoint it has   *)
(* read before: its stages are finished one at a time and in order.        *)
(*                                                                         *)
(* For one worker, and any number of sweeps and recovering processes: a    *)
(* build that was dispatched once enters its phases legally, is reviewed   *)
(* only with attempts that passed, and has its results when it is complete.*)
(***************************************************************************)
EXTENDS BuildPipeline, PipelineStagesProofs

\* The theorems of StageLocks, read of this module's state.
P == INSTANCE StageLocksProofs WITH
        Final <- "finalize", Active <- ActiveStates, done <- DoneIn(ckpt)

\* P and L are the same specification: StageLocksProofs extends StageLocks.
LEMMA SameAssumption == P!StageLocksAssumption
  BY BuildPipelineAssumption DEF P!NoStage, L!NoStage, ActiveStates

\* The initial states of L and P agree.
LEMMA SameInit == L!Init = P!Init
  BY DEF L!Init, P!Init, L!NoStage, P!NoStage, L!NoRow, P!NoRow

\* The steps of L and P agree.
LEMMA SameNext == L!Next = P!Next
  BY DEF L!Next, P!Next, L!WorkerStep, P!WorkerStep, L!SweepStep, P!SweepStep,
     L!Receive, P!Receive, L!CheckTerminal, P!CheckTerminal, L!ReadRow, P!ReadRow,
     L!Reset, P!Reset, L!Acquire, P!Acquire, L!Refuse, P!Refuse,
     L!Refused, P!Refused, L!Complete, P!Complete, L!StageFails, P!StageFails,
     L!Verify, P!Verify, L!Fail, P!Fail, L!FailStage, P!FailStage,
     L!FailWrite, P!FailWrite, L!FailBuild, P!FailBuild, L!Chain, P!Chain,
     L!Crash, P!Crash, L!ListExpired, P!ListExpired, L!SweepReset, P!SweepReset,
     L!SweepFail, P!SweepFail, L!SweepFailWrite, P!SweepFailWrite,
     L!SweepEnd, P!SweepEnd, L!Expire, P!Expire, L!Release, P!Release,
     L!Outside, P!Outside, L!Goto, P!Goto, L!Leave, P!Leave,
     L!Terminal, P!Terminal, L!Done, P!Done, L!Ended, P!Ended,
     L!BuildStates, P!BuildStates, L!CanAcquire, P!CanAcquire,
     L!IsExpiredLock, P!IsExpiredLock, L!Expired, P!Expired,
     L!AcquiredRow, P!AcquiredRow, L!CompletedRow, P!CompletedRow,
     L!FailedRow, P!FailedRow, L!ReopenedRow, P!ReopenedRow,
     L!ResetRow, P!ResetRow, L!ReleasedRow, P!ReleasedRow, L!Settled, P!Settled,
     L!ExpiredRows, P!ExpiredRows, L!First, P!First, L!Preempts, P!Preempts,
     L!NoStage, P!NoStage, L!tableVars, P!tableVars, L!buildVars, P!buildVars,
     L!workerVars, P!workerVars, L!sweepVars, P!sweepVars

\* The state formulae of L and P agree.
LEMMA SameState == /\ L!TypeOK <=> P!TypeOK
                   /\ L!LockInv <=> P!LockInv
                   /\ L!ExclusiveUnlessPreempted <=> P!ExclusiveUnlessPreempted
  BY DEF L!TypeOK, P!TypeOK, L!Row, P!Row, L!Statuses, P!Statuses,
     L!Settled, P!Settled, L!PCs, P!PCs, L!BuildStates, P!BuildStates,
     L!Ended, P!Ended, L!Listed, P!Listed, L!NoStage, P!NoStage,
     L!LockInv, P!LockInv,
     L!OneEffectiveHolder, P!OneEffectiveHolder,
     L!TokenOwnership, P!TokenOwnership, L!HolderKeepsRow, P!HolderKeepsRow,
     L!Holding, P!Holding, L!Working, P!Working, L!Live, P!Live,
     L!Expired, P!Expired,
     L!ExclusiveUnlessPreempted, P!ExclusiveUnlessPreempted

\* The types of L and P agree after a step as well.
LEMMA SameTypes == L!TypeOK' <=> P!TypeOK'
  BY SameState, PTL

-----------------------------------------------------------------------------
(* The inductive invariant.                                                *)

\* The steps at which an execution is in a unit of its stage.
UnitSteps == {"enter", "note", "noted", "work", "save", "again", "saveAgain",
              "publish", "publishResults"}

InUnit(s, r) ==
    r.step \in UnitSteps =>
        /\ r.unit \in 1 .. Len(Units[s])
        /\ r.step = "enter" => Units[s][r.unit].phase # ""
        /\ r.step \in {"publish", "publishResults"} => s = "finalize"

UnitInv == \A w \in Workers : InUnit(task[w], run[w])

\* A stage that may be sent: all before it have been done.  A phase that may be
\* stored: it does not make a recovery resume at a stage that may not be sent.
Ready(s) == s \in Stages /\ Earlier(s) \subseteq once
Hint(f) == f \in DOMAIN RESUME_PHASE_TO_STAGE => Ready(RESUME_PHASE_TO_STAGE[f])

\* Wherever a stage waits to be sent, received or executed, it is ready.
OrderInv ==
    /\ DoneIn(ckpt) \subseteq once
    /\ \A s \in sent : Ready(s)
    /\ Hint(rphase)
    /\ \A w \in Workers : pc[w] # "idle" => Ready(task[w])
    /\ \A p \in Processes :
          prep[p].step # "none" => Ready(prep[p].stage) /\ Hint(prep[p].phase)

\* The facts a build carries besides its leases have their types.
DataOK ==
    /\ ckpt \in Documents /\ pstatus \in PipelineStates /\ build \in PipelineStates
    /\ rphase \in Phases /\ results \in {"none", "success", "failed"}

IInv == TypeOK /\ UnitInv /\ OrderInv

-----------------------------------------------------------------------------
(* Tables.                                                                 *)

\* The statuses of a build are the states of the pipeline.
LEMMA AllStates ==
    /\ L!BuildStates = PipelineStates
    /\ {"complete", "failed", "interrupted", "queued"} \subseteq PipelineStates
<1>1. Len(LINEAR_PIPELINE) = 7
  BY DEF LINEAR_PIPELINE
<1>2. 1 .. Len(LINEAR_PIPELINE) = {1, 2, 3, 4, 5, 6, 7}
  BY <1>1
<1>3. {"complete", "failed", "interrupted", "queued"} \subseteq PipelineStates
  BY <1>2 DEF PipelineStates, LinearStates, LINEAR_PIPELINE, TERMINAL_STATES
<1> QED BY <1>3 DEF L!BuildStates, L!Ended, ActiveStates

\* The invariant gives the types of the facts a build carries.
LEMMA DataTypes == TypeOK => DataOK
  BY AllStates DEF TypeOK, DataOK, L!TypeOK

\* The steps of a unit are not those of a worker without an execution.
LEMMA StepNames ==
    /\ UnitSteps \subseteq Steps \ {"none", "failBuild"}
    /\ {"ok", "fail", "failed", "load", "none", "failBuild", "complete", "trace", "traced",
        "results", "applyFailed"} \subseteq Steps \ UnitSteps
    /\ DOMAIN ReadFor = {"note", "work", "again", "ok", "trace"}
  BY DEF UnitSteps, Steps, ReadFor

\* A unit found for an execution is one of its stage.
LEMMA AtType ==
    ASSUME NEW s \in Stages, NEW r \in Execution, NEW i \in {1, 2, 3}
    PROVE  /\ At(s, r, i) \in Execution
           /\ At(s, r, i).step \in {"ok", "fail", "enter", "work", "publish"}
           /\ InUnit(s, At(s, r, i))
<1> DEFINE Skipped(u) == u.skip \cap r.mem # {} \/ ~(u.only \subseteq r.mem)
           left == {j \in i .. Len(Units[s]) : ~Skipped(Units[s][j])}
           j == CHOOSE j \in left : \A k \in left : j <= k
<1>1. Len(Units[s]) \in {1, 2}
  BY UnitFacts
<1>2. left \subseteq 1 .. Len(Units[s]) /\ left \subseteq {1, 2}
  BY <1>1
<1>3. CASE left = {}
  <2>1. At(s, r, i) = [r EXCEPT !.unit = Len(Units[s]) + 1, !.step = "ok"]
    BY <1>3 DEF At
  <2>2. Len(Units[s]) + 1 \in Nat
    BY <1>1
  <2> QED BY <2>1, <2>2, StepNames DEF Execution, InUnit
<1>4. CASE left # {}
  <2>1. \E m \in left : \A k \in left : m <= k
    <3>1. CASE 1 \in left
      BY <3>1, <1>2
    <3>2. CASE 1 \notin left
      BY <3>2, <1>2, <1>4
    <3> QED BY <3>1, <3>2
  <2>2. j \in left
    BY <2>1
  <2> DEFINE u == Units[s][j]
             to == IF u.needs \subseteq r.mem THEN u.first ELSE "fail"
  <2>3. At(s, r, i) = [r EXCEPT !.unit = j, !.step = to]
    BY <1>4 DEF At
  <2>4. j \in 1 .. Len(Units[s]) /\ j \in Nat
    BY <1>2, <2>2
  <2>5. IsUnit(s, u)
    BY <2>4, UnitFacts
  <2>6. /\ to \in {"fail", "enter", "work", "publish"}
        /\ to = "enter" => u.phase # ""
        /\ to = "publish" => s = "finalize"
    BY <2>5 DEF IsUnit
  <2> HIDE DEF to, u, j, left
  <2>7. At(s, r, i) \in Execution /\ At(s, r, i).step = to /\ At(s, r, i).unit = j
    <3>1. to \in Steps
      BY <2>6, StepNames DEF UnitSteps
    <3> QED BY <2>3, <2>4, <3>1 DEF Execution
  <2> QED BY <2>4, <2>6, <2>7 DEF InUnit, u
<1> QED BY <1>3, <1>4

-----------------------------------------------------------------------------
(* The execution of a stage.                                               *)

\* A worker goes on in its execution: to a step of it, in its own stage.
Advances(w, r) ==
    /\ r \in Execution /\ r.step \notin {"none", "failBuild"}
    /\ InUnit(task[w], r)
    /\ run' = [run EXCEPT ![w] = r]

\* What an execution leaves alone.
Rest == UNCHANGED <<tableVars, workerVars, sent, prep, used>>

\* A worker in a unit has a task, and its unit is one of the task's.
LEMMA InItsUnit ==
    ASSUME TypeOK, UnitInv, NEW w \in Workers, run[w].step \notin {"none", "failBuild"}
    PROVE  /\ pc[w] = "run" /\ task[w] \in Stages /\ run[w] \in Execution
           /\ run[w].step \in UnitSteps =>
                 /\ run[w].unit \in {1, 2} /\ run[w].unit \in 1 .. Len(Units[task[w]])
                 /\ IsUnit(task[w], UnitOf(w))
                 /\ UnitOf(w).saves \cup UnitOf(w).may \cup UnitOf(w).again \subseteq Keys
                 /\ run[w].step = "enter" => UnitOf(w).phase \in DOMAIN PHASE_TO_STATE
<1>1. pc[w] = "run" /\ run[w] \in Execution
  BY DEF TypeOK
<1>2. task[w] \in Stages
  BY <1>1 DEF TypeOK, L!TypeOK
<1>3. ASSUME run[w].step \in UnitSteps
      PROVE  /\ run[w].unit \in {1, 2} /\ run[w].unit \in 1 .. Len(Units[task[w]])
             /\ run[w].step = "enter" => UnitOf(w).phase # ""
  <2>1. run[w].unit \in 1 .. Len(Units[task[w]])
    BY <1>3 DEF UnitInv, InUnit
  <2>2. Len(Units[task[w]]) \in {1, 2}
    BY <1>2, UnitFacts
  <2>3. run[w].unit \in {1, 2}
    <3>1. 1 .. 1 \subseteq {1, 2} /\ 1 .. 2 \subseteq {1, 2}
      OBVIOUS
    <3> QED BY <2>1, <2>2, <3>1
  <2>4. run[w].step = "enter" => Units[task[w]][run[w].unit].phase # ""
    BY <1>3 DEF UnitInv, InUnit
  <2> QED BY <2>1, <2>3, <2>4 DEF UnitOf
<1>4. ASSUME run[w].step \in UnitSteps
      PROVE  /\ IsUnit(task[w], UnitOf(w))
             /\ UnitOf(w).saves \cup UnitOf(w).may \cup UnitOf(w).again \subseteq Keys
  BY <1>2, <1>3, <1>4, UnitFacts, UnitKeys DEF UnitOf
<1> QED BY <1>1, <1>2, <1>3, <1>4 DEF IsUnit

\* The next unit of an execution is one of its stage.
LEMMA NextUnitStep ==
    ASSUME NEW w \in Workers, task[w] \in Stages, NEW r \in Execution,
           r.unit \in {1, 2}, NextUnit(w, r)
    PROVE  \E q : Advances(w, q)
<1> DEFINE q == At(task[w], r, r.unit + 1)
<1>1. r.unit + 1 \in {1, 2, 3}
  OBVIOUS
<1>2. q \in Execution /\ q.step \in {"ok", "fail", "enter", "work", "publish"} /\ InUnit(task[w], q)
  BY <1>1, AtType
<1> QED BY <1>2 DEF NextUnit, Moves, Advances

\* A step that ends in no unit, or stays in the same one, advances.
LEMMA StepAdvances ==
    ASSUME TypeOK, UnitInv, NEW w \in Workers, run[w].step \notin {"none", "failBuild"},
           NEW q \in Execution, q.unit = run[w].unit, q.step \notin {"none", "failBuild"},
           q.step \in UnitSteps => run[w].step \in UnitSteps /\ q.step \notin {"enter", "publish"},
           q.step = "publishResults" => run[w].step = "publish",
           Moves(w, q)
    PROVE  \E r : Advances(w, r)
<1>1. InUnit(task[w], run[w])
  BY DEF UnitInv
<1>2. InUnit(task[w], q)
  BY <1>1, InItsUnit DEF InUnit
<1> QED BY <1>2 DEF Advances, Moves

\* The phase an execution leaves behind is none of a stage other than its own.
PhaseLeft(w) ==
    \/ rphase' \in {rphase, "failed"}
    \/ /\ rphase' \in DOMAIN PHASE_TO_STATE
       /\ rphase' \in DOMAIN RESUME_PHASE_TO_STAGE => RESUME_PHASE_TO_STAGE[rphase'] = task[w]

\* Loading the context puts the execution at its first unit.
LEMMA LoadStep ==
    ASSUME TypeOK, NEW w \in Workers, Load(w)
    PROVE  \E q : Advances(w, q)
<1> DEFINE r == [run[w] EXCEPT !.cur = pstatus, !.mem = ckpt]
<1>1. run[w] \in Execution /\ pc[w] = "run" /\ task[w] \in Stages
  BY DEF TypeOK, Load, L!TypeOK
<1>2. pstatus \in PipelineStates /\ ckpt \in Documents
  BY DEF TypeOK
<1>3. r \in Execution
  BY <1>1, <1>2 DEF Execution
<1>4. At(task[w], r, 1) \in Execution
      /\ At(task[w], r, 1).step \in {"ok", "fail", "enter", "work", "publish"}
      /\ InUnit(task[w], At(task[w], r, 1))
  BY <1>1, <1>3, AtType
<1>5. [r EXCEPT !.step = "fail"] \in Execution /\ [r EXCEPT !.step = "fail"].step = "fail"
  BY <1>3, StepNames DEF Execution
<1> HIDE DEF r
<1>6. \/ run' = [run EXCEPT ![w] = At(task[w], r, 1)]
      \/ run' = [run EXCEPT ![w] = [r EXCEPT !.step = "fail"]]
  BY DEF Load, Moves, r
<1>7. CASE run' = [run EXCEPT ![w] = At(task[w], r, 1)]
  <2>1. At(task[w], r, 1).step \notin {"none", "failBuild"}
    BY <1>4
  <2> QED BY <1>4, <1>7, <2>1 DEF Advances
<1>8. CASE run' = [run EXCEPT ![w] = [r EXCEPT !.step = "fail"]]
  BY <1>5, <1>8, StepNames DEF Advances, InUnit
<1> QED BY <1>6, <1>7, <1>8

\* Every step of an execution keeps it in its stage.
LEMMA ExecuteAdvances ==
    ASSUME TypeOK, UnitInv, NEW w \in Workers, Execute(w)
    PROVE  run[w].step \notin {"none", "failBuild"} /\ \E q : Advances(w, q)
<1>1. run[w].step \notin {"none", "failBuild"}
  BY StepNames DEF Execute, Load, Enter, ReadCheckpoint, WriteNote, Save, SaveAgain, WorkFails,
     Publish, PublishResults, MarkFailed, ApplyFailed, SaveFailure, Step
<1>2. /\ pc[w] = "run" /\ task[w] \in Stages /\ run[w] \in Execution
      /\ run[w].step \in UnitSteps =>
            /\ run[w].unit \in {1, 2}
            /\ UnitOf(w).saves \cup UnitOf(w).may \cup UnitOf(w).again \subseteq Keys
            /\ run[w].step = "enter" => UnitOf(w).phase \in DOMAIN PHASE_TO_STATE
  BY <1>1, InItsUnit
<1>3. /\ ckpt \in Documents /\ run[w].mem \in Documents /\ {} \in Documents
      /\ run[w].snap \in Documents
  BY <1>2 DEF TypeOK, Execution, Documents
<1>4. ASSUME NEW to \in Steps \ {"none", "failBuild"}, NEW d \in Documents,
             to \in UnitSteps => run[w].step \in UnitSteps /\ to \notin {"enter", "publish"},
             to = "publishResults" => run[w].step = "publish",
             NEW q, q = [run[w] EXCEPT !.step = to, !.snap = d], Moves(w, q)
      PROVE  \E r : Advances(w, r)
  <2>1. q \in Execution /\ q.unit = run[w].unit /\ q.step = to
    BY <1>2, <1>4 DEF Execution
  <2> QED BY <1>1, <1>4, <2>1, StepAdvances
<1>5. ASSUME NEW to \in Steps \ {"none", "failBuild"},
             to \in UnitSteps => run[w].step \in UnitSteps /\ to \notin {"enter", "publish"},
             to = "publishResults" => run[w].step = "publish",
             Moves(w, [run[w] EXCEPT !.step = to])
      PROVE  \E r : Advances(w, r)
  <2> DEFINE q == [run[w] EXCEPT !.step = to]
  <2>1. q \in Execution /\ q.unit = run[w].unit /\ q.step = to
    BY <1>2 DEF Execution
  <2> HIDE DEF q
  <2>2. Moves(w, q)
    BY <1>5 DEF q
  <2> QED BY <1>1, <1>5, <2>1, <2>2, StepAdvances
<1>6. ASSUME NEW r, r \in Execution, r.unit = run[w].unit, run[w].step \in UnitSteps, NextUnit(w, r)
      PROVE  \E q : Advances(w, q)
  BY <1>2, <1>6, NextUnitStep
<1>7. CASE Load(w)
  BY <1>1, <1>7, LoadStep
<1>8. CASE Enter(w)
  <2> DEFINE to == PHASE_TO_STATE[UnitOf(w).phase]
  <2>1. run[w].step = "enter" /\ to \in PipelineStates
    BY <1>2, <1>8, StatePhases, StepNames DEF Enter, UnitSteps
  <2>2. CASE Moves(w, [run[w] EXCEPT !.step = "note", !.cur = to])
    <3> DEFINE q == [run[w] EXCEPT !.step = "note", !.cur = to]
    <3>1. q \in Execution /\ q.unit = run[w].unit /\ q.step = "note"
      BY <1>2, <2>1, StepNames DEF Execution, UnitSteps
    <3> QED BY <1>1, <2>1, <2>2, <3>1, StepAdvances DEF UnitSteps
  <2>3. CASE Moves(w, [run[w] EXCEPT !.step = "fail"])
    BY <1>5, <2>1, <2>3, StepNames DEF Step
  <2> QED BY <1>8, <2>2, <2>3 DEF Enter
<1>9. CASE ReadCheckpoint(w)
  <2> DEFINE to == ReadFor[run[w].step]
  <2>1. /\ to \in Steps \ {"none", "failBuild"}
        /\ to \in UnitSteps => run[w].step \in UnitSteps /\ to \notin {"enter", "publish"}
        /\ to # "publishResults"
    BY <1>9 DEF ReadCheckpoint, ReadFor, UnitSteps, Steps
  <2>2. Moves(w, [run[w] EXCEPT !.step = to, !.snap = ckpt])
    BY <1>9 DEF ReadCheckpoint
  <2> HIDE DEF to
  <2> QED BY <1>1, <1>3, <1>4, <2>1, <2>2
<1>10. CASE WriteNote(w)
  <2> DEFINE r == [run[w] EXCEPT !.snap = {}]
  <2>1. r \in Execution /\ r.unit = run[w].unit
    BY <1>2, <1>3 DEF Execution
  <2>2. CASE run[w].step = "noted" /\ Moves(w, [r EXCEPT !.step = "work"])
    <3>1. [r EXCEPT !.step = "work"] \in Execution /\ [r EXCEPT !.step = "work"].unit = run[w].unit
          /\ [r EXCEPT !.step = "work"].step = "work"
      BY <2>1, StepNames DEF Execution, UnitSteps
    <3> HIDE DEF r
    <3> QED BY <1>1, <2>2, <3>1, StepAdvances DEF UnitSteps
  <2>3. CASE run[w].step = "noted" /\ NextUnit(w, r)
    BY <1>6, <2>1, <2>3 DEF UnitSteps
  <2>4. CASE run[w].step = "traced" /\ Moves(w, [r EXCEPT !.step = "results"])
    <3>1. [r EXCEPT !.step = "results"] \in Execution
          /\ [r EXCEPT !.step = "results"].unit = run[w].unit
          /\ [r EXCEPT !.step = "results"].step = "results"
      BY <2>1, StepNames DEF Execution
    <3> HIDE DEF r
    <3> QED BY <1>1, <2>4, <3>1, StepAdvances, StepNames
  <2> QED BY <1>10, <2>2, <2>3, <2>4 DEF WriteNote
<1>11. CASE Save(w)
  <2>1. run[w].step = "save"
    BY <1>11 DEF Save
  <2>2. PICK yield \in SUBSET UnitOf(w).may :
          LET u == UnitOf(w)
              r == [run[w] EXCEPT !.mem = Saved(u, @, yield), !.snap = {}]
          IN IF ~(u.must \subseteq yield) THEN Moves(w, [r EXCEPT !.step = "results"])
             ELSE IF u.again # {} THEN Moves(w, [r EXCEPT !.step = "again"])
             ELSE NextUnit(w, r)
    BY <1>11 DEF Save
  <2> DEFINE r == [run[w] EXCEPT !.mem = Saved(UnitOf(w), run[w].mem, yield), !.snap = {}]
  <2>3. Saved(UnitOf(w), run[w].mem, yield) \in Documents
    <3>1. UnitOf(w).saves \subseteq Keys /\ yield \subseteq Keys
      BY <1>2, <2>1 DEF UnitSteps
    <3> QED BY <1>3, <3>1 DEF Saved, Documents
  <2>4. r \in Execution /\ r.unit = run[w].unit
    BY <1>2, <1>3, <2>3 DEF Execution
  <2>5. \/ Moves(w, [r EXCEPT !.step = "results"]) \/ Moves(w, [r EXCEPT !.step = "again"])
        \/ NextUnit(w, r)
    BY <2>2
  <2> HIDE DEF r
  <2>6. ASSUME NEW to \in {"results", "again"}, Moves(w, [r EXCEPT !.step = to])
        PROVE  \E q : Advances(w, q)
    <3>1. [r EXCEPT !.step = to] \in Execution /\ [r EXCEPT !.step = to].unit = run[w].unit
          /\ [r EXCEPT !.step = to].step = to
      BY <2>4, StepNames DEF Execution, UnitSteps
    <3> QED BY <1>1, <2>1, <2>6, <3>1, StepAdvances DEF UnitSteps
  <2> QED BY <1>6, <2>1, <2>4, <2>5, <2>6 DEF UnitSteps
<1>12. CASE SaveAgain(w)
  <2>1. [run[w] EXCEPT !.snap = {}] \in Execution
        /\ [run[w] EXCEPT !.snap = {}].unit = run[w].unit
    BY <1>2, <1>3 DEF Execution
  <2> QED BY <1>6, <1>12, <2>1 DEF SaveAgain, UnitSteps
<1>13. CASE WorkFails(w)
  BY <1>5, <1>13, StepNames DEF WorkFails, Step
<1>14. CASE MarkFailed(w) \/ ApplyFailed(w) \/ SaveFailure(w)
  BY <1>5, <1>14, StepNames DEF MarkFailed, ApplyFailed, SaveFailure, Step
<1>15. CASE Publish(w)
  <2>1. run[w].step \in UnitSteps /\ run[w].step = "publish"
    BY <1>15 DEF Publish, Step, UnitSteps
  <2>2. Moves(w, [run[w] EXCEPT !.step = "publishResults"])
        \/ Moves(w, [run[w] EXCEPT !.step = "fail"])
    BY <1>15 DEF Publish, Step
  <2>3. "publishResults" \in Steps
    BY DEF Steps
  <2> QED BY <1>5, <2>1, <2>2, <2>3, StepNames
<1>16. CASE PublishResults(w)
  <2>1. run[w].step \in UnitSteps /\ Moves(w, [run[w] EXCEPT !.step = "work"])
    BY <1>16 DEF PublishResults, Step, UnitSteps
  <2>2. "work" \in Steps
    BY DEF Steps, ReadFor
  <2> QED BY <1>5, <2>1, <2>2, StepNames
<1> QED
  BY <1>1, <1>7, <1>8, <1>9, <1>10, <1>11, <1>12, <1>13, <1>14, <1>15, <1>16 DEF Execute

\* An execution writes what has the right type, and leaves the rest alone.
LEMMA ExecuteWrites ==
    ASSUME TypeOK, UnitInv, NEW w \in Workers, Execute(w)
    PROVE  DataOK' /\ PhaseLeft(w) /\ Rest
<1> USE DEF stateVars, Rest
<1>1. /\ run[w].step \notin {"none", "failBuild"}
      /\ pc[w] = "run" /\ task[w] \in Stages /\ run[w] \in Execution
  BY ExecuteAdvances, InItsUnit
<1>2. run[w].step \in UnitSteps =>
         /\ IsUnit(task[w], UnitOf(w))
         /\ UnitOf(w).saves \cup UnitOf(w).may \cup UnitOf(w).again \subseteq Keys
         /\ run[w].step = "enter" => UnitOf(w).phase \in DOMAIN PHASE_TO_STATE
  BY <1>1, InItsUnit
<1>3. /\ run[w].mem \in Documents /\ run[w].snap \in Documents
      /\ {"complete", "failed"} \subseteq PipelineStates /\ "failed" \in Phases
  BY <1>1, AllStates DEF Execution, Phases
<1>4. DataOK
  BY DataTypes
<1>5. CASE Load(w) \/ ReadCheckpoint(w) \/ WorkFails(w)
  BY <1>4, <1>5 DEF Load, ReadCheckpoint, WorkFails, DataOK, PhaseLeft
<1>6. CASE WriteNote(w)
  BY <1>3, <1>4, <1>6 DEF WriteNote, DataOK, PhaseLeft
<1>7. CASE Enter(w)
  <2> DEFINE f == UnitOf(w).phase
  <2>1. /\ IsUnit(task[w], UnitOf(w)) /\ f \in DOMAIN PHASE_TO_STATE
        /\ PHASE_TO_STATE[f] \in PipelineStates
    BY <1>2, <1>7, StatePhases DEF Enter, UnitSteps
  <2>2. f \in Phases /\ (f \in DOMAIN RESUME_PHASE_TO_STAGE => RESUME_PHASE_TO_STAGE[f] = task[w])
    BY <2>1 DEF Phases, IsUnit
  <2>3. Apply(PHASE_TO_STATE[f], f) \/ UNCHANGED stateVars
    BY <1>7 DEF Enter
  <2>4. UNCHANGED <<tableVars, workerVars, ckpt, results, sent, prep, used>>
    BY <1>7 DEF Enter
  <2> HIDE DEF f
  <2> QED BY <1>4, <2>1, <2>2, <2>3, <2>4 DEF Apply, DataOK, PhaseLeft
<1>8. CASE Save(w)
  <2>1. /\ UnitOf(w).saves \subseteq Keys /\ UnitOf(w).may \subseteq Keys
        /\ UnitOf(w).mark \subseteq Stages
    BY <1>2, <1>8 DEF Save, UnitSteps, IsUnit
  <2>2. PICK yield \in SUBSET UnitOf(w).may : \E m :
          ckpt' = Saved(UnitOf(w), run[w].snap, yield)
                  \cup (Saved(UnitOf(w), run[w].mem, yield) \cap m) \cup UnitOf(w).mark
    <3>1. PICK yield \in SUBSET UnitOf(w).may :
            ckpt' = Saved(UnitOf(w), run[w].snap, yield)
                    \cup ([run[w] EXCEPT !.mem = Saved(UnitOf(w), @, yield), !.snap = {}].mem
                          \cap PlanKeys) \cup UnitOf(w).mark
      BY <1>8 DEF Save
    <3>2. [run[w] EXCEPT !.mem = Saved(UnitOf(w), @, yield), !.snap = {}].mem
          = Saved(UnitOf(w), run[w].mem, yield)
      BY <1>1 DEF Execution
    <3> QED BY <3>1, <3>2
  <2>3. \A c \in Documents : Saved(UnitOf(w), c, yield) \in Documents
    BY <2>1 DEF Saved, Documents
  <2>4. ckpt' \in Documents
    BY <1>3, <2>1, <2>2, <2>3 DEF Documents
  <2> QED BY <1>4, <1>8, <2>4 DEF Save, DataOK, PhaseLeft
<1>9. CASE SaveAgain(w)
  <2>1. ckpt' \in Documents
    BY <1>2, <1>3, <1>9 DEF SaveAgain, UnitSteps, Documents
  <2> QED BY <1>4, <1>9, <2>1 DEF SaveAgain, DataOK, PhaseLeft
<1>10. CASE Publish(w) \/ PublishResults(w)
  BY <1>3, <1>4, <1>10 DEF Publish, PublishResults, DataOK, PhaseLeft
<1>11. CASE MarkFailed(w) \/ SaveFailure(w)
  BY <1>3, <1>4, <1>11 DEF MarkFailed, SaveFailure, DataOK, PhaseLeft
<1>12. CASE ApplyFailed(w)
  BY <1>3, <1>4, <1>12 DEF ApplyFailed, Apply, DataOK, PhaseLeft
<1> QED BY <1>5, <1>6, <1>7, <1>8, <1>9, <1>10, <1>11, <1>12 DEF Execute

-----------------------------------------------------------------------------
(* Recovery transitions.                                                   *)

UsedOK == used \in [DOMAIN Bound -> Nat] /\ \A k \in DOMAIN Bound : used[k] <= Bound[k]

\* A bound that is used is not exceeded.
LEMMA UseStep ==
    ASSUME UsedOK, NEW k \in DOMAIN Bound, Use(k)
    PROVE  UsedOK'
<1>1. Bound[k] \in Nat
  BY BuildPipelineAssumption DEF Bound
<1> QED BY <1>1 DEF UsedOK, Use

\* The phases a ready stage may leave behind, and a recovery of it, are in order.
LEMMA OwnHints ==
    ASSUME NEW s, Ready(s)
    PROVE  /\ Hint(s) /\ Hint(STAGE_DEFAULT_PHASE[s])
           /\ s \in Phases /\ STAGE_DEFAULT_PHASE[s] \in Phases
  BY OwnPhases DEF Ready, Hint, Phases

\* A recovery is made for a stage, with a phase that is its own or was stored.
LEMMA PrepForStep ==
    ASSUME IInv, NEW s, Ready(s), NEW step \in PrepSteps
    PROVE  PrepFor(step, s) \in Recovery /\ Ready(PrepFor(step, s).stage)
           /\ Hint(PrepFor(step, s).phase)
<1>1. {} \in Documents /\ s \in Stages
  BY DEF Documents, Ready
<1>2. rphase \in Phases /\ Hint(rphase)
  BY DEF IInv, TypeOK, OrderInv
<1> QED BY <1>1, <1>2, OwnHints DEF PrepFor, Recovery

\* The stage a recovery resumes at is ready: the first incomplete one, or that of
\* a phase that was stored.
LEMMA ResumeIsReady ==
    ASSUME IInv, ResumeStage(DoneIn(ckpt), pstatus, rphase) # NoneLeft
    PROVE  Ready(ResumeStage(DoneIn(ckpt), pstatus, rphase))
<1> DEFINE first == FirstIncomplete(DoneIn(ckpt))
<1>1. first # NoneLeft
  BY DEF ResumeStage
<1>2. Ready(first)
  BY <1>1, FirstIncompleteIsReady DEF IInv, OrderInv, Ready
<1>3. rphase \in DOMAIN RESUME_PHASE_TO_STAGE => Ready(RESUME_PHASE_TO_STAGE[rphase])
  BY DEF IInv, OrderInv, Hint
<1> HIDE DEF first
<1>4. \/ ResumeStage(DoneIn(ckpt), pstatus, rphase) = first
      \/ /\ rphase \in DOMAIN RESUME_PHASE_TO_STAGE
         /\ ResumeStage(DoneIn(ckpt), pstatus, rphase) = RESUME_PHASE_TO_STAGE[rphase]
  BY DEF ResumeStage, LaterStage, first
<1> QED BY <1>2, <1>3, <1>4

\* A recovery goes on as r, for a stage that is ready.
Recovers(p, r) ==
    /\ r \in Recovery /\ prep' = [prep EXCEPT ![p] = r]
    /\ r.step # "none" => Ready(r.stage) /\ Hint(r.phase)

\* No recovery at all is one as well.
LEMMA NoRecovery ==
    ASSUME NEW p, Prepares(p, NoPrep)
    PROVE  \E r : Recovers(p, r)
<1>1. NoPrep \in Recovery /\ NoPrep.step = "none"
  BY DEF NoPrep, Recovery, Phases, Documents, PrepSteps
<1> QED BY <1>1 DEF Recovers, Prepares

\* A recovery under way takes another step, with the same stage and phase.
LEMMA PrepStepRecovers ==
    ASSUME IInv, NEW p \in Processes, prep[p].step # "none",
           NEW to \in PrepSteps, NEW d \in Documents,
           NEW r, r = [prep[p] EXCEPT !.step = to, !.snap = d] \/ r = [prep[p] EXCEPT !.step = to],
           Prepares(p, r)
    PROVE  \E q : Recovers(p, q)
<1>1. prep[p] \in Recovery /\ Ready(prep[p].stage) /\ Hint(prep[p].phase)
  BY DEF IInv, TypeOK, OrderInv
<1>2. r \in Recovery /\ r.stage = prep[p].stage /\ r.phase = prep[p].phase
  BY <1>1 DEF Recovery
<1> QED BY <1>1, <1>2 DEF Recovers, Prepares

\* What a recovery stores and sends is in order, and it leaves the leases, the
\* workers and the results alone.
LEMMA RecoveryStep ==
    ASSUME IInv, NEW p \in Processes, Resolve(p) \/ Abandon(p) \/ Prepare(p)
    PROVE  /\ \E r : Recovers(p, r)
           /\ DataOK' /\ Hint(rphase') /\ \A s \in sent' : Ready(s)
           /\ UsedOK'
           /\ UNCHANGED <<tableVars, workerVars, run>>
<1> USE DEF stateVars
<1>1. /\ DataOK /\ UsedOK /\ Hint(rphase) /\ \A s \in sent : Ready(s)
      /\ prep[p] \in Recovery
      /\ prep[p].step # "none" => Ready(prep[p].stage) /\ Hint(prep[p].phase)
      /\ {} \in Documents /\ ckpt \in Documents /\ prep[p].snap \in Documents
  BY DataTypes DEF IInv, OrderInv, TypeOK, UsedOK, Recovery, Documents
<1>2. CASE Resolve(p)
  <2> DEFINE s == ResumeStage(DoneIn(ckpt), pstatus, rphase)
  <2>1. Ready(s)
    BY <1>2, ResumeIsReady DEF Resolve
  <2>2. \E step \in {"send", "enter", "interrupt"} : Prepares(p, PrepFor(step, s))
    BY <1>2 DEF Resolve
  <2>3. \E r : Recovers(p, r)
    BY <2>1, <2>2, PrepForStep DEF Recovers, Prepares, PrepSteps
  <2>4. UsedOK'
    BY <1>1, <1>2, UseStep DEF Resolve, Bound
  <2> QED BY <1>1, <1>2, <2>3, <2>4 DEF Resolve, DataOK
<1>3. CASE Abandon(p)
  <2>1. UsedOK'
    BY <1>1, <1>3, UseStep DEF Abandon, Bound
  <2> QED BY <1>1, <1>3, <2>1, NoRecovery DEF Abandon, DataOK
<1>4. ASSUME UNCHANGED used PROVE UsedOK'
  BY <1>1, <1>4 DEF UsedOK
<1>5. CASE PrepInterrupt(p)
  <2>1. \E r : Recovers(p, r)
    BY <1>1, <1>5, PrepStepRecovers DEF PrepInterrupt, PrepStep, PrepSteps
  <2>2. prep[p].phase \in Phases /\ Hint(prep[p].phase)
    BY <1>1, <1>5 DEF PrepInterrupt, PrepStep, Recovery
  <2> QED BY <1>1, <1>4, <1>5, <2>1, <2>2, AllStates DEF PrepInterrupt, Apply, DataOK
<1>6. CASE PrepEnter(p)
  <2>1. \E r : Recovers(p, r)
    BY <1>1, <1>6, PrepStepRecovers DEF PrepEnter, PrepStep, PrepSteps
  <2>2. /\ prep[p].phase \in Phases /\ Hint(prep[p].phase)
        /\ STAGE_TO_PIPELINE_STATE[prep[p].stage] \in PipelineStates
    BY <1>1, <1>6, OwnPhases DEF PrepEnter, PrepStep, Recovery, Ready
  <2> QED BY <1>1, <1>4, <1>6, <2>1, <2>2 DEF PrepEnter, Apply, DataOK
<1>7. CASE PrepRead(p)
  <2>1. PICK n \in {<<"interruptNote", "interruptNoted">>, <<"enterNote", "enterNoted">>} :
          prep[p].step = n[1] /\ Prepares(p, [prep[p] EXCEPT !.step = n[2], !.snap = ckpt])
    BY <1>7 DEF PrepRead
  <2>2. prep[p].step # "none" /\ n[2] \in PrepSteps
    BY <2>1 DEF PrepSteps
  <2>3. \E r : Recovers(p, r)
    BY <1>1, <2>1, <2>2, PrepStepRecovers
  <2> QED BY <1>1, <1>4, <1>7, <2>3 DEF PrepRead, DataOK
<1>8. CASE PrepWrite(p)
  <2>1. /\ prep[p].step # "none"
        /\ \/ Prepares(p, NoPrep)
           \/ \E to \in {"enter", "send"} :
                 Prepares(p, [prep[p] EXCEPT !.step = to, !.snap = {}])
    BY <1>8 DEF PrepWrite
  <2>2. \E r : Recovers(p, r)
    BY <1>1, <2>1, PrepStepRecovers, NoRecovery DEF PrepSteps
  <2> QED BY <1>1, <1>4, <1>8, <2>2 DEF PrepWrite, DataOK
<1>9. CASE Dispatch(p)
  <2>1. \A s \in sent' : s \in sent \/ s = prep[p].stage
    BY <1>9 DEF Dispatch
  <2> QED BY <1>1, <1>4, <1>9, <2>1, NoRecovery DEF Dispatch, DataOK
<1> QED BY <1>2, <1>3, <1>5, <1>6, <1>7, <1>8, <1>9 DEF Prepare

-----------------------------------------------------------------------------
(* The steps of the leases.                                                *)

\* What a step stores and sends is in order.
Stored == DataOK' /\ Hint(rphase') /\ (\A s \in sent' : Ready(s)) /\ UsedOK'

\* What a step does to worker w, and to no other.
Effect(w) ==
    /\ \A v \in Workers \ {w} : pc'[v] = pc[v] /\ task'[v] = task[v]
    /\ pc'[w] # "idle" => Ready(task'[w])
    /\ \E r \in Execution :
          /\ run' = [run EXCEPT ![w] = r]
          /\ InUnit(task'[w], r)
          /\ pc'[w] = "run" <=> r.step \notin {"none", "failBuild"}
    /\ prep' = prep \/ \E r : Recovers(w, r)

\* The steps of a lease other than those that begin and end an execution.
Between(w) ==
    \/ L!CheckTerminal(w) \/ L!ReadRow(w) \/ L!Reset(w) \/ L!Refuse(w) \/ L!Refused(w)
    \/ L!Verify(w) \/ L!Fail(w) \/ L!FailStage(w) \/ L!FailWrite(w) \/ L!Chain(w)

\* A lease step moves one worker, which keeps its task until it is idle.
LEMMA LeaseMoves ==
    ASSUME TypeOK, NEW w \in Workers,
           Between(w) \/ L!Acquire(w) \/ L!Complete(w) \/ L!StageFails(w)
           \/ L!FailBuild(w) \/ L!Crash(w)
    PROVE  /\ \A v \in Workers \ {w} : pc'[v] = pc[v] /\ task'[v] = task[v]
           /\ pc'[w] # "idle" => pc[w] # "idle" /\ task'[w] = task[w]
           /\ Between(w) => pc[w] # "run" /\ pc'[w] # "run"
           /\ L!Acquire(w) => pc'[w] = "run"
           /\ L!Complete(w) \/ L!StageFails(w) \/ L!FailBuild(w) \/ L!Crash(w) => pc'[w] # "run"
<1>1. pc \in [Workers -> L!PCs] /\ task \in [Workers -> Stages \cup {L!NoStage}]
  BY DEF TypeOK, L!TypeOK
<1>2. ASSUME L!Leave(w)
      PROVE  /\ \A v \in Workers \ {w} : pc'[v] = pc[v] /\ task'[v] = task[v]
             /\ pc'[w] = "idle"
  BY <1>1, <1>2 DEF L!Leave
<1>3. ASSUME NEW c, pc[w] # "idle", pc' = [pc EXCEPT ![w] = c], UNCHANGED task
      PROVE  /\ \A v \in Workers \ {w} : pc'[v] = pc[v] /\ task'[v] = task[v]
             /\ pc[w] # "idle" /\ task'[w] = task[w] /\ pc'[w] = c
  BY <1>1, <1>3
<1>4. CASE Between(w)
  <2>1. pc[w] \notin {"idle", "run"}
    BY <1>4 DEF Between, L!CheckTerminal, L!ReadRow, L!Reset, L!Refuse, L!Refused, L!Verify,
       L!Fail, L!FailStage, L!FailWrite, L!Chain, L!Goto
  <2>2. \/ L!Leave(w)
        \/ \E c \in L!PCs \ {"run"} : pc' = [pc EXCEPT ![w] = c] /\ UNCHANGED task
    BY <1>4 DEF Between, L!CheckTerminal, L!ReadRow, L!Reset, L!Refuse, L!Refused, L!Verify,
       L!Fail, L!FailStage, L!FailWrite, L!Chain, L!Goto, L!PCs
  <2>3. ~L!Acquire(w) /\ ~L!Complete(w) /\ ~L!StageFails(w)
    <3>1. pc'[w] # "run" /\ pc[w] # "run"
      BY <2>1, <2>2, <1>2, <1>3
    <3> QED BY <3>1, <1>1 DEF L!Acquire, L!Complete, L!StageFails, L!Goto
  <2> QED BY <1>2, <1>3, <2>1, <2>2, <2>3
<1>5. CASE L!Acquire(w)
  <2>1. pc[w] = "acquire" /\ pc' = [pc EXCEPT ![w] = "run"] /\ UNCHANGED task
    BY <1>5 DEF L!Acquire, L!Goto
  <2>2. pc'[w] = "run" /\ pc[w] # "run"
    BY <1>1, <2>1
  <2>3. ~Between(w) /\ ~L!FailBuild(w) /\ ~L!Crash(w) /\ ~L!Complete(w) /\ ~L!StageFails(w)
    <3>1. ~Between(w)
      BY <1>3, <1>4, <2>1, <2>2
    <3> QED BY <1>1, <2>1, <3>1 DEF L!FailBuild, L!Crash, L!Leave, L!Complete, L!StageFails, L!Goto
  <2> QED BY <1>3, <2>1, <2>2, <2>3
<1>6. CASE L!Complete(w) \/ L!StageFails(w)
  <2>1. /\ pc[w] = "run" /\ UNCHANGED task
        /\ \E c \in {"verify", "fail"} : pc' = [pc EXCEPT ![w] = c]
    BY <1>6 DEF L!Complete, L!StageFails, L!Goto
  <2>2. pc[w] = "run" /\ pc'[w] # "run"
    BY <1>1, <2>1
  <2>3. ~Between(w) /\ ~L!Acquire(w)
    BY <2>2, <1>4, <1>5
  <2> QED BY <1>3, <2>1, <2>2, <2>3
<1>7. CASE L!FailBuild(w) \/ L!Crash(w)
  <2>1. L!Leave(w)
    BY <1>7 DEF L!FailBuild, L!Crash
  <2> QED BY <1>2, <2>1, <1>4, <1>5
<1> QED BY <1>4, <1>5, <1>6, <1>7

\* A worker that does not execute is in no unit.
LEMMA NotExecuting ==
    ASSUME TypeOK, NEW w \in Workers, pc[w] # "run", pc'[w] # "run", UNCHANGED run
    PROVE  \E r \in Execution : /\ run' = [run EXCEPT ![w] = r]
                                /\ InUnit(task'[w], r)
                                /\ pc'[w] = "run" <=> r.step \notin {"none", "failBuild"}
<1>1. run[w] \in Execution /\ run' = [run EXCEPT ![w] = run[w]]
  BY DEF TypeOK
<1>2. run[w].step \in {"none", "failBuild"}
  BY DEF TypeOK
<1> QED BY <1>1, <1>2, StepNames DEF InUnit

\* An execution that begins or ends is in no unit.
LEMMA NoUnitYet ==
    ASSUME NEW w \in Workers, NEW step \in {"none", "load"},
           Moves(w, [NoRun EXCEPT !.step = step]), pc'[w] = "run" <=> step = "load"
    PROVE  \E r \in Execution : /\ run' = [run EXCEPT ![w] = r]
                                /\ InUnit(task'[w], r)
                                /\ pc'[w] = "run" <=> r.step \notin {"none", "failBuild"}
<1> DEFINE r == [NoRun EXCEPT !.step = step]
<1>1. r \in Execution /\ r.step = step
  BY StepNames DEF NoRun, Execution, Documents
<1>2. run' = [run EXCEPT ![w] = r]
  BY DEF Moves
<1> HIDE DEF r
<1> QED BY <1>1, <1>2, StepNames DEF InUnit

\* NoRun is the record NoUnitYet speaks of.
LEMMA NoRunStep == NoRun = [NoRun EXCEPT !.step = "none"]
  BY DEF NoRun

\* What the invariant says of the state a step starts from.
LEMMA StoredBefore ==
    ASSUME IInv
    PROVE  /\ TypeOK /\ DataOK /\ UsedOK /\ Hint(rphase) /\ \A s \in sent : Ready(s)
           /\ \A w \in Workers : pc[w] # "idle" => Ready(task[w])
  BY DataTypes DEF IInv, OrderInv, TypeOK, UsedOK

\* A step that stores nothing but a build status leaves everything in order.
LEMMA StoredKept ==
    ASSUME IInv, UNCHANGED <<pstatus, rphase, results, ckpt, sent, used>>,
           build' \in PipelineStates
    PROVE  Stored
  BY StoredBefore DEF Stored, DataOK, UsedOK

\* The steps of a worker between receiving a stage and sending the next.
LEMMA WorkerEffect ==
    ASSUME IInv, NEW w \in Workers, WorkerStep(w) \/ Crash(w), ~Execute(w)
    PROVE  Effect(w) /\ Stored
<1> USE DEF inputVars, stateVars
<1>1. /\ TypeOK /\ build \in PipelineStates
      /\ {"complete", "failed"} \subseteq PipelineStates /\ "failed" \in Phases
      /\ pc[w] # "idle" => Ready(task[w])
  BY StoredBefore, AllStates DEF DataOK, Phases
<1>2. ASSUME Between(w), UNCHANGED run, prep' = prep \/ \E r : Recovers(w, r)
      PROVE  Effect(w)
  <2>1. /\ \A v \in Workers \ {w} : pc'[v] = pc[v] /\ task'[v] = task[v]
        /\ pc'[w] # "idle" => Ready(task'[w])
        /\ pc[w] # "run" /\ pc'[w] # "run"
    BY <1>1, <1>2, LeaseMoves
  <2> QED BY <1>1, <1>2, <2>1, NotExecuting DEF Effect
<1>3. ASSUME L!Acquire(w), Moves(w, [NoRun EXCEPT !.step = "load"]), UNCHANGED prep
      PROVE  Effect(w)
  <2>1. /\ \A v \in Workers \ {w} : pc'[v] = pc[v] /\ task'[v] = task[v]
        /\ pc'[w] # "idle" => Ready(task'[w])
        /\ pc'[w] = "run"
    BY <1>1, <1>3, LeaseMoves
  <2> QED BY <1>1, <1>3, <2>1, NoUnitYet DEF Effect
<1>4. ASSUME L!Complete(w) \/ L!StageFails(w) \/ L!FailBuild(w) \/ L!Crash(w), Moves(w, NoRun),
             prep' = prep \/ \E r : Recovers(w, r)
      PROVE  Effect(w)
  <2>1. /\ \A v \in Workers \ {w} : pc'[v] = pc[v] /\ task'[v] = task[v]
        /\ pc'[w] # "idle" => Ready(task'[w])
        /\ pc'[w] # "run"
    BY <1>1, <1>4, LeaseMoves
  <2> QED BY <1>1, <1>4, <2>1, NoRunStep, NoUnitYet DEF Effect
<1>5. CASE CheckTerminal(w)
  <2>1. Between(w) /\ UNCHANGED <<inputVars, sent, run>> /\ UNCHANGED build /\ pc[w] = "check"
    BY <1>5 DEF CheckTerminal, Between, L!CheckTerminal, L!buildVars, L!Goto
  <2>2. prep' = prep \/ \E r : Recovers(w, r)
    <3>1. CASE UNCHANGED prep
      BY <3>1
    <3>2. CASE Prepares(w, PrepFor("enter", task[w]))
      BY <1>1, <2>1, <3>2, PrepForStep DEF Recovers, Prepares, PrepSteps
    <3> QED BY <1>5, <3>1, <3>2 DEF CheckTerminal
  <2> QED BY <1>1, <1>2, <2>1, <2>2, StoredKept
<1>6. CASE BeginStage(w) \/ EndStage(w)
  <2>1. Between(w) /\ UNCHANGED <<inputVars, sent, run, prep>> /\ UNCHANGED build
    BY <1>6 DEF BeginStage, EndStage, Between, L!ReadRow, L!Reset, L!Refuse, L!Refused,
       L!Verify, L!Fail, L!FailStage, L!FailWrite, L!buildVars
  <2> QED BY <1>1, <1>2, <2>1, StoredKept
<1>7. CASE Chain(w)
  <2>1. Between(w) /\ UNCHANGED <<inputVars, run, prep>> /\ UNCHANGED build
    BY <1>7 DEF Chain, Between, L!Chain, L!buildVars
  <2> DEFINE next == FirstIncomplete(DoneIn(ckpt))
  <2>2. next # NoneLeft => Ready(next)
    BY FirstIncompleteIsReady DEF IInv, OrderInv, Ready
  <2>3. sent' = sent \/ (next # NoneLeft /\ sent' = sent \cup {next})
    BY <1>7 DEF Chain
  <2> HIDE DEF next
  <2>4. \A s \in sent' : Ready(s)
    BY <2>2, <2>3, StoredBefore
  <2> QED BY <1>1, <1>2, <2>1, <2>4, StoredBefore DEF Stored, DataOK, UsedOK
<1>8. CASE Acquire(w)
  <2>1. UNCHANGED build
    BY <1>8 DEF Acquire, L!Acquire, L!buildVars
  <2> QED BY <1>1, <1>3, <1>8, <2>1, StoredKept DEF Acquire
<1>9. CASE Complete(w)
  <2>1. UNCHANGED build
    BY <1>9 DEF Complete, L!Complete
  <2>2. ckpt' \in Documents
    <3>1. run[w] \in Execution /\ task[w] \in Stages
      BY <1>1, <1>9 DEF Complete, L!Complete, L!Goto, TypeOK, Ready
    <3> QED BY <1>9, <3>1 DEF Complete, Execution, Documents
  <2> QED BY <1>1, <1>4, <1>9, <2>1, <2>2, StoredBefore DEF Complete, Stored, DataOK, UsedOK
<1>10. CASE StageFails(w)
  <2>1. UNCHANGED build
    BY <1>10 DEF StageFails, L!StageFails, L!buildVars
  <2> QED BY <1>1, <1>4, <1>10, <2>1, StoredKept DEF StageFails
<1>11. CASE FailBuildStatus(w)
  <2> DEFINE r == [run[w] EXCEPT !.step = "failBuild"]
  <2>1. /\ pc[w] = "failBuild" /\ UNCHANGED <<pc, task>> /\ run' = [run EXCEPT ![w] = r]
    BY <1>11 DEF FailBuildStatus, Step, Moves, workerVars
  <2>2. r \in Execution /\ r.step = "failBuild"
    BY <1>1, StepNames DEF TypeOK, Execution
  <2> HIDE DEF r
  <2>3. InUnit(task'[w], r)
    BY <2>2, StepNames DEF InUnit
  <2>4. Effect(w)
    BY <1>1, <1>11, <2>1, <2>2, <2>3 DEF Effect, FailBuildStatus
  <2> QED BY <1>1, <1>11, <2>4, StoredKept DEF FailBuildStatus
<1>12. CASE FailBuild(w)
  <2>1. pc[w] = "failBuild" /\ build' = "failed"
    BY <1>12 DEF FailBuild, L!FailBuild
  <2>2. Ready(task[w])
    BY <1>1, <2>1
  <2>3. Hint(task[w]) /\ task[w] \in Phases
    BY <2>2, OwnHints
  <2> QED BY <1>1, <1>4, <1>12, <2>1, <2>3, StoredBefore DEF FailBuild, Stored, DataOK, UsedOK
<1>13. CASE Crash(w)
  <2>1. UNCHANGED build
    BY <1>13 DEF Crash, L!Crash, L!buildVars
  <2>2. UsedOK'
    BY <1>13, UseStep, StoredBefore DEF Crash, Bound
  <2>3. Effect(w)
    BY <1>4, <1>13, NoRecovery DEF Crash
  <2> QED BY <1>13, <2>1, <2>2, <2>3, StoredBefore DEF Crash, Stored, DataOK
<1> QED
  BY <1>5, <1>6, <1>7, <1>8, <1>9, <1>10, <1>11, <1>12, <1>13 DEF WorkerStep

\* A worker receives a stage that was sent.
LEMMA ReceiveEffect ==
    ASSUME IInv, NEW w \in Workers, NEW s \in Stages, Receive(w, s)
    PROVE  Effect(w) /\ Stored
<1> USE DEF inputVars
<1>1. TypeOK /\ Ready(s) /\ build \in PipelineStates
  BY StoredBefore DEF Receive, DataOK
<1>2. /\ pc[w] = "idle" /\ pc' = [pc EXCEPT ![w] = "check"] /\ task' = [task EXCEPT ![w] = s]
      /\ UNCHANGED build
  BY DEF Receive, L!Receive, L!Goto, L!buildVars
<1>3. /\ pc[w] # "run" /\ pc'[w] # "run" /\ task'[w] = s
      /\ \A v \in Workers \ {w} : pc'[v] = pc[v] /\ task'[v] = task[v]
  BY <1>1, <1>2 DEF TypeOK, L!TypeOK
<1>4. UNCHANGED <<run, prep>>
  BY DEF Receive
<1>5. Effect(w)
  BY <1>1, <1>3, <1>4, NotExecuting DEF Effect
<1> QED BY <1>1, <1>2, <1>5, StoredKept DEF Receive

-----------------------------------------------------------------------------
(* The steps of a build, and of its leases.                                *)

\* The steps that leave the leases alone but for the build's status and checkpoint.
LEMMA OutsideStep ==
    ASSUME DataOK', UNCHANGED <<tableVars, workerVars>>
    PROVE  L!Outside
<1>1. build' \in L!BuildStates /\ DoneIn(ckpt') \in SUBSET Stages
  BY AllStates DEF DataOK, DoneIn
<1> QED BY <1>1 DEF L!Outside, L!tableVars, L!workerVars, L!sweepVars, tableVars, workerVars

\* A boot stores the status of a build.
LEMMA BootStep ==
    ASSUME IInv, Boot
    PROVE  Stored /\ UNCHANGED <<tableVars, workerVars, run, prep>>
<1>1. build' \in PipelineStates /\ pstatus' \in PipelineStates
  BY StoredBefore, AllStates DEF Boot, DataOK
<1>2. UsedOK'
  BY UseStep, StoredBefore DEF Boot, Bound
<1> QED BY <1>1, <1>2, StoredBefore DEF Boot, Stored, DataOK

\* The sweeps and the clock store nothing.
LEMMA LocksStep ==
    ASSUME IInv, Locks
    PROVE  Stored /\ UNCHANGED <<workerVars, run, prep>>
<1>1. UNCHANGED build /\ UNCHANGED workerVars
  BY DEF Locks, L!SweepStep, L!ListExpired, L!SweepReset, L!SweepFail, L!SweepFailWrite,
     L!SweepEnd, L!Expire, L!Release, L!buildVars, L!workerVars, workerVars
<1>2. build' \in PipelineStates
  BY <1>1, StoredBefore DEF DataOK
<1> QED BY <1>1, <1>2, StoredKept DEF Locks, inputVars

\* An execution is in order as well.
LEMMA ExecuteEffect ==
    ASSUME IInv, NEW w \in Workers, Execute(w)
    PROVE  Effect(w) /\ Stored /\ UNCHANGED <<tableVars, workerVars>>
<1>1. TypeOK /\ UnitInv
  BY DEF IInv
<1>2. /\ run[w].step \notin {"none", "failBuild"}
      /\ DataOK' /\ PhaseLeft(w) /\ Rest
  BY <1>1, ExecuteAdvances, ExecuteWrites
<1>3. PICK q : Advances(w, q)
  BY <1>1, ExecuteAdvances
<1>4. pc[w] = "run" /\ Ready(task[w]) /\ UNCHANGED <<pc, task>>
  BY <1>1, <1>2, StoredBefore DEF TypeOK, Rest, workerVars
<1>5. Effect(w)
  BY <1>2, <1>3, <1>4 DEF Effect, Advances, Rest
<1>6. "failed" \notin DOMAIN RESUME_PHASE_TO_STAGE
  BY ResumePhases
<1>7. Hint(rphase')
  BY <1>2, <1>4, <1>6, StoredBefore DEF PhaseLeft, Hint
<1> QED BY <1>2, <1>5, <1>7, StoredBefore DEF Stored, Rest, UsedOK

\* Every step is a step of the leases, or leaves all of them alone.
LEMMA RefinementStep ==
    ASSUME IInv, [Next]_vars
    PROVE  [L!Next]_(L!vars)
<1>1. L!Outside => L!Next
  BY DEF L!Next
<1>2. ASSUME NEW w \in Workers, Execute(w) PROVE L!Next
  BY <1>1, <1>2, ExecuteEffect, OutsideStep DEF Stored
<1>3. ASSUME NEW p \in Processes, Resolve(p) \/ Abandon(p) \/ Prepare(p) PROVE L!Next
  BY <1>1, <1>3, RecoveryStep, OutsideStep
<1>4. Boot => L!Next
  BY <1>1, BootStep, OutsideStep DEF Stored
<1>5. ASSUME NEW w \in Workers, FailBuildStatus(w) PROVE L!Next
  <2>1. DataOK'
    BY <1>5, StoredBefore, AllStates DEF FailBuildStatus, DataOK
  <2> QED BY <1>1, <1>5, <2>1, OutsideStep DEF FailBuildStatus
<1>6. ASSUME NEW w \in Workers,
             CheckTerminal(w) \/ BeginStage(w) \/ Acquire(w) \/ Complete(w) \/ StageFails(w)
             \/ EndStage(w) \/ FailBuild(w) \/ Chain(w) \/ Crash(w)
      PROVE  L!Next
  BY <1>6 DEF CheckTerminal, BeginStage, Acquire, Complete, StageFails, EndStage, FailBuild,
     Chain, Crash, L!Next, L!WorkerStep
<1>7. ASSUME NEW w \in Workers, NEW s \in Stages, Receive(w, s) PROVE L!Next
  BY <1>7 DEF Receive, L!Next
<1>8. Locks => L!Next
  BY DEF Locks, L!Next
<1>9. Recoverers \subseteq Processes
  BY DEF Processes
<1>10. CASE UNCHANGED vars
  BY <1>10 DEF vars, L!vars
<1> QED
  BY <1>2, <1>3, <1>4, <1>5, <1>6, <1>7, <1>8, <1>9, <1>10 DEF Next, WorkerStep

\* What a step does besides its leases and the stages done.
LEMMA StepEffect ==
    ASSUME IInv, Next
    PROVE  /\ Stored
           /\ \/ \E w \in Workers : Effect(w)
              \/ /\ UNCHANGED <<pc, task, run>>
                 /\ prep' = prep \/ \E p \in Processes : \E r : Recovers(p, r)
<1>1. ASSUME NEW w \in Workers, WorkerStep(w) \/ Crash(w) PROVE Effect(w) /\ Stored
  BY <1>1, ExecuteEffect, WorkerEffect
<1>2. ASSUME NEW w \in Workers, NEW s \in Stages, Receive(w, s) PROVE Effect(w) /\ Stored
  BY <1>2, ReceiveEffect
<1>3. ASSUME NEW p \in Processes, Resolve(p) \/ Abandon(p) \/ Prepare(p)
      PROVE  Stored /\ UNCHANGED <<pc, task, run>> /\ \E r : Recovers(p, r)
  BY <1>3, RecoveryStep DEF Stored, workerVars
<1>4. Locks \/ Boot => Stored /\ UNCHANGED <<pc, task, run, prep>>
  BY LocksStep, BootStep DEF workerVars
<1>5. Recoverers \subseteq Processes
  BY DEF Processes
<1> QED BY <1>1, <1>2, <1>3, <1>4, <1>5 DEF Next

\* A step keeps the lease table's types: StageLocks' own lemma says so.
LEMMA LeaseTypes ==
    ASSUME IInv, [Next]_vars
    PROVE  L!TypeOK'
<1>1. P!TypeOK /\ [P!Next]_(P!vars)
  <2>1. [L!Next]_(L!vars) /\ L!TypeOK
    BY RefinementStep DEF IInv, TypeOK
  <2> QED BY <2>1, SameNext, SameState DEF L!vars, P!vars
<1>2. P!TypeOK'
  BY <1>1, SameAssumption, P!TypeStep
<1> QED BY <1>2, SameTypes

\* Once done, always in once: what is ready stays ready.
LEMMA ReadyKept ==
    ASSUME IInv, Next
    PROVE  /\ once \subseteq once' /\ once' \subseteq Stages /\ DoneIn(ckpt') \subseteq once'
           /\ \A s : Ready(s) => s \in Stages /\ Earlier(s) \subseteq once'
<1>1. once \subseteq Stages /\ once' = once \cup DoneIn(ckpt')
  BY DEF IInv, TypeOK, Next, Observe
<1> QED BY <1>1 DEF DoneIn, Ready

\* The invariant is kept.
LEMMA InvariantStep == IInv /\ [Next]_vars => IInv'
<1> SUFFICES ASSUME IInv, [Next]_vars PROVE IInv'
  OBVIOUS
<1>1. CASE UNCHANGED vars
  <2>1. L!TypeOK'
    BY LeaseTypes
  <2>2. UNCHANGED <<ckpt, pstatus, rphase, results, sent, once, run, prep, used, pc, task>>
    BY <1>1 DEF vars
  <2>3. TypeOK'
    BY <2>1, <2>2 DEF IInv, TypeOK
  <2>4. UnitInv'
    BY <2>2 DEF IInv, UnitInv, InUnit
  <2>5. OrderInv'
    BY <2>2 DEF IInv, OrderInv, Ready, Hint
  <2> QED BY <2>3, <2>4, <2>5 DEF IInv
<1>2. CASE Next
  <2>1. L!TypeOK' /\ Stored /\ TypeOK /\ UnitInv
    BY <1>2, LeaseTypes, StepEffect DEF IInv
  <2>2. /\ once \subseteq once' /\ once' \subseteq Stages /\ DoneIn(ckpt') \subseteq once'
        /\ \A s : Ready(s) => s \in Stages /\ Earlier(s) \subseteq once'
    BY <1>2, ReadyKept
  <2> DEFINE InOrder ==
                /\ run' \in [Workers -> Execution]
                /\ \A w \in Workers : pc'[w] = "run" <=> run'[w].step \notin {"none", "failBuild"}
                /\ \A w \in Workers : InUnit(task'[w], run'[w])
                /\ \A w \in Workers : pc'[w] # "idle" => Ready(task'[w])
  <2>3. InOrder
    <3>1. /\ run \in [Workers -> Execution]
          /\ \A w \in Workers : pc[w] = "run" <=> run[w].step \notin {"none", "failBuild"}
          /\ \A w \in Workers : InUnit(task[w], run[w])
          /\ \A w \in Workers : pc[w] # "idle" => Ready(task[w])
      BY <2>1, StoredBefore DEF TypeOK, UnitInv
    <3>2. CASE UNCHANGED <<pc, task, run>>
      BY <3>1, <3>2
    <3>3. ASSUME NEW w \in Workers, Effect(w) PROVE InOrder
      <4>1. PICK r \in Execution :
              /\ run' = [run EXCEPT ![w] = r]
              /\ InUnit(task'[w], r)
              /\ pc'[w] = "run" <=> r.step \notin {"none", "failBuild"}
        BY <3>3 DEF Effect
      <4>2. run'[w] = r /\ \A v \in Workers \ {w} : run'[v] = run[v]
        BY <3>1, <4>1
      <4>3. \A v \in Workers \ {w} : pc'[v] = pc[v] /\ task'[v] = task[v]
        BY <3>3 DEF Effect
      <4>4. pc'[w] # "idle" => Ready(task'[w])
        BY <3>3 DEF Effect
      <4> QED BY <3>1, <4>1, <4>2, <4>3, <4>4
    <3> QED BY <1>2, <3>2, <3>3, StepEffect
  <2>4. /\ prep' \in [Processes -> Recovery]
        /\ \A p \in Processes :
              prep'[p].step # "none" => Ready(prep'[p].stage) /\ Hint(prep'[p].phase)
    <3>1. /\ prep \in [Processes -> Recovery]
          /\ \A p \in Processes :
                prep[p].step # "none" => Ready(prep[p].stage) /\ Hint(prep[p].phase)
      BY DEF IInv, TypeOK, OrderInv
    <3>2. prep' = prep \/ \E p \in Processes : \E r : Recovers(p, r)
      BY <1>2, StepEffect DEF Effect, Processes
    <3> QED BY <3>1, <3>2 DEF Recovers
  <2>5. TypeOK'
    BY <2>1, <2>2, <2>3, <2>4, StoredBefore DEF TypeOK, Stored, DataOK, UsedOK, Ready
  <2>6. UnitInv'
    BY <2>3 DEF UnitInv, InUnit
  <2>7. OrderInv'
    BY <2>1, <2>2, <2>3, <2>4 DEF OrderInv, Stored, Hint, Ready
  <2> QED BY <2>5, <2>6, <2>7 DEF IInv
<1> QED BY <1>1, <1>2

\* The initial states are in order.
LEMMA Initially == Init => IInv
<1> SUFFICES ASSUME Init PROVE IInv
  OBVIOUS
<1>1. DoneIn(ckpt) = {}
  <2>1. ckpt = {}
    BY DEF Init
  <2> QED BY <2>1 DEF DoneIn
<1>2. L!TypeOK
  <2>1. build \in L!BuildStates
    BY AllStates DEF Init
  <2>2. L!Init
    BY DEF Init
  <2>3. L!NoRow \in L!Row /\ L!NoRow.status = "none" /\ L!NoRow.token = 0
    BY DEF L!Row, L!NoRow, L!Statuses
  <2>4. /\ row \in [Stages -> L!Row]
        /\ \A s \in Stages : row[s].status = "none" /\ row[s].token = 0
    BY <2>2, <2>3 DEF L!Init
  <2>5. "idle" \in L!PCs
    BY DEF L!PCs
  <2> QED BY <1>1, <2>1, <2>2, <2>4, <2>5 DEF L!Init, L!TypeOK
<1>3. /\ {} \in Documents /\ "queued" \in PipelineStates /\ "" \in Phases
      /\ "" \notin DOMAIN RESUME_PHASE_TO_STAGE
  BY AllStates, ResumePhases DEF Documents, Phases
<1>4. NoRun \in Execution /\ NoRun.step = "none"
  BY StepNames DEF NoRun, Execution, Documents
<1>5. NoPrep \in Recovery /\ NoPrep.step = "none"
  BY DEF NoPrep, Recovery, PrepSteps, Documents, Phases
<1>6. \A k \in DOMAIN Bound : Bound[k] \in Nat
  BY BuildPipelineAssumption DEF Bound
<1>7. \A w \in Workers : pc[w] = "idle"
  BY DEF Init, L!Init
<1>8. TypeOK
  <2>1. /\ run = [w \in Workers |-> NoRun] /\ prep = [p \in Processes |-> NoPrep]
        /\ used = [k \in DOMAIN Bound |-> 0] /\ ckpt = {} /\ pstatus = "queued" /\ rphase = ""
        /\ results = "none" /\ sent = {} /\ once = {}
    BY DEF Init
  <2>2. /\ run \in [Workers -> Execution] /\ prep \in [Processes -> Recovery]
        /\ \A w \in Workers : run[w].step = "none"
    BY <1>4, <1>5, <2>1
  <2>3. used \in [DOMAIN Bound -> Nat] /\ \A k \in DOMAIN Bound : used[k] <= Bound[k]
    <3>1. \A n \in Nat : 0 <= n
      OBVIOUS
    <3>2. \A k \in DOMAIN Bound : used[k] = 0
      BY <2>1
    <3> QED BY <1>6, <2>1, <3>1, <3>2
  <2>4. \A w \in Workers : pc[w] = "run" <=> run[w].step \notin {"none", "failBuild"}
    BY <1>7, <2>2
  <2>5. results \in {"none", "success", "failed"} /\ sent \subseteq Stages /\ once \subseteq Stages
    BY <2>1
  <2> QED BY <1>2, <1>3, <2>1, <2>2, <2>3, <2>4, <2>5 DEF TypeOK
<1>9. UnitInv
  BY <1>4, StepNames DEF Init, UnitInv, InUnit
<1>10. OrderInv
  BY <1>1, <1>3, <1>5, <1>7 DEF Init, OrderInv, Hint
<1> QED BY <1>8, <1>9, <1>10 DEF IInv

\* The inductive invariant holds throughout.
LEMMA Invariant == Spec => []IInv
  BY Initially, InvariantStep, PTL DEF Spec

\* Every variable keeps its type, and only a worker that holds a task has an
\* execution under way.
THEOREM BuildTypes == Spec => []TypeOK
<1>1. IInv => TypeOK
  BY DEF IInv
<1> QED BY <1>1, Invariant, PTL

\* The messages, the executions and the recoveries use the leases as StageLocks
\* describes: every behaviour of a build is one of StageLocks.
THEOREM BuildImplementsStageLocks == Spec => ImplementsStageLocks
<1>1. Init => L!Init
  BY DEF Init
<1>2. IInv /\ [Next]_vars => [L!Next]_(L!vars)
  BY RefinementStep
<1> QED BY <1>1, <1>2, Invariant, PTL DEF Spec, ImplementsStageLocks, L!Spec

\* So the tokens fence in a whole build too.
THEOREM FencedInBuild == Spec => [](L!LockInv /\ L!ExclusiveUnlessPreempted)
<1>1. [L!Next]_(L!vars) => [P!Next]_(P!vars)
  BY SameNext DEF L!vars, P!vars
<1>2. L!Init => P!Init
  BY SameInit
<1>3. P!Spec => []P!LockInv /\ []P!ExclusiveUnlessPreempted
  BY SameAssumption, P!TokensFence, P!Exclusion
<1> QED
  BY <1>1, <1>2, <1>3, BuildImplementsStageLocks, SameState, PTL
     DEF ImplementsStageLocks, L!Spec, P!Spec

\* A stage is executed only when every stage before it has been done, through
\* whichever way its message was sent, for any number of workers, recoveries,
\* boots and crashes.
THEOREM StagesStartInOrder == Spec => StartsInOrder
<1>1. IInv => \A w \in Workers : pc[w] = "acquire" => Earlier(task[w]) \subseteq once
  BY DEF IInv, OrderInv, Ready
<1>2. IInv /\ [Next]_vars =>
         [\A w \in Workers :
             pc[w] = "acquire" /\ pc'[w] = "run" => Earlier(task[w]) \subseteq once]_vars
  BY <1>1
<1> QED BY <1>2, Invariant, PTL DEF Spec, StartsInOrder

-----------------------------------------------------------------------------
(* The build implements BuildProgress.                                     *)

\* Every copy of the checkpoint that may be written back shows only stages that
\* have been done, and a build shown complete has only the last stage to do.
FinishInv ==
    /\ \A w \in Workers : DoneIn(run[w].snap) \subseteq once
    /\ \A p \in Processes : DoneIn(prep[p].snap) \subseteq once
    /\ build = "complete" => Earlier("finalize") \subseteq once

-----------------------------------------------------------------------------
(* What a step may do to the stages done.                                  *)

\* At most one stage is finished, and those before it have been done.
Finishing ==
    \/ DoneIn(ckpt') \subseteq once
    \/ \E s \in Stages : Earlier(s) \subseteq once /\ DoneIn(ckpt') \subseteq once \cup {s}

\* Copies show what was done before the step.
RunsKept == \A w \in Workers : DoneIn(run'[w].snap) \subseteq once
PrepsKept == \A p \in Processes : DoneIn(prep'[p].snap) \subseteq once
CompleteKept == build' = "complete" => Earlier("finalize") \subseteq once

Good == Finishing /\ RunsKept /\ PrepsKept /\ CompleteKept

\* Nothing is done in an empty checkpoint.
LEMMA NothingDone == DoneIn({}) = {}
  BY DEF DoneIn

\* A step that leaves all of it alone.
LEMMA GoodKept ==
    ASSUME IInv, FinishInv
    PROVE  /\ UNCHANGED ckpt => Finishing
           /\ UNCHANGED run => RunsKept
           /\ UNCHANGED prep => PrepsKept
           /\ UNCHANGED build => CompleteKept
           /\ DoneIn(ckpt) \subseteq once
  BY DEF IInv, OrderInv, FinishInv, Finishing, RunsKept, PrepsKept, CompleteKept

\* Going to a unit keeps the copy of the checkpoint.
LEMMA AtKeeps ==
    ASSUME NEW s, NEW r \in Execution, NEW i
    PROVE  At(s, r, i).snap = r.snap
<1>1. \E j, step : At(s, r, i) = [r EXCEPT !.unit = j, !.step = step]
  BY DEF At
<1> QED BY <1>1 DEF Execution

\* A worker goes on with the copy it had, with the checkpoint, or with none.
LEMMA RunsKeptBy ==
    ASSUME IInv, FinishInv, NEW w \in Workers, NEW r, run' = [run EXCEPT ![w] = r],
           r.snap \in {run[w].snap, ckpt, {}}
    PROVE  RunsKept
<1>1. run \in [Workers -> Execution]
  BY DEF IInv, TypeOK
<1>2. DoneIn(r.snap) \subseteq once
  <2>1. DoneIn(run[w].snap) \subseteq once /\ DoneIn(ckpt) \subseteq once /\ DoneIn({}) \subseteq once
    BY NothingDone DEF IInv, OrderInv, FinishInv
  <2> QED BY <2>1
<1> QED BY <1>1, <1>2 DEF RunsKept, FinishInv

\* The same of a recovery.
LEMMA PrepsKeptBy ==
    ASSUME IInv, FinishInv, NEW p \in Processes, NEW r, prep' = [prep EXCEPT ![p] = r],
           r.snap \in {prep[p].snap, ckpt, {}}
    PROVE  PrepsKept
<1>1. prep \in [Processes -> Recovery]
  BY DEF IInv, TypeOK
<1>2. DoneIn(r.snap) \subseteq once
  <2>1. DoneIn(prep[p].snap) \subseteq once /\ DoneIn(ckpt) \subseteq once /\ DoneIn({}) \subseteq once
    BY NothingDone DEF IInv, OrderInv, FinishInv
  <2> QED BY <2>1
<1> QED BY <1>1, <1>2 DEF PrepsKept, FinishInv

-----------------------------------------------------------------------------
(* The execution of a stage.                                               *)

\* An execution keeps, refreshes or drops its copy of the checkpoint.
LEMMA ExecuteRuns ==
    ASSUME IInv, FinishInv, NEW w \in Workers, Execute(w)
    PROVE  RunsKept
<1>1. run[w] \in Execution /\ {} \in Documents /\ ckpt \in Documents /\ pstatus \in PipelineStates
  BY DEF IInv, TypeOK, Documents
<1> SUFFICES \E r : run' = [run EXCEPT ![w] = r] /\ r.snap \in {run[w].snap, ckpt, {}}
  BY RunsKeptBy
<1>2. ASSUME NEW q \in Execution, q.snap \in {run[w].snap, ckpt, {}}, NEW i,
             Moves(w, q) \/ Moves(w, At(task[w], q, i)) \/ \E to : Moves(w, [q EXCEPT !.step = to])
      PROVE  \E r : run' = [run EXCEPT ![w] = r] /\ r.snap \in {run[w].snap, ckpt, {}}
  <2>1. At(task[w], q, i).snap = q.snap
    BY AtKeeps
  <2>2. \A to : [q EXCEPT !.step = to].snap = q.snap
    BY DEF Execution
  <2> QED BY <1>2, <2>1, <2>2 DEF Moves
<1>3. CASE Load(w)
  <2> DEFINE q == [run[w] EXCEPT !.cur = pstatus, !.mem = ckpt]
  <2>1. q \in Execution /\ q.snap = run[w].snap
    BY <1>1 DEF Execution
  <2>2. Moves(w, At(task[w], q, 1)) \/ Moves(w, [q EXCEPT !.step = "fail"])
    BY <1>3 DEF Load
  <2> HIDE DEF q
  <2> QED BY <1>2, <2>1, <2>2
<1>4. CASE Enter(w)
  <2>1. ASSUME NEW to, Moves(w, [run[w] EXCEPT !.step = "note", !.cur = to])
        PROVE  \E r : run' = [run EXCEPT ![w] = r] /\ r.snap \in {run[w].snap, ckpt, {}}
    <3>1. [run[w] EXCEPT !.step = "note", !.cur = to].snap = run[w].snap
      BY <1>1 DEF Execution
    <3> QED BY <2>1, <3>1 DEF Moves
  <2>2. CASE Moves(w, [run[w] EXCEPT !.step = "fail"])
    BY <1>1, <1>2, <2>2
  <2> QED BY <1>4, <2>1, <2>2 DEF Enter
<1>5. CASE ReadCheckpoint(w)
  <2>1. Moves(w, [run[w] EXCEPT !.step = ReadFor[run[w].step], !.snap = ckpt])
    BY <1>5 DEF ReadCheckpoint
  <2> QED BY <1>1, <2>1 DEF Moves, Execution
<1>6. CASE WriteNote(w) \/ SaveAgain(w)
  <2> DEFINE q == [run[w] EXCEPT !.snap = {}]
  <2>1. q \in Execution /\ q.snap = {}
    BY <1>1 DEF Execution
  <2>2. NextUnit(w, q) \/ \E to : Moves(w, [q EXCEPT !.step = to])
    BY <1>6 DEF WriteNote, SaveAgain
  <2> HIDE DEF q
  <2> QED BY <1>2, <2>1, <2>2 DEF NextUnit
<1>7. CASE Save(w)
  <2>1. PICK yield \in SUBSET UnitOf(w).may :
          LET u == UnitOf(w)
              r == [run[w] EXCEPT !.mem = Saved(u, @, yield), !.snap = {}]
          IN IF ~(u.must \subseteq yield) THEN Moves(w, [r EXCEPT !.step = "results"])
             ELSE IF u.again # {} THEN Moves(w, [r EXCEPT !.step = "again"])
             ELSE NextUnit(w, r)
    BY <1>7 DEF Save
  <2> DEFINE q == [run[w] EXCEPT !.mem = Saved(UnitOf(w), run[w].mem, yield), !.snap = {}]
  <2>2. Saved(UnitOf(w), run[w].mem, yield) \in Documents
    <3>1. run[w].mem \in Documents
      BY <1>1 DEF Execution
    <3>2. run[w].step = "save" /\ TypeOK /\ UnitInv
      BY <1>7 DEF Save, IInv
    <3>3. UnitOf(w).saves \subseteq Keys /\ yield \subseteq Keys
      BY <3>2, InItsUnit DEF UnitSteps
    <3> QED BY <3>1, <3>3 DEF Saved, Documents
  <2>3. q \in Execution /\ q.snap = {}
    BY <1>1, <2>2 DEF Execution
  <2>4. NextUnit(w, q) \/ \E to : Moves(w, [q EXCEPT !.step = to])
    BY <2>1
  <2> HIDE DEF q
  <2> QED BY <1>2, <2>3, <2>4 DEF NextUnit
<1>8. CASE WorkFails(w) \/ Publish(w) \/ PublishResults(w) \/ MarkFailed(w) \/ ApplyFailed(w)
           \/ SaveFailure(w)
  <2>1. \E to : Moves(w, [run[w] EXCEPT !.step = to])
    BY <1>8 DEF WorkFails, Publish, PublishResults, MarkFailed, ApplyFailed, SaveFailure, Step
  <2> QED BY <1>1, <1>2, <2>1
<1> QED BY <1>3, <1>4, <1>5, <1>6, <1>7, <1>8 DEF Execute

\* A save finishes no stage but its own, and only finalize makes a build complete.
LEMMA ExecuteGood ==
    ASSUME IInv, FinishInv, NEW w \in Workers, Execute(w)
    PROVE  Good
<1>1. /\ run[w].step \notin {"none", "failBuild"} /\ TypeOK /\ UnitInv /\ Rest
  BY ExecuteAdvances, ExecuteWrites DEF IInv
<1>2. /\ task[w] \in Stages /\ Earlier(task[w]) \subseteq once
      /\ DoneIn(run[w].snap) \subseteq once
      /\ run[w].step \in UnitSteps => run[w].unit \in 1 .. Len(Units[task[w]])
  BY <1>1, InItsUnit, StoredBefore DEF Ready, FinishInv
<1>3. RunsKept /\ PrepsKept
  BY <1>1, ExecuteRuns, GoodKept DEF Rest
<1>4. ASSUME run[w].step \in UnitSteps,
             ckpt' \subseteq run[w].snap \cup Written(UnitOf(w)) \cup PlanKeys \cup UnitOf(w).mark
      PROVE  Finishing
  <2>1. DoneIn(ckpt') \subseteq DoneIn(run[w].snap) \cup Earlier(task[w]) \cup {task[w]}
    BY <1>2, <1>4, SaveFinishes DEF UnitOf
  <2> QED BY <1>2, <2>1 DEF Finishing
<1>5. CASE Save(w)
  <2>1. run[w].step \in UnitSteps
    BY <1>5 DEF Save, UnitSteps
  <2>2. ckpt' \subseteq run[w].snap \cup Written(UnitOf(w)) \cup PlanKeys \cup UnitOf(w).mark
    BY <1>5 DEF Save, Saved, Written
  <2>3. UNCHANGED build
    BY <1>5 DEF Save, stateVars
  <2> QED BY <1>3, <1>4, <2>1, <2>2, <2>3, GoodKept DEF Good
<1>6. CASE SaveAgain(w)
  <2>1. run[w].step \in UnitSteps
    BY <1>6 DEF SaveAgain, UnitSteps
  <2>2. ckpt' \subseteq run[w].snap \cup Written(UnitOf(w)) \cup PlanKeys \cup UnitOf(w).mark
    BY <1>6 DEF SaveAgain, Written
  <2>3. UNCHANGED build
    BY <1>6 DEF SaveAgain, stateVars
  <2> QED BY <1>3, <1>4, <2>1, <2>2, <2>3, GoodKept DEF Good
<1>7. CASE WriteNote(w)
  BY <1>2, <1>3, <1>7, GoodKept DEF WriteNote, stateVars, Good, Finishing
<1>8. CASE Load(w) \/ ReadCheckpoint(w) \/ WorkFails(w)
  BY <1>3, <1>8, GoodKept DEF Load, ReadCheckpoint, WorkFails, stateVars, Good
<1>9. CASE Enter(w)
  <2>1. UNCHANGED ckpt
    BY <1>9 DEF Enter
  <2>2. CASE UNCHANGED build
    BY <1>3, <2>1, <2>2, GoodKept DEF Good
  <2>3. CASE build' = PHASE_TO_STATE[UnitOf(w).phase]
    <3>1. /\ UnitOf(w).phase \in DOMAIN PHASE_TO_STATE /\ IsUnit(task[w], UnitOf(w))
      BY <1>1, <1>9, InItsUnit DEF Enter, UnitSteps
    <3>2. build' = "complete" => task[w] = "finalize"
      BY <2>3, <3>1, OnlyFinalizeCompletes DEF IsUnit
    <3> QED BY <1>2, <1>3, <2>1, <3>2, GoodKept DEF Good, CompleteKept
  <2> QED BY <1>9, <2>2, <2>3 DEF Enter, Apply, stateVars
<1>10. CASE Publish(w) \/ PublishResults(w)
  <2>1. task[w] = "finalize"
    BY <1>1, <1>10 DEF Publish, PublishResults, Step, UnitInv, InUnit, UnitSteps
  <2>2. UNCHANGED ckpt
    BY <1>10 DEF Publish, PublishResults
  <2> QED BY <1>2, <1>3, <2>1, <2>2, GoodKept DEF Good, CompleteKept
<1>11. CASE MarkFailed(w) \/ ApplyFailed(w) \/ SaveFailure(w)
  <2>1. build' = "failed" /\ UNCHANGED ckpt
    BY <1>11 DEF MarkFailed, ApplyFailed, Apply, SaveFailure
  <2> QED BY <1>3, <2>1, GoodKept DEF Good, CompleteKept
<1> QED BY <1>5, <1>6, <1>7, <1>8, <1>9, <1>10, <1>11 DEF Execute

-----------------------------------------------------------------------------
(* The other steps.                                                        *)

\* Beginning, ending and abandoning a stage, and sending the next one.
LEMMA WorkerGood ==
    ASSUME IInv, FinishInv, NEW w \in Workers, WorkerStep(w) \/ Crash(w), ~Execute(w)
    PROVE  Good
<1> USE DEF inputVars, stateVars
<1>1. /\ TypeOK /\ w \in Processes
      /\ run[w] \in Execution /\ DoneIn(run[w].snap) \subseteq once
      /\ pc[w] # "idle" => Ready(task[w])
  BY StoredBefore DEF Processes, FinishInv, TypeOK
<1>2. ASSUME NEW step, Moves(w, [NoRun EXCEPT !.step = step]) \/ Moves(w, NoRun) PROVE RunsKept
  <2>1. [NoRun EXCEPT !.step = step].snap = {} /\ NoRun.snap = {}
    BY DEF NoRun
  <2> QED BY <1>2, <2>1, RunsKeptBy DEF Moves
<1>3. ASSUME NEW r, Prepares(w, r), r.snap = {} PROVE PrepsKept
  BY <1>1, <1>3, PrepsKeptBy DEF Prepares
<1>4. NoPrep.snap = {} /\ \A step, s : PrepFor(step, s).snap = {}
  BY DEF NoPrep, PrepFor
<1>5. CASE CheckTerminal(w)
  <2>1. UNCHANGED <<ckpt, run, build>>
    BY <1>5 DEF CheckTerminal, L!CheckTerminal, L!buildVars
  <2>2. UNCHANGED prep \/ Prepares(w, PrepFor("enter", task[w]))
    BY <1>5 DEF CheckTerminal
  <2> QED BY <1>3, <1>4, <2>1, <2>2, GoodKept DEF Good
<1>6. CASE BeginStage(w) \/ EndStage(w)
  <2>1. UNCHANGED <<ckpt, run, prep, build>>
    BY <1>6 DEF BeginStage, EndStage, L!ReadRow, L!Reset, L!Refuse, L!Refused,
       L!Verify, L!Fail, L!FailStage, L!FailWrite, L!buildVars
  <2> QED BY <2>1, GoodKept DEF Good
<1>7. CASE Chain(w)
  <2>1. UNCHANGED <<ckpt, run, prep, build>>
    BY <1>7 DEF Chain, L!Chain, L!buildVars
  <2> QED BY <2>1, GoodKept DEF Good
<1>8. CASE Acquire(w)
  <2>1. UNCHANGED <<ckpt, prep, build>> /\ RunsKept
    BY <1>2, <1>8 DEF Acquire, L!Acquire, L!buildVars
  <2> QED BY <2>1, GoodKept DEF Good
<1>9. CASE Complete(w)
  <2>1. UNCHANGED <<prep, build>> /\ RunsKept
    BY <1>2, <1>9 DEF Complete, L!Complete
  <2>2. task[w] \in Stages /\ Earlier(task[w]) \subseteq once
    BY <1>1, <1>9 DEF Complete, L!Complete, L!Goto, Ready
  <2>3. DoneIn(ckpt') \subseteq once \cup {task[w]}
    <3>1. ckpt' = run[w].snap \cup {task[w]}
      BY <1>9 DEF Complete
    <3>2. \A s \in Stages : task[w] \notin REQUIRED_KEYS[s]
      BY <2>2, HomeKeys, HomePlaces, StageNames
    <3> QED BY <1>1, <3>1, <3>2 DEF DoneIn
  <2> QED BY <2>1, <2>2, <2>3, GoodKept DEF Good, Finishing
<1>10. CASE StageFails(w)
  <2>1. UNCHANGED <<ckpt, prep, build>> /\ RunsKept
    BY <1>2, <1>10 DEF StageFails, L!StageFails, L!buildVars
  <2> QED BY <2>1, GoodKept DEF Good
<1>11. CASE FailBuildStatus(w)
  <2>1. UNCHANGED <<ckpt, prep>> /\ build' = "failed"
    BY <1>11 DEF FailBuildStatus
  <2>2. run' = [run EXCEPT ![w] = [run[w] EXCEPT !.step = "failBuild"]]
    BY <1>11 DEF FailBuildStatus, Step, Moves
  <2>3. [run[w] EXCEPT !.step = "failBuild"].snap = run[w].snap
    BY <1>1 DEF Execution
  <2>4. RunsKept
    BY <2>2, <2>3, RunsKeptBy
  <2> QED BY <2>1, <2>4, GoodKept DEF Good, CompleteKept
<1>12. CASE FailBuild(w)
  <2>1. UNCHANGED <<ckpt, prep>> /\ build' = "failed" /\ RunsKept
    BY <1>2, <1>12 DEF FailBuild, L!FailBuild
  <2> QED BY <2>1, GoodKept DEF Good, CompleteKept
<1>13. CASE Crash(w)
  <2>1. UNCHANGED <<ckpt, build>> /\ RunsKept /\ PrepsKept
    BY <1>2, <1>3, <1>4, <1>13 DEF Crash, L!Crash, L!buildVars
  <2> QED BY <2>1, GoodKept DEF Good
<1> QED
  BY <1>5, <1>6, <1>7, <1>8, <1>9, <1>10, <1>11, <1>12, <1>13 DEF WorkerStep

\* A recovery writes back what it read, and moves to complete only for finalize.
LEMMA RecoveryGood ==
    ASSUME IInv, FinishInv, NEW p \in Processes, Resolve(p) \/ Abandon(p) \/ Prepare(p)
    PROVE  Good
<1> USE DEF stateVars
<1>1. /\ prep[p] \in Recovery /\ DoneIn(prep[p].snap) \subseteq once
      /\ prep[p].step # "none" => Ready(prep[p].stage)
  BY DEF IInv, TypeOK, OrderInv, FinishInv
<1>2. ASSUME NEW r, Prepares(p, r), r.snap \in {prep[p].snap, ckpt, {}} PROVE PrepsKept
  BY <1>2, PrepsKeptBy DEF Prepares
<1>3. /\ NoPrep.snap = {} /\ \A step, s : PrepFor(step, s).snap = {}
      /\ \A to : [prep[p] EXCEPT !.step = to].snap = prep[p].snap
      /\ \A to, c : [prep[p] EXCEPT !.step = to, !.snap = c].snap = c
  BY <1>1 DEF NoPrep, PrepFor, Recovery
<1>4. UNCHANGED run => RunsKept
  BY GoodKept
<1>5. CASE Resolve(p)
  <2>1. \E step, s : Prepares(p, PrepFor(step, s))
    BY <1>5 DEF Resolve
  <2>2. PrepsKept
    BY <1>2, <1>3, <2>1
  <2> QED BY <1>4, <1>5, <2>2, GoodKept DEF Resolve, Good
<1>6. CASE Abandon(p) \/ Dispatch(p)
  <2>1. PrepsKept
    BY <1>2, <1>3, <1>6 DEF Abandon, Dispatch
  <2> QED BY <1>4, <1>6, <2>1, GoodKept DEF Abandon, Dispatch, Good
<1>7. CASE PrepInterrupt(p)
  <2>1. PrepsKept /\ build' = "interrupted"
    BY <1>2, <1>3, <1>7 DEF PrepInterrupt, PrepStep, Apply
  <2> QED BY <1>4, <1>7, <2>1, GoodKept DEF PrepInterrupt, Good, CompleteKept
<1>8. CASE PrepEnter(p)
  <2>1. PrepsKept /\ build' = STAGE_TO_PIPELINE_STATE[prep[p].stage] /\ prep[p].step # "none"
    BY <1>2, <1>3, <1>8 DEF PrepEnter, PrepStep, Apply
  <2>2. CompleteKept
    BY <1>1, <2>1, OnlyFinalizeCompletes DEF CompleteKept, Ready
  <2> QED BY <1>4, <1>8, <2>1, <2>2, GoodKept DEF PrepEnter, Good
<1>9. CASE PrepRead(p)
  <2>1. \E to : Prepares(p, [prep[p] EXCEPT !.step = to, !.snap = ckpt])
    BY <1>9 DEF PrepRead
  <2>2. PrepsKept
    BY <1>2, <1>3, <2>1
  <2> QED BY <1>4, <1>9, <2>2, GoodKept DEF PrepRead, Good
<1>10. CASE PrepWrite(p)
  <2>1. \/ Prepares(p, NoPrep)
        \/ \E to : Prepares(p, [prep[p] EXCEPT !.step = to, !.snap = {}])
    BY <1>10 DEF PrepWrite
  <2>2. PrepsKept
    BY <1>2, <1>3, <2>1
  <2>3. Finishing
    BY <1>1, <1>10 DEF PrepWrite, Finishing
  <2> QED BY <1>4, <1>10, <2>2, <2>3, GoodKept DEF PrepWrite, Good
<1> QED BY <1>5, <1>6, <1>7, <1>8, <1>9, <1>10 DEF Prepare

\* Every step finishes at most one stage, and in order.
LEMMA StepGood ==
    ASSUME IInv, FinishInv, Next
    PROVE  Good
<1>1. ASSUME NEW w \in Workers, WorkerStep(w) \/ Crash(w) PROVE Good
  BY <1>1, ExecuteGood, WorkerGood
<1>2. ASSUME NEW w \in Workers, NEW s \in Stages, Receive(w, s) PROVE Good
  <2>1. UNCHANGED <<ckpt, run, prep, build>>
    BY <1>2 DEF Receive, L!Receive, L!buildVars, inputVars
  <2> QED BY <2>1, GoodKept DEF Good
<1>3. ASSUME NEW p \in Processes, Resolve(p) \/ Abandon(p) \/ Prepare(p) PROVE Good
  BY <1>3, RecoveryGood
<1>4. CASE Locks
  <2>1. UNCHANGED <<ckpt, run, prep, build>>
    BY <1>4 DEF Locks, L!SweepStep, L!ListExpired, L!SweepReset, L!SweepFail, L!SweepFailWrite,
       L!SweepEnd, L!Expire, L!Release, L!buildVars, inputVars
  <2> QED BY <2>1, GoodKept DEF Good
<1>5. CASE Boot
  <2>1. UNCHANGED <<ckpt, run, prep>> /\ (build' = build \/ build' = "interrupted")
    BY <1>5 DEF Boot
  <2> QED BY <2>1, GoodKept DEF Good, CompleteKept, FinishInv
<1>6. Recoverers \subseteq Processes
  BY DEF Processes
<1> QED BY <1>1, <1>2, <1>3, <1>4, <1>5, <1>6 DEF Next

-----------------------------------------------------------------------------
(* The refinement.                                                         *)

\* What is finished stays finished, so the copies stay in order.
LEMMA FinishStep == IInv /\ FinishInv /\ [Next]_vars => FinishInv'
<1> SUFFICES ASSUME IInv, FinishInv, [Next]_vars PROVE FinishInv'
  OBVIOUS
<1>1. CASE UNCHANGED vars
  BY <1>1 DEF vars, FinishInv
<1>2. CASE Next
  BY <1>2, StepGood, ReadyKept DEF Good, RunsKept, PrepsKept, CompleteKept, FinishInv
<1> QED BY <1>1, <1>2

\* BuildProgress has the stages and the order of BuildPipeline.
LEMMA SameStages == Progress!Stages = Stages /\ \A s : Progress!Earlier(s) = Earlier(s)
<1>1. Progress!STAGE_ORDER = STAGE_ORDER
  BY DEF Progress!STAGE_ORDER, STAGE_ORDER
<1>2. Progress!Stages = Stages
  BY <1>1 DEF Progress!Stages, Stages
<1>3. Progress!StageIndex = StageIndex
  BY <1>1, <1>2 DEF Progress!StageIndex, StageIndex
<1>4. \A s : Progress!Earlier(s) = Earlier(s)
  BY <1>2, <1>3 DEF Progress!Earlier, Earlier
<1> QED BY <1>2, <1>4

\* Every step is one of BuildProgress or changes nothing of it.
LEMMA ProgressStep == IInv /\ FinishInv /\ [Next]_vars => [Progress!Next]_(Progress!vars)
<1> SUFFICES ASSUME IInv, FinishInv, [Next]_vars PROVE [Progress!Next]_(Progress!vars)
  OBVIOUS
<1>1. CASE UNCHANGED vars
  BY <1>1 DEF vars, Progress!vars
<1>2. CASE Next
  <2>1. Good /\ once' = once \cup DoneIn(ckpt') /\ once \subseteq once'
    BY <1>2, StepGood DEF Next, Observe
  <2>2. UNCHANGED once \/ \E s \in Stages : Progress!Finish(s)
    <3>1. CASE DoneIn(ckpt') \subseteq once
      BY <2>1, <3>1
    <3>2. CASE ~(DoneIn(ckpt') \subseteq once)
      <4>1. PICK s \in Stages : Earlier(s) \subseteq once /\ DoneIn(ckpt') \subseteq once \cup {s}
        BY <2>1, <3>2 DEF Good, Finishing
      <4> QED BY <2>1, <3>2, <4>1, SameStages DEF Progress!Finish
    <3> QED BY <3>1, <3>2
  <2>3. (build = "complete")' \in BOOLEAN
    OBVIOUS
  <2>4. (build = "complete")' => Earlier("finalize") \subseteq once'
    BY <2>1 DEF Good, CompleteKept
  <2> QED BY <2>2, <2>3, <2>4, SameStages DEF Progress!Next
<1> QED BY <1>1, <1>2

\* The initial states show no stage done, and are those of BuildProgress.
LEMMA InitialProgress == Init => FinishInv /\ Progress!Init
<1> SUFFICES ASSUME Init PROVE FinishInv /\ Progress!Init
  OBVIOUS
<1>1. NoRun.snap = {} /\ NoPrep.snap = {}
  BY DEF NoRun, NoPrep
<1>2. FinishInv
  BY <1>1, NothingDone DEF Init, FinishInv
<1> QED BY <1>2 DEF Init, Progress!Init

\* "Exactly one next stage" (canonical_next_stage): with any number of workers,
\* recoveries, boots and crashes, stages are finished one at a time and in order,
\* and a build is shown complete only when all before the last are.
THEOREM BuildImplementsProgress == Spec => ImplementsProgress
<1>1. Init => FinishInv /\ Progress!Init
  BY InitialProgress
<1>2. IInv /\ FinishInv /\ [Next]_vars => FinishInv'
  BY FinishStep
<1>3. IInv /\ FinishInv /\ [Next]_vars => [Progress!Next]_(Progress!vars)
  BY ProgressStep
<1> QED
  BY <1>1, <1>2, <1>3, Invariant, PTL DEF Spec, ImplementsProgress, Progress!Spec

\* The same from any state in which the invariants hold, such as those of a build
\* that is under way: no step leaves BuildProgress.
THEOREM ProgressFromAnywhere == IInv /\ FinishInv /\ [][Next]_vars => ProgressSteps
<1>1. IInv /\ [Next]_vars => IInv'
  BY InvariantStep
<1>2. IInv /\ FinishInv /\ [Next]_vars => FinishInv'
  BY FinishStep
<1>3. IInv /\ FinishInv /\ [Next]_vars => [Progress!Next]_<<once, build = "complete">>
  BY ProgressStep DEF Progress!vars
<1> QED BY <1>1, <1>2, <1>3, PTL DEF ProgressSteps

-----------------------------------------------------------------------------
(* One worker.  With several, a worker may write back a checkpoint older   *)
(* than what another has stored, or resume a build that another is about   *)
(* to fail: TLC finds each of the three invariants below violated then.    *)
(* One worker works on what is stored, however often a stage is repeated,  *)
(* refused, overtaken by a sweep or cut short by a crash.                  *)

OneWorker == \A v, w \in Workers : v = w

\* No process opened the database, and only the first dispatch was made.
Calm == used.boot = 0 /\ used.dispatch <= 1

\* The steps of a unit before its save, and those with a copy to write back.
OpenSteps == {"enter", "note", "noted", "work", "save", "publish", "publishResults"}
CopySteps == {"noted", "save", "saveAgain", "complete", "traced"}

\* Until the first stage is sent nothing has happened, and then no recovery is
\* under way.
QuietInv ==
    /\ used.dispatch = 0 => sent = {}
    /\ sent = {} =>
          /\ ckpt = {} /\ once = {} /\ build = pstatus /\ build \in {"queued", "planning"}
          /\ \A w \in Workers : pc[w] = "idle"
    /\ \A p \in Processes : prep[p].step # "none" =>
          /\ used.dispatch = 1 /\ sent = {}
          /\ prep[p].step \in {"enter", "enterNote", "enterNoted", "send"}
          /\ prep[p].stage = "planning" /\ prep[p].snap = {}
    /\ \A p, q \in Processes : prep[p].step # "none" /\ prep[q].step # "none" => p = q

\* An execution r of stage s, with checkpoint c and the stages o done so far:
\* its context and copy are what is stored, it is in a unit that is still to
\* be saved, and the state it holds is one its stage can be entered from.
Exec(s, r, c, o) ==
    /\ r.step \in CopySteps => r.snap = c
    /\ r.step \notin {"none", "load", "failBuild"} => r.mem \cap Tracked = c \cap Tracked
    /\ r.step \in OpenSteps =>
          /\ Units[s][r.unit].skip \cap r.mem = {}
          /\ s = "novelty" /\ r.unit = 1 => "novelty" \notin o
    /\ r.step \in {"enter", "note", "noted"} => Units[s][r.unit].first = "enter"
    /\ r.step \in {"publish", "publishResults"} => Units[s][r.unit].first = "publish"
    /\ r.step \in UnitSteps =>
          /\ Reaches(r.cur, STAGE_TO_PIPELINE_STATE[s])
          /\ s = "reviewing" /\ r.unit = 2 => "builder_reviews" \in r.mem
    /\ r.step = "enter" =>
          r.cur # "complete" /\ Reaches(r.cur, PHASE_TO_STATE[Units[s][r.unit].phase])
    /\ r.step \in {"again", "saveAgain"} =>
          s = "planning" /\ Units[s][r.unit].again \subseteq r.mem
    /\ s = "repair" /\ r.step \in {"ok", "complete"} => "validated_attempts" \in r.mem

ExecInv == \A w \in Workers : Exec(task[w], run[w], ckpt, once)

\* What is stored: no stage that has been done is lost, and the state of the
\* build is not past that of a stage still to be done.
StoreInv ==
    /\ once \subseteq DoneIn(ckpt)
    /\ "validated_attempts" \in ckpt => "all_attempts" \in ckpt
    /\ pstatus \in LinearStates \cup {"failed"}
    /\ build \in ActiveStates => pstatus = build
    /\ pstatus # "failed" =>
          /\ \A s \in Stages \ once : Reaches(pstatus, STAGE_TO_PIPELINE_STATE[s])
          /\ "reviewing" \notin once =>
                Reaches(pstatus, "generating") \/ "builder_reviews" \in ckpt

\* A stage is begun when it and the build have not ended.
BeginInv ==
    \A w \in Workers :
        pc[w] \in {"read", "reset", "acquire"} \/ run[w].step = "load" =>
            build \in ActiveStates /\ task[w] \notin once

\* The repair that found no attempt that passes ends the build.
NonePassed == "validated_attempts" \in ckpt /\ "attempts_passed" \notin ckpt
Over(w) == \/ pc[w] \in {"idle", "check", "chain", "fail"}
           \/ pc[w] = "run" /\ run[w].step = "failed"
PassedInv ==
    used.crash = 0 =>
        /\ "repair" \in ckpt => {"validated_attempts", "attempts_passed"} \subseteq ckpt
        /\ NonePassed =>
              \/ \E w \in Workers : Executing(w, "repair") /\ run[w].step = "results"
              \/ build = "failed" /\ \A w \in Workers : Over(w)

\* The build is shown complete before its results are there only by finalize.
ResultsInv ==
    used.crash = 0 =>
        /\ build = "complete" /\ results # "success" =>
              \E w \in Workers :
                  /\ Executing(w, "finalize")
                  /\ run[w].step \in {"note", "noted", "publish", "publishResults", "fail"}
        /\ \A w \in Workers : Executing(w, "finalize") =>
              /\ run[w].step \in {"work", "save", "ok", "complete"} => results = "success"
              /\ run[w].step \in {"applyFailed", "trace", "traced", "results", "failed"} =>
                    build = "failed"

SInv == QuietInv /\ ExecInv /\ StoreInv /\ BeginInv /\ PassedInv /\ ResultsInv

-----------------------------------------------------------------------------
(* The unit an execution goes to.                                          *)

Skips(u, m) == u.skip \cap m # {} \/ ~(u.only \subseteq m)

\* It is the first one that is not skipped.
LEMMA AtFacts ==
    ASSUME NEW s \in Stages, NEW r \in Execution, NEW i \in {1, 2, 3},
           NEW q, q = At(s, r, i)
    PROVE  /\ q.cur = r.cur /\ q.mem = r.mem /\ q.snap = r.snap
           /\ q.step \in {"ok", "fail", "enter", "work", "publish"}
           /\ q.step \in {"enter", "work", "publish"} =>
                 /\ q.unit \in i .. Len(Units[s]) /\ q.step = Units[s][q.unit].first
                 /\ Units[s][q.unit].skip \cap r.mem = {}
                 /\ \A j \in i .. Len(Units[s]) : j < q.unit => Skips(Units[s][j], r.mem)
           /\ q.step = "ok" => \A j \in i .. Len(Units[s]) : Skips(Units[s][j], r.mem)
           /\ Len(Units[s]) < i => q.step = "ok"
<1> DEFINE Skipped(u) == u.skip \cap r.mem # {} \/ ~(u.only \subseteq r.mem)
           left == {j \in i .. Len(Units[s]) : ~Skipped(Units[s][j])}
           m == CHOOSE j \in left : \A k \in left : j <= k
<1>1. Len(Units[s]) \in {1, 2}
  BY UnitFacts
<1>2. left \subseteq i .. Len(Units[s]) /\ left \subseteq {1, 2}
  BY <1>1
<1>3. \A j \in i .. Len(Units[s]) : j \in left \/ Skips(Units[s][j], r.mem)
  BY DEF Skips
<1>4. CASE left = {}
  <2>1. At(s, r, i) = [r EXCEPT !.unit = Len(Units[s]) + 1, !.step = "ok"]
    BY <1>4 DEF At
  <2> QED BY <1>3, <1>4, <2>1 DEF Execution
<1>5. CASE left # {}
  <2>1. \E k \in left : \A l \in left : k <= l
    <3>1. CASE 1 \in left
      BY <3>1, <1>2
    <3>2. CASE 1 \notin left
      BY <3>2, <1>2, <1>5
    <3> QED BY <3>1, <3>2
  <2>2. m \in left /\ \A l \in left : m <= l
    BY <2>1
  <2> DEFINE u == Units[s][m]
             to == IF u.needs \subseteq r.mem THEN u.first ELSE "fail"
  <2>3. At(s, r, i) = [r EXCEPT !.unit = m, !.step = to]
    BY <1>5 DEF At
  <2>4. u.skip \cap r.mem = {}
    BY <2>2
  <2>5. u.first \in {"enter", "work", "publish"}
    <3>1. m \in 1 .. Len(Units[s])
      BY <1>1, <1>2, <2>2
    <3> QED BY <3>1, UnitFacts DEF IsUnit
  <2>6. m \in i .. Len(Units[s]) /\ \A j \in left : ~(j < m)
    BY <1>2, <2>2
  <2>7. to \in {"fail", u.first}
    OBVIOUS
  <2> HIDE DEF to, m, left
  <2>8. /\ q.cur = r.cur /\ q.mem = r.mem /\ q.snap = r.snap /\ q.unit = m /\ q.step = to
    BY <2>3 DEF Execution
  <2>9. \A j \in i .. Len(Units[s]) : j < m => Skips(Units[s][j], r.mem)
    BY <1>3, <2>6
  <2>10. to # "ok"
    BY <2>5, <2>7
  <2>11. ~(Len(Units[s]) < i)
    BY <1>1, <2>6
  <2> QED BY <2>4, <2>5, <2>6, <2>7, <2>8, <2>9, <2>10, <2>11
<1> QED BY <1>4, <1>5

\* An execution on what is stored, in a state not past that of its stage, is in
\* order in the unit it goes to.
LEMMA UnitBegins ==
    ASSUME NEW s \in Stages, NEW r \in Execution, NEW i \in {1, 2, 3}, NEW c, NEW o,
           r.mem \cap Tracked = c \cap Tracked,
           Reaches(r.cur, STAGE_TO_PIPELINE_STATE[s]),
           i = 1 => /\ r.cur # "complete"
                    /\ s = "novelty" => "novelty" \notin o
                    /\ s = "reviewing" =>
                          Reaches(r.cur, "generating") \/ "builder_reviews" \in r.mem,
           i \in {2, 3} /\ s = "reviewing" => "builder_reviews" \in r.mem,
           i = 3 /\ s = "repair" => "validated_attempts" \in r.mem
    PROVE  Exec(s, At(s, r, i), c, o)
<1> DEFINE q == At(s, r, i)
<1>1. /\ q.cur = r.cur /\ q.mem = r.mem
      /\ q.step \in {"ok", "fail", "enter", "work", "publish"}
      /\ q.step \in {"enter", "work", "publish"} =>
            /\ q.unit \in i .. Len(Units[s]) /\ q.step = Units[s][q.unit].first
            /\ Units[s][q.unit].skip \cap r.mem = {}
            /\ \A j \in i .. Len(Units[s]) : j < q.unit => Skips(Units[s][j], r.mem)
      /\ q.step = "ok" => \A j \in i .. Len(Units[s]) : Skips(Units[s][j], r.mem)
  BY AtFacts
<1> SUFFICES Exec(s, q, c, o)
  OBVIOUS
<1> HIDE DEF q
<1>2. q.mem \cap Tracked = c \cap Tracked
  BY <1>1
<1>3. CASE q.step = "fail"
  BY <1>2, <1>3 DEF Exec, CopySteps, OpenSteps, UnitSteps
<1>4. CASE q.step = "ok"
  <2>1. ASSUME s = "repair" PROVE "validated_attempts" \in r.mem
    <3>1. CASE i = 3
      BY <2>1, <3>1
    <3>2. CASE i \in {1, 2}
      <4>1. Len(Units[s]) = 2
        BY <2>1, UnitCounts
      <4>2. 2 \in i .. Len(Units[s]) /\ 2 \in 1 .. Len(Units[s])
        BY <3>2, <4>1
      <4>3. Skips(Units[s][2], r.mem)
        BY <1>1, <1>4, <4>2
      <4>4. Units[s][2].skip = {"validated_attempts"} /\ Units[s][2].only = {}
        BY <2>1, <4>2, UnitPlaces DEF Placed
      <4> QED BY <4>3, <4>4 DEF Skips
    <3> QED BY <3>1, <3>2
  <2> QED BY <1>1, <1>2, <1>4, <2>1 DEF Exec, CopySteps, OpenSteps, UnitSteps
<1>5. CASE q.step \in {"enter", "work", "publish"}
  <2> DEFINE u == Units[s][q.unit]
  <2>1. /\ q.unit \in i .. Len(Units[s]) /\ q.step = u.first /\ u.skip \cap r.mem = {}
        /\ \A j \in i .. Len(Units[s]) : j < q.unit => Skips(Units[s][j], r.mem)
    BY <1>1, <1>5
  <2>2. Len(Units[s]) \in {1, 2}
    BY UnitFacts
  <2>3. q.unit \in 1 .. Len(Units[s]) /\ q.unit >= i
    BY <2>1, <2>2
  <2>4. Placed(s, q.unit, u)
    BY <2>3, UnitPlaces
  <2>5. s = "novelty" /\ q.unit = 1 => "novelty" \notin o
    BY <2>3
  <2>6. ASSUME s = "reviewing", q.unit = 2 PROVE "builder_reviews" \in r.mem
    <3>1. CASE i = 1
      <4>1. 1 \in i .. Len(Units[s]) /\ 1 \in 1 .. Len(Units[s]) /\ 1 < q.unit
        BY <2>2, <2>6, <3>1
      <4>2. Skips(Units[s][1], r.mem)
        BY <2>1, <4>1
      <4>3. Units[s][1].skip = {"builder_reviews"} /\ Units[s][1].only = {}
        BY <2>6, <4>1, UnitPlaces DEF Placed
      <4> QED BY <4>2, <4>3 DEF Skips
    <3> QED BY <2>6, <3>1
  <2>7. ASSUME q.step = "enter"
        PROVE  r.cur # "complete" /\ Reaches(r.cur, PHASE_TO_STATE[u.phase])
    <3>1. r.cur # "complete"
      <4>1. CASE i = 1
        BY <4>1
      <4>2. CASE i # 1
        <5>1. q.unit # 1
          BY <2>2, <2>3, <4>2
        <5>2. s # "finalize"
          BY <2>1, <2>4, <2>7, <5>1 DEF Placed
        <5> QED BY <5>2, StateOrder
      <4> QED BY <4>1, <4>2
    <3>2. CASE PHASE_TO_STATE[u.phase] = STAGE_TO_PIPELINE_STATE[s]
      BY <3>1, <3>2
    <3>3. CASE s = "reviewing" /\ q.unit = 1 /\ PHASE_TO_STATE[u.phase] = "generating"
      <4>1. i = 1
        BY <2>3, <3>3
      <4>2. "builder_reviews" \notin r.mem
        BY <2>1, <2>4, <3>3 DEF Placed
      <4> QED BY <3>1, <3>3, <4>1, <4>2
    <3> QED BY <2>1, <2>4, <2>7, <3>2, <3>3 DEF Placed
  <2> HIDE DEF u
  <2> QED BY <1>1, <1>2, <1>5, <2>1, <2>5, <2>6, <2>7 DEF Exec, CopySteps, OpenSteps, UnitSteps, u
<1> QED BY <1>1, <1>3, <1>4, <1>5
\* The units of finalize are done one after the other.
LEMMA AtFinalize ==
    ASSUME NEW r \in Execution, NEW i \in {1, 2, 3}
    PROVE  /\ i = 1 => At("finalize", r, i).step \in {"enter", "fail"}
           /\ i = 2 => At("finalize", r, i).step \in {"publish", "fail"}
           /\ i = 3 => At("finalize", r, i).step = "ok"
<1> DEFINE q == At("finalize", r, i)
<1>1. "finalize" \in Stages /\ Len(Units["finalize"]) = 2
  BY StageNames, UnitCounts
<1>2. /\ q.step \in {"ok", "fail", "enter", "work", "publish"}
      /\ q.step \in {"enter", "work", "publish"} =>
            /\ q.unit \in i .. 2 /\ q.step = Units["finalize"][q.unit].first
            /\ \A j \in i .. 2 : j < q.unit => Skips(Units["finalize"][j], r.mem)
      /\ q.step = "ok" => \A j \in i .. 2 : Skips(Units["finalize"][j], r.mem)
      /\ 2 < i => q.step = "ok"
  <2>1. ASSUME NEW s \in Stages, s = "finalize", NEW p, p = At(s, r, i)
        PROVE  /\ p.step \in {"ok", "fail", "enter", "work", "publish"}
               /\ p.step \in {"enter", "work", "publish"} =>
                     /\ p.unit \in i .. Len(Units[s]) /\ p.step = Units[s][p.unit].first
                     /\ \A j \in i .. Len(Units[s]) : j < p.unit => Skips(Units[s][j], r.mem)
               /\ p.step = "ok" => \A j \in i .. Len(Units[s]) : Skips(Units[s][j], r.mem)
               /\ Len(Units[s]) < i => p.step = "ok"
    BY <2>1, AtFacts
  <2> QED BY <1>1, <2>1
<1>3. \A j \in {1, 2} : ~Skips(Units["finalize"][j], r.mem)
                        /\ Units["finalize"][j].first = IF j = 1 THEN "enter" ELSE "publish"
  <2>1. \A j \in 1 .. 2 : Placed("finalize", j, Units["finalize"][j])
    BY <1>1, UnitPlaces
  <2> QED BY <2>1 DEF Placed, Skips
<1> HIDE DEF q
<1>4. CASE i = 3
  BY <1>2, <1>4 DEF q
<1>5. CASE i \in {1, 2}
  <2>1. i \in i .. 2
    BY <1>5
  <2>2. q.step # "ok"
    BY <1>2, <1>3, <1>5, <2>1
  <2>3. q.step \in {"enter", "work", "publish"} => q.unit = i
    <3>1. \A j \in i .. 2 : j = i \/ i < j
      BY <1>5
    <3> QED BY <1>2, <1>3, <1>5, <2>1, <3>1
  <2>4. q.step \in {"fail", "enter", "work", "publish"}
    BY <1>2, <2>2
  <2>5. q.step \in {"enter", "work", "publish"} => q.step = IF i = 1 THEN "enter" ELSE "publish"
    BY <1>2, <1>3, <1>5, <2>3
  <2>6. i = 1 => q.step \in {"enter", "fail"}
    BY <2>4, <2>5
  <2>7. i = 2 => q.step \in {"publish", "fail"}
    BY <2>4, <2>5
  <2> QED BY <1>5, <2>6, <2>7 DEF q
<1> QED BY <1>4, <1>5

-----------------------------------------------------------------------------
(* What a step leaves alone.                                               *)

\* Nothing newly done, nothing changed.
LEMMA OnceKept ==
    ASSUME IInv, Observe, ckpt' = ckpt
    PROVE  once' = once
  BY DEF IInv, OrderInv, Observe

\* A worker with a task: the first stage has been sent, no recovery is under way.
LEMMA WorkerQuiet ==
    ASSUME SInv, NEW w \in Workers, pc[w] # "idle"
    PROVE  sent # {} /\ used.dispatch # 0 /\ \A p \in Processes : prep[p].step = "none"
  BY DEF SInv, QuietInv

\* Its steps begin no recovery.
LEMMA QuietKept ==
    ASSUME SInv, NEW w \in Workers, pc[w] # "idle", used'.dispatch = used.dispatch,
           sent \subseteq sent', \A p \in Processes : prep'[p].step \in {"none", prep[p].step}
    PROVE  QuietInv'
<1>1. sent' # {} /\ used'.dispatch # 0 /\ \A p \in Processes : prep'[p].step = "none"
  BY WorkerQuiet
<1> QED BY <1>1 DEF QuietInv

\* A step that saves nothing and enters no state.
LEMMA StoreKept ==
    ASSUME StoreInv, UNCHANGED <<ckpt, once>>,
           UNCHANGED pstatus \/ pstatus' = "failed",
           build' \in {"complete", "failed"} \/ (UNCHANGED <<build, pstatus>>)
    PROVE  StoreInv'
<1>1. "complete" \notin ActiveStates /\ "failed" \notin ActiveStates
  BY DEF ActiveStates
<1> QED BY <1>1 DEF StoreInv

\* A worker that begins no stage.
LEMMA BeginKept ==
    ASSUME OneWorker, NEW w \in Workers, pc'[w] \notin {"read", "reset", "acquire"},
           run'[w].step # "load"
    PROVE  BeginInv'
  BY DEF OneWorker, BeginInv

\* The attempts that were reviewed or are repaired have not all failed.
LEMMA SomePassed ==
    ASSUME OneWorker, PassedInv, NEW w \in Workers, used.crash = 0, ~Over(w),
           ~(Executing(w, "repair") /\ run[w].step = "results")
    PROVE  ~NonePassed
  BY DEF OneWorker, PassedInv

\* A step that saves nothing.
LEMMA PassedKept ==
    ASSUME OneWorker, PassedInv, NEW w \in Workers, UNCHANGED ckpt,
           used'.crash = 0 => used.crash = 0,
           used.crash = 0 /\ NonePassed => build' = "failed" /\ Over(w)'
    PROVE  PassedInv'
  BY DEF OneWorker, PassedInv, NonePassed

\* An execution that is in no unit of its stage.
LEMMA ExecOutside ==
    ASSUME NEW s, NEW r, NEW c, NEW o, r.mem \cap Tracked = c \cap Tracked,
           r.step \in {"fail", "applyFailed", "trace", "results", "failed"}
    PROVE  Exec(s, r, c, o)
  BY DEF Exec, CopySteps, OpenSteps, UnitSteps

\* No execution under way.
LEMMA ExecNone ==
    ASSUME OneWorker, NEW w \in Workers, run'[w].step \in {"none", "load", "failBuild"}
    PROVE  ExecInv'
<1>1. \A s, r, c, o : r.step \in {"none", "load", "failBuild"} => Exec(s, r, c, o)
  BY DEF Exec, CopySteps, OpenSteps, UnitSteps
<1>2. \A v \in Workers : run'[v].step \in {"none", "load", "failBuild"}
  BY DEF OneWorker
<1> QED BY <1>1, <1>2 DEF ExecInv

\* A step of an execution: what remains to be shown of it.
LEMMA Carries ==
    ASSUME OneWorker, IInv, SInv, NEW w \in Workers, Execute(w), NEW r, Moves(w, r),
           r.step # "load", StoreInv', PassedInv', Exec(task[w], r, ckpt', once'),
           used.crash = 0 =>
              /\ build' = "complete" /\ results' # "success" =>
                    /\ task[w] = "finalize"
                    /\ r.step \in {"note", "noted", "publish", "publishResults", "fail"}
              /\ task[w] = "finalize" =>
                    /\ r.step \in {"work", "save", "ok", "complete"} => results' = "success"
                    /\ r.step \in {"applyFailed", "trace", "traced", "results", "failed"} =>
                          build' = "failed"
    PROVE  SInv'
<1>1. /\ pc[w] = "run" /\ UNCHANGED <<pc, task, sent, prep, used>>
  BY ExecuteAdvances, ExecuteWrites, InItsUnit DEF IInv, Rest, workerVars
<1>2. run'[w] = r
  BY DEF Moves, IInv, TypeOK
<1>3. QuietInv'
  BY <1>1, QuietKept
<1>4. BeginInv'
  BY <1>1, <1>2, BeginKept
<1>5. ExecInv'
  BY <1>1, <1>2 DEF ExecInv, OneWorker
<1>6. ResultsInv'
  BY <1>1, <1>2 DEF ResultsInv, OneWorker, Executing
<1> QED BY <1>3, <1>4, <1>5, <1>6 DEF SInv

-----------------------------------------------------------------------------
(* The steps of an execution.                                              *)

\* What the invariants say of an execution before one of its steps.
LEMMA ExecutionFacts ==
    ASSUME OneWorker, IInv, SInv, NEW w \in Workers, Execute(w), Observe
    PROVE  /\ run[w].step \notin {"none", "failBuild"} /\ pc[w] = "run" /\ ~(pc[w] = "idle")
           /\ task[w] \in Stages /\ run[w] \in Execution /\ Earlier(task[w]) \subseteq once
           /\ run[w].step \in UnitSteps =>
                 /\ run[w].unit \in {1, 2} /\ run[w].unit \in 1 .. Len(Units[task[w]])
                 /\ IsUnit(task[w], UnitOf(w))
                 /\ Careful(task[w], run[w].unit, UnitOf(w))
                 /\ Placed(task[w], run[w].unit, UnitOf(w))
           /\ Exec(task[w], run[w], ckpt, once)
           /\ TypeOK /\ UnitInv /\ StoreInv /\ PassedInv /\ ResultsInv
           /\ ckpt' = ckpt => once' = once
           /\ used' = used
           /\ used.crash = 0 /\ run[w].step \notin {"results", "failed"} => ~NonePassed
<1>1. /\ run[w].step \notin {"none", "failBuild"} /\ used' = used
  BY ExecuteAdvances, ExecuteWrites DEF IInv, Rest
<1>2. /\ pc[w] = "run" /\ task[w] \in Stages /\ run[w] \in Execution
      /\ run[w].step \in UnitSteps =>
            /\ run[w].unit \in {1, 2} /\ run[w].unit \in 1 .. Len(Units[task[w]])
            /\ IsUnit(task[w], UnitOf(w))
  BY <1>1, InItsUnit DEF IInv
<1>3. run[w].step \in UnitSteps =>
         /\ Careful(task[w], run[w].unit, UnitOf(w)) /\ Placed(task[w], run[w].unit, UnitOf(w))
  BY <1>2, UnitPlaces DEF UnitOf
<1>4. Earlier(task[w]) \subseteq once
  BY <1>2, StoredBefore DEF Ready
<1>5. /\ Exec(task[w], run[w], ckpt, once)
      /\ TypeOK /\ UnitInv /\ StoreInv /\ PassedInv /\ ResultsInv
  BY DEF SInv, ExecInv, IInv
<1>6. ckpt' = ckpt => once' = once
  BY OnceKept
<1>7. used.crash = 0 /\ run[w].step \notin {"results", "failed"} => ~NonePassed
  BY <1>2, <1>5, SomePassed DEF Over
<1> QED BY <1>1, <1>2, <1>3, <1>4, <1>5, <1>6, <1>7

\* Loading the context: the stage and the build have not ended.
LEMMA LoadAlone ==
    ASSUME OneWorker, IInv, SInv, NEW w \in Workers, Load(w), Observe
    PROVE  SInv'
<1> DEFINE r == [run[w] EXCEPT !.cur = pstatus, !.mem = ckpt]
           q == At(task[w], r, 1)
<1>1. Execute(w) /\ run[w].step = "load" /\ UNCHANGED <<ckpt, build, pstatus, results>>
  BY DEF Execute, Load, stateVars
<1>2. /\ task[w] \in Stages /\ run[w] \in Execution /\ TypeOK /\ StoreInv /\ PassedInv /\ ResultsInv
      /\ once' = once /\ pc[w] = "run" /\ used' = used
      /\ used.crash = 0 => ~NonePassed
  BY <1>1, ExecutionFacts
<1>3. build \in ActiveStates /\ task[w] \notin once /\ pstatus = build
  BY <1>1 DEF SInv, BeginInv, StoreInv
<1>4. /\ build \notin {"complete", "failed"}
      /\ Reaches(pstatus, STAGE_TO_PIPELINE_STATE[task[w]])
      /\ task[w] = "reviewing" => Reaches(pstatus, "generating") \/ "builder_reviews" \in ckpt
  BY <1>2, <1>3 DEF StoreInv, ActiveStates
<1>5. r \in Execution /\ r.cur = pstatus /\ r.mem = ckpt
  BY <1>2 DEF Execution, TypeOK
<1> HIDE DEF r
<1>6. Exec(task[w], q, ckpt, once)
  BY <1>2, <1>3, <1>4, <1>5, UnitBegins
<1>7. Exec(task[w], [r EXCEPT !.step = "fail"], ckpt, once) /\ [r EXCEPT !.step = "fail"].step = "fail"
  BY <1>5, ExecOutside DEF Execution
<1>8. /\ q.step \in {"ok", "fail", "enter", "work", "publish"}
      /\ task[w] = "finalize" => q.step \in {"enter", "fail"}
  BY <1>2, <1>5, AtFacts, AtFinalize
<1>9. StoreInv' /\ PassedInv'
  <2>1. StoreInv'
    BY <1>1, <1>2, StoreKept
  <2> QED BY <1>1, <1>2, <2>1, PassedKept
<1>10. Moves(w, q) \/ Moves(w, [r EXCEPT !.step = "fail"])
  BY DEF Load, r
<1> HIDE DEF q
<1>11. build' # "complete"
  BY <1>1, <1>4
<1>12. CASE Moves(w, q)
  BY <1>1, <1>2, <1>6, <1>8, <1>9, <1>11, <1>12, Carries
<1>13. CASE Moves(w, [r EXCEPT !.step = "fail"])
  <2> DEFINE p == [r EXCEPT !.step = "fail"]
  <2>1. Exec(task[w], p, ckpt, once) /\ p.step = "fail" /\ Moves(w, p)
    BY <1>7, <1>13
  <2> HIDE DEF p
  <2> QED BY <1>1, <1>2, <1>9, <1>11, <2>1, Carries
<1> QED BY <1>10, <1>12, <1>13

\* Entering the state of the stage.
LEMMA EnterAlone ==
    ASSUME OneWorker, IInv, SInv, NEW w \in Workers, Enter(w), Observe
    PROVE  SInv'
<1> DEFINE s == task[w]
           to == PHASE_TO_STATE[UnitOf(w).phase]
<1>1. Execute(w) /\ run[w].step = "enter" /\ UNCHANGED <<ckpt, results>>
  BY DEF Execute, Enter
<1>2. /\ s \in Stages /\ run[w] \in Execution /\ StoreInv /\ PassedInv /\ ResultsInv
      /\ once' = once /\ pc[w] = "run" /\ Earlier(s) \subseteq once /\ used' = used
      /\ used.crash = 0 => ~NonePassed
      /\ Exec(s, run[w], ckpt, once)
      /\ run[w].unit \in {1, 2} /\ IsUnit(s, UnitOf(w)) /\ Placed(s, run[w].unit, UnitOf(w))
  BY <1>1, ExecutionFacts DEF UnitSteps
<1>3. PassedInv'
  BY <1>1, <1>2, PassedKept
<1>4. /\ UnitOf(w).first = "enter" /\ UnitOf(w).skip \cap run[w].mem = {}
      /\ run[w].mem \cap Tracked = ckpt \cap Tracked
      /\ s = "novelty" /\ run[w].unit = 1 => "novelty" \notin once
      /\ s = "reviewing" /\ run[w].unit = 2 => "builder_reviews" \in run[w].mem
      /\ Reaches(run[w].cur, STAGE_TO_PIPELINE_STATE[s])
  BY <1>1, <1>2 DEF Exec, UnitOf, OpenSteps, UnitSteps
<1>5. \/ to = STAGE_TO_PIPELINE_STATE[s]
      \/ s = "reviewing" /\ run[w].unit = 1 /\ to = "generating"
  BY <1>2, <1>4 DEF Placed
<1>6. CASE Moves(w, [run[w] EXCEPT !.step = "note", !.cur = to]) /\ Apply(to, UnitOf(w).phase)
  <2> DEFINE q == [run[w] EXCEPT !.step = "note", !.cur = to]
  <2>1. /\ q.step = "note" /\ q.cur = to /\ q.mem = run[w].mem /\ q.unit = run[w].unit /\ Moves(w, q)
    BY <1>2, <1>6 DEF Execution
  <2> HIDE DEF q
  <2>2. Reaches(to, STAGE_TO_PIPELINE_STATE[s]) /\ to \in LinearStates
    <3>1. StageIndex[s] <= StageIndex[s]
      BY <1>2, StageOrder
    <3>2. /\ Reaches(STAGE_TO_PIPELINE_STATE[s], STAGE_TO_PIPELINE_STATE[s])
          /\ Reaches("generating", STAGE_TO_PIPELINE_STATE["reviewing"])
      BY <1>2, <3>1, StateOrder
    <3>3. Reaches(to, STAGE_TO_PIPELINE_STATE[s])
      BY <1>5, <3>2
    <3> HIDE DEF to
    <3> QED BY <3>3 DEF Reaches
  <2>3. Exec(s, q, ckpt, once)
    BY <1>4, <2>1, <2>2 DEF Exec, CopySteps, OpenSteps, UnitSteps, UnitOf
  <2>4. \A t \in Stages \ once : Reaches(to, STAGE_TO_PIPELINE_STATE[t])
    <3> TAKE t \in Stages \ once
    <3>1. StageIndex[s] <= StageIndex[t]
      BY <1>2, NotLater
    <3>2. Reaches(STAGE_TO_PIPELINE_STATE[s], STAGE_TO_PIPELINE_STATE[t])
      BY <1>2, <3>1, StateOrder
    <3>3. CASE to = STAGE_TO_PIPELINE_STATE[s]
      BY <3>2, <3>3
    <3>4. CASE s = "reviewing" /\ to = "generating"
      <4>1. StageIndex["reviewing"] <= StageIndex[t] /\ "reviewing" \in Stages
        BY <1>2, <3>1, <3>4
      <4>2. Reaches("reviewing", STAGE_TO_PIPELINE_STATE[t])
        BY <3>2, <3>4 DEF STAGE_TO_PIPELINE_STATE
      <4> QED BY <3>4, <4>2, LinearIndices, StateOrder DEF Reaches
    <3> QED BY <1>5, <3>3, <3>4
  <2>5. "reviewing" \notin once => Reaches(to, "generating") \/ "builder_reviews" \in ckpt
    <3> SUFFICES ASSUME "reviewing" \notin once
                 PROVE  Reaches(to, "generating") \/ "builder_reviews" \in ckpt
      OBVIOUS
    <3>1. StageIndex[s] <= StageIndex["reviewing"] /\ "reviewing" \in Stages
      <4>1. "reviewing" \in Stages \ once
        BY StageNames
      <4> QED BY <1>2, <4>1, NotLater
    <3>2. CASE s # "reviewing"
      <4>1. StageIndex[s] < StageIndex["reviewing"]
        BY <1>2, <3>1, <3>2, StageOrder
      <4> QED BY <1>2, <1>5, <3>2, <4>1, StateOrder
    <3>3. CASE s = "reviewing" /\ run[w].unit = 2
      BY <1>4, <3>3 DEF Tracked
    <3>4. CASE s = "reviewing" /\ run[w].unit = 1
      <4>1. "builder_reviews" \notin run[w].mem
        BY <1>2, <1>4, <3>4 DEF Placed
      <4>2. to = "generating" \/ to = STAGE_TO_PIPELINE_STATE["reviewing"]
        BY <1>5, <3>4
      <4>3. to = "generating"
        <5>1. UnitOf(w) = ReviewerUnits[1]
          BY <3>4 DEF UnitOf, Units
        <5>2. ReviewerUnits[1].phase = "builder_review"
          BY DEF ReviewerUnits, Unit
        <5> QED BY <5>1, <5>2 DEF PHASE_TO_STATE
      <4> QED BY <4>3, StateOrder
    <3> QED BY <1>2, <3>2, <3>3, <3>4
  <2>6. pstatus' = to /\ build' = to
    BY <1>6 DEF Apply
  <2> HIDE DEF to
  <2>7. StoreInv'
    BY <1>1, <1>2, <2>2, <2>4, <2>5, <2>6 DEF StoreInv
  <2>8. build' = "complete" => s = "finalize"
    BY <1>2, <2>2, <2>6, StateOrder
  <2> QED BY <1>1, <1>2, <1>3, <2>1, <2>3, <2>7, <2>8, Carries
<1>7. CASE Moves(w, [run[w] EXCEPT !.step = "fail"]) /\ UNCHANGED stateVars
  <2> DEFINE q == [run[w] EXCEPT !.step = "fail"]
  <2>1. q.step = "fail" /\ q.mem = run[w].mem /\ Moves(w, q)
    BY <1>2, <1>7 DEF Execution
  <2> HIDE DEF q
  <2>2. Exec(s, q, ckpt, once)
    BY <1>4, <2>1, ExecOutside
  <2>3. StoreInv'
    BY <1>1, <1>2, <1>7, StoreKept DEF stateVars
  <2>4. used.crash = 0 => ~(build' = "complete" /\ results' # "success")
    BY <1>1, <1>2, <1>7 DEF stateVars, ResultsInv, OneWorker
  <2> QED BY <1>1, <1>2, <1>3, <2>1, <2>2, <2>3, <2>4, Carries
<1> QED BY <1>6, <1>7 DEF Enter

\* Reading the checkpoint before a write.
LEMMA ReadAlone ==
    ASSUME OneWorker, IInv, SInv, NEW w \in Workers, ReadCheckpoint(w), Observe
    PROVE  SInv'
<1> DEFINE s == task[w]
           from == run[w].step
           q == [run[w] EXCEPT !.step = ReadFor[from], !.snap = ckpt]
<1>1. /\ Execute(w) /\ UNCHANGED <<ckpt, build, pstatus, results>> /\ Moves(w, q)
      /\ from \in {"note", "work", "again", "ok", "trace"}
  BY StepNames DEF Execute, ReadCheckpoint, stateVars
<1>2. /\ run[w] \in Execution /\ StoreInv /\ PassedInv /\ ResultsInv
      /\ once' = once /\ pc[w] = "run" /\ used' = used
      /\ used.crash = 0 => ~NonePassed
      /\ Exec(s, run[w], ckpt, once)
  BY <1>1, ExecutionFacts
<1>3. StoreInv' /\ PassedInv'
  <2>1. StoreInv'
    BY <1>1, <1>2, StoreKept
  <2> QED BY <1>1, <1>2, <2>1, PassedKept
<1>4. /\ q.snap = ckpt /\ q.mem = run[w].mem /\ q.cur = run[w].cur /\ q.unit = run[w].unit
      /\ q.step = ReadFor[from]
  BY <1>2 DEF Execution
<1>5. /\ from = "note" => q.step = "noted"
      /\ from = "work" => q.step = "save"
      /\ from = "again" => q.step = "saveAgain"
      /\ from = "ok" => q.step = "complete"
      /\ from = "trace" => q.step = "traced"
  BY <1>4 DEF ReadFor
<1> HIDE DEF q
<1>6. Exec(s, q, ckpt, once)
  <2>1. CASE from = "note"
    BY <1>2, <1>4, <1>5, <2>1 DEF Exec, CopySteps, OpenSteps, UnitSteps
  <2>2. CASE from = "work"
    BY <1>2, <1>4, <1>5, <2>2 DEF Exec, CopySteps, OpenSteps, UnitSteps
  <2>3. CASE from = "again"
    BY <1>2, <1>4, <1>5, <2>3 DEF Exec, CopySteps, OpenSteps, UnitSteps
  <2>4. CASE from = "ok"
    BY <1>2, <1>4, <1>5, <2>4 DEF Exec, CopySteps, OpenSteps, UnitSteps
  <2>5. CASE from = "trace"
    BY <1>2, <1>4, <1>5, <2>5 DEF Exec, CopySteps, OpenSteps, UnitSteps
  <2> QED BY <1>1, <2>1, <2>2, <2>3, <2>4, <2>5
<1>7. used.crash = 0 =>
         /\ build = "complete" /\ results # "success" => s = "finalize" /\ from = "note"
         /\ s = "finalize" => /\ from \in {"work", "ok"} => results = "success"
                              /\ from = "trace" => build = "failed"
  BY <1>1, <1>2 DEF ResultsInv, OneWorker, Executing
<1>8. q.step # "load" /\ (from = "note" <=> q.step = "noted")
      /\ (q.step \in {"work", "save", "ok", "complete"} => from \in {"work", "ok"})
      /\ (q.step \in {"applyFailed", "trace", "traced", "results", "failed"} => from = "trace")
  BY <1>1, <1>5
<1> HIDE DEF from
<1> QED BY <1>1, <1>2, <1>3, <1>6, <1>7, <1>8, Carries

\* Going on to the next unit, on what is stored then.
LEMMA NextAlone ==
    ASSUME NEW s \in Stages, NEW r \in Execution, NEW c, NEW o, r.unit \in {1, 2},
           r.unit \in 1 .. Len(Units[s]),
           r.mem \cap Tracked = c \cap Tracked, Reaches(r.cur, STAGE_TO_PIPELINE_STATE[s]),
           s = "reviewing" => "builder_reviews" \in r.mem,
           s = "repair" /\ r.unit = 2 => "validated_attempts" \in r.mem,
           NEW q, q = At(s, r, r.unit + 1)
    PROVE  /\ Exec(s, q, c, o) /\ q.step \in {"ok", "fail", "enter", "work", "publish"}
           /\ s = "finalize" => q.step \in {"publish", "ok", "fail"}
           /\ s = "finalize" /\ r.unit = 1 => q.step \in {"publish", "fail"}
<1>1. r.unit + 1 \in {1, 2, 3} /\ r.unit + 1 # 1 /\ (r.unit = 1 <=> r.unit + 1 = 2)
      /\ (r.unit = 2 <=> r.unit + 1 = 3)
  OBVIOUS
<1> DEFINE i == r.unit + 1
<1>2. i \in {1, 2, 3} /\ i # 1 /\ (r.unit = 1 <=> i = 2) /\ (r.unit = 2 <=> i = 3) /\ q = At(s, r, i)
  BY <1>1
<1> HIDE DEF i
<1>3. Exec(s, q, c, o)
  BY <1>2, UnitBegins
<1>4. q.step \in {"ok", "fail", "enter", "work", "publish"}
  BY <1>2, AtFacts
<1>5. /\ s = "finalize" /\ i = 2 => q.step \in {"publish", "fail"}
      /\ s = "finalize" /\ i = 3 => q.step = "ok"
  BY <1>2, AtFinalize
<1> QED BY <1>2, <1>3, <1>4, <1>5

\* Writing back a checkpoint with no key changed.
LEMMA NoteAlone ==
    ASSUME OneWorker, IInv, SInv, NEW w \in Workers, WriteNote(w), Observe
    PROVE  SInv'
<1> DEFINE s == task[w]
           r == [run[w] EXCEPT !.snap = {}]
<1>1. /\ Execute(w) /\ UNCHANGED <<build, pstatus, results>>
      /\ run[w].step \in {"noted", "traced"} /\ ckpt' = run[w].snap
  BY DEF Execute, WriteNote, stateVars
<1>2. /\ s \in Stages /\ run[w] \in Execution /\ StoreInv /\ PassedInv /\ ResultsInv
      /\ pc[w] = "run" /\ used' = used
      /\ ckpt' = ckpt => once' = once
      /\ used.crash = 0 => ~NonePassed
      /\ Exec(s, run[w], ckpt, once)
      /\ run[w].step \in UnitSteps =>
            /\ run[w].unit \in {1, 2} /\ run[w].unit \in 1 .. Len(Units[s])
            /\ Placed(s, run[w].unit, UnitOf(w))
  BY <1>1, ExecutionFacts
<1>3. ckpt' = ckpt /\ once' = once
  BY <1>1, <1>2 DEF Exec, CopySteps
<1>4. StoreInv' /\ PassedInv'
  <2>1. StoreInv'
    BY <1>1, <1>2, <1>3, StoreKept
  <2> QED BY <1>1, <1>2, <1>3, <2>1, PassedKept
<1>5. /\ r \in Execution /\ r.mem = run[w].mem /\ r.cur = run[w].cur /\ r.unit = run[w].unit
      /\ r.step = run[w].step
  BY <1>2 DEF Execution, Documents
<1> HIDE DEF r
<1>6. used.crash = 0 =>
         /\ build = "complete" /\ results # "success" => s = "finalize" /\ run[w].step = "noted"
         /\ s = "finalize" /\ run[w].step = "traced" => build = "failed"
  BY <1>1, <1>2 DEF ResultsInv, OneWorker, Executing
<1>7. CASE run[w].step = "noted"
  <2>1. /\ UnitOf(w).first = "enter" /\ UnitOf(w).skip \cap run[w].mem = {}
        /\ run[w].mem \cap Tracked = ckpt \cap Tracked
        /\ Reaches(run[w].cur, STAGE_TO_PIPELINE_STATE[s])
        /\ s = "reviewing" /\ run[w].unit = 2 => "builder_reviews" \in run[w].mem
        /\ s = "novelty" /\ run[w].unit = 1 => "novelty" \notin once
    BY <1>2, <1>7 DEF Exec, UnitOf, OpenSteps, UnitSteps
  <2>2. /\ run[w].unit \in {1, 2} /\ run[w].unit \in 1 .. Len(Units[s])
        /\ Placed(s, run[w].unit, UnitOf(w))
    BY <1>2, <1>7 DEF UnitSteps
  <2>3. s = "finalize" => run[w].unit = 1 /\ ~HasSave(UnitOf(w))
    BY <2>1, <2>2 DEF Placed, HasSave
  <2>4. CASE HasSave(UnitOf(w)) /\ Moves(w, [r EXCEPT !.step = "work"])
    <3> DEFINE q == [r EXCEPT !.step = "work"]
    <3>1. /\ q.step = "work" /\ q.mem = run[w].mem /\ q.cur = run[w].cur /\ q.unit = run[w].unit
          /\ Moves(w, q)
      BY <1>5, <2>4 DEF Execution
    <3> HIDE DEF q
    <3>2. Exec(s, q, ckpt, once)
      BY <2>1, <3>1 DEF Exec, CopySteps, OpenSteps, UnitSteps, UnitOf
    <3> QED BY <1>1, <1>2, <1>3, <1>4, <1>6, <2>3, <2>4, <3>1, <3>2, Carries
  <2>5. CASE ~HasSave(UnitOf(w)) /\ NextUnit(w, r)
    <3> DEFINE q == At(s, r, r.unit + 1)
    <3>1. Moves(w, q)
      BY <2>5 DEF NextUnit
    <3>2. s = "reviewing" => "builder_reviews" \in run[w].mem
      <4>1. s = "reviewing" => run[w].unit # 1
        BY <2>2, <2>5 DEF Placed, HasSave
      <4> QED BY <2>1, <2>2, <4>1
    <3>3. ~(s = "repair" /\ run[w].unit = 2)
      BY <2>2, <2>5 DEF Placed, HasSave
    <3>4. /\ Exec(s, q, ckpt, once) /\ q.step \in {"ok", "fail", "enter", "work", "publish"}
          /\ s = "finalize" => q.step \in {"publish", "fail"}
      BY <1>2, <1>5, <2>1, <2>2, <2>3, <3>2, <3>3, NextAlone
    <3> HIDE DEF q
    <3> QED BY <1>1, <1>2, <1>3, <1>4, <1>6, <3>1, <3>4, Carries
  <2> QED BY <1>7, <2>4, <2>5 DEF WriteNote, r
<1>8. CASE run[w].step = "traced" /\ Moves(w, [r EXCEPT !.step = "results"])
  <2> DEFINE q == [r EXCEPT !.step = "results"]
  <2>1. q.step = "results" /\ q.mem = run[w].mem /\ Moves(w, q)
    BY <1>5, <1>8 DEF Execution
  <2> HIDE DEF q
  <2>2. run[w].mem \cap Tracked = ckpt \cap Tracked
    BY <1>2, <1>8 DEF Exec
  <2>3. Exec(s, q, ckpt, once)
    BY <2>1, <2>2, ExecOutside
  <2> QED BY <1>1, <1>2, <1>3, <1>4, <1>6, <1>8, <2>1, <2>3, Carries
<1> QED BY <1>1, <1>7, <1>8 DEF WriteNote, r

\* The steps that fail a stage, and those that publish the results.
LEMMA EndsAlone ==
    ASSUME OneWorker, IInv, SInv, NEW w \in Workers, Observe,
           WorkFails(w) \/ MarkFailed(w) \/ ApplyFailed(w) \/ SaveFailure(w)
    PROVE  SInv'
<1> DEFINE s == task[w]
<1>1. Execute(w) /\ UNCHANGED ckpt
  BY DEF Execute, WorkFails, MarkFailed, ApplyFailed, SaveFailure
<1>2. /\ run[w] \in Execution /\ StoreInv /\ PassedInv /\ ResultsInv
      /\ pc[w] = "run" /\ used' = used /\ once' = once
      /\ used.crash = 0 /\ run[w].step \notin {"results", "failed"} => ~NonePassed
      /\ Exec(s, run[w], ckpt, once)
  BY <1>1, ExecutionFacts
<1>3. PICK to \in {"fail", "applyFailed", "trace", "failed"} :
         /\ Moves(w, [run[w] EXCEPT !.step = to])
         /\ \/ /\ to = "fail" /\ run[w].step \in {"work", "publish", "publishResults"}
               /\ UNCHANGED <<build, pstatus, results>>
            \/ /\ to = "applyFailed" /\ run[w].step = "fail"
               /\ build' = "failed" /\ UNCHANGED pstatus
            \/ /\ to = "trace" /\ run[w].step = "applyFailed"
               /\ build' = "failed" /\ pstatus' = "failed"
            \/ /\ to = "failed" /\ run[w].step = "results"
               /\ build' = "failed" /\ UNCHANGED pstatus
  BY DEF WorkFails, MarkFailed, ApplyFailed, SaveFailure, Step, Apply, stateVars
<1> DEFINE q == [run[w] EXCEPT !.step = to]
<1>4. q.step = to /\ q.mem = run[w].mem /\ Moves(w, q)
  BY <1>2, <1>3 DEF Execution
<1> HIDE DEF q
<1>5. run[w].mem \cap Tracked = ckpt \cap Tracked
  BY <1>2, <1>3 DEF Exec
<1>6. Exec(s, q, ckpt, once)
  BY <1>3, <1>4, <1>5, ExecOutside
<1>7. StoreInv'
  BY <1>1, <1>2, <1>3, StoreKept
<1>8. PassedInv'
  <2>1. pc'[w] = "run" /\ run'[w] = q
    BY <1>1, <1>2, <1>4, ExecuteWrites DEF Moves, IInv, TypeOK, Rest, workerVars
  <2>2. CASE to = "failed"
    <3>1. Over(w)' /\ build' = "failed"
      BY <1>3, <1>4, <2>1, <2>2 DEF Over
    <3> QED BY <1>1, <1>2, <3>1, PassedKept
  <2>3. CASE to # "failed"
    BY <1>1, <1>2, <1>3, <2>3, PassedKept
  <2> QED BY <2>2, <2>3
<1>9. used.crash = 0 /\ build' = "complete" /\ results' # "success" => s = "finalize" /\ to = "fail"
  BY <1>1, <1>2, <1>3 DEF ResultsInv, OneWorker, Executing
<1> QED BY <1>1, <1>2, <1>3, <1>4, <1>6, <1>7, <1>8, <1>9, Carries

\* Publishing: the build is shown complete, then its results are stored.
LEMMA PublishAlone ==
    ASSUME OneWorker, IInv, SInv, NEW w \in Workers, Observe,
           Publish(w) \/ PublishResults(w)
    PROVE  SInv'
<1> DEFINE s == task[w]
<1>1. Execute(w) /\ UNCHANGED <<ckpt, pstatus>> /\ build' = "complete"
  BY DEF Execute, Publish, PublishResults
<1>2. /\ run[w] \in Execution /\ StoreInv /\ PassedInv /\ UnitInv
      /\ pc[w] = "run" /\ used' = used /\ once' = once
      /\ used.crash = 0 /\ run[w].step \notin {"results", "failed"} => ~NonePassed
      /\ Exec(s, run[w], ckpt, once)
  BY <1>1, ExecutionFacts
<1>3. PICK to \in {"publishResults", "fail", "work"} :
         /\ Moves(w, [run[w] EXCEPT !.step = to])
         /\ run[w].step \in {"publish", "publishResults"}
         /\ to = "work" => results' = "success"
  BY DEF Publish, PublishResults, Step
<1>4. s = "finalize"
  BY <1>2, <1>3 DEF UnitInv, InUnit, UnitSteps
<1> DEFINE q == [run[w] EXCEPT !.step = to]
<1>5. q.step = to /\ q.mem = run[w].mem /\ q.unit = run[w].unit /\ q.cur = run[w].cur /\ Moves(w, q)
  BY <1>2, <1>3 DEF Execution
<1> HIDE DEF q
<1>6. Exec(s, q, ckpt, once)
  <2>1. CASE to = "publishResults"
    BY <1>2, <1>3, <1>4, <1>5, <2>1 DEF Exec, CopySteps, OpenSteps, UnitSteps
  <2>2. CASE to = "work"
    BY <1>2, <1>3, <1>4, <1>5, <2>2 DEF Exec, CopySteps, OpenSteps, UnitSteps
  <2>3. CASE to = "fail"
    BY <1>2, <1>3, <1>4, <1>5, <2>3 DEF Exec, CopySteps, OpenSteps, UnitSteps
  <2> QED BY <2>1, <2>2, <2>3
<1>7. StoreInv'
  BY <1>1, <1>2, StoreKept
<1>8. PassedInv'
  BY <1>1, <1>2, <1>3, PassedKept
<1> QED BY <1>1, <1>2, <1>3, <1>4, <1>5, <1>6, <1>7, <1>8, Carries

-----------------------------------------------------------------------------
(* Saves.                                                                  *)

\* No key is a stage, and the required keys that may be cleared are two.
LEMMA KeyFacts ==
    /\ Tracked \cap Stages = {} /\ Cleared \cap Stages = {} /\ PlanKeys \cap Stages = {}
    /\ PlanKeys \subseteq Tracked
    /\ {"validated_attempts", "attempts_passed", "all_attempts", "builder_reviews",
        "ranked_builds"} \subseteq Tracked
    /\ {"validated_attempts", "all_attempts", "builder_reviews"} \cap Cleared = {}
    /\ {"validated_attempts", "all_attempts", "builder_reviews", "attempts_passed"}
          \cap (Stages \cup PlanKeys) = {}
    /\ \A k \in Cleared \cap DOMAIN Home : k \in {"ranked_builds", "final_code"}
    /\ Home["final_code"] = "novelty"
<1>1. /\ Tracked \cap Stages = {} /\ Cleared \cap Stages = {} /\ PlanKeys \cap Stages = {}
      /\ PlanKeys \subseteq Tracked
  BY StageNames DEF Tracked, Cleared, PlanKeys
<1>2. /\ {"validated_attempts", "attempts_passed", "all_attempts", "builder_reviews",
          "ranked_builds"} \subseteq Tracked
      /\ {"validated_attempts", "all_attempts", "builder_reviews"} \cap Cleared = {}
  BY DEF Tracked, Cleared
<1>3. {"validated_attempts", "all_attempts", "builder_reviews", "attempts_passed"}
         \cap (Stages \cup PlanKeys) = {}
  BY StageNames DEF PlanKeys
<1>4. \A k \in Cleared \cap DOMAIN Home : k \in {"ranked_builds", "final_code"}
  BY HomePlaces DEF Cleared
<1>5. Home["final_code"] = "novelty"
  BY DEF Home
<1> QED BY <1>1, <1>2, <1>3, <1>4, <1>5

\* A save of unit u on what is stored: the copy stays what is stored, no stage
\* that has been done is lost, and the attempts stay validated.
LEMMA SavedAlone ==
    ASSUME NEW s \in Stages, NEW i, NEW u, Careful(s, i, u), NEW m, NEW c, NEW o, NEW y,
           m \cap Tracked = c \cap Tracked, u.skip \cap m = {}, y \subseteq u.may,
           s = "novelty" /\ i = 1 => "novelty" \notin o,
           o \subseteq DoneIn(c), "validated_attempts" \in c => "all_attempts" \in c,
           NEW m2, m2 = Saved(u, m, y),
           NEW c2, c2 = Saved(u, c, y) \cup (m2 \cap PlanKeys) \cup u.mark
    PROVE  /\ m2 \cap Tracked = c2 \cap Tracked
           /\ o \subseteq DoneIn(c2)
           /\ "validated_attempts" \in c2 => "all_attempts" \in c2
           /\ "builder_reviews" \in c => "builder_reviews" \in c2
           /\ "builder_reviews" \in m => "builder_reviews" \in m2
           /\ u.saves \subseteq m2
           /\ ("validated_attempts" \in c => "attempts_passed" \in c) =>
                 /\ "repair" \in c2 => "repair" \in c
                 /\ "validated_attempts" \in c =>
                       {"validated_attempts", "attempts_passed"} \subseteq c2
                 /\ "validated_attempts" \in c2 /\ "attempts_passed" \notin c2 =>
                       s = "repair" /\ ~(u.must \subseteq y)
<1>1. \A k : k \in m2 <=> k \in u.saves \/ k \in y \/ (k \in m /\ k \notin Clears(u))
  BY DEF Saved, Clears
<1>2. \A k : k \in c2 <=> \/ k \in u.saves \/ k \in y \/ (k \in c /\ k \notin Clears(u))
                          \/ (k \in m2 /\ k \in PlanKeys) \/ k \in u.mark
  BY DEF Saved, Clears
<1>3. /\ u.skip \subseteq Tracked /\ Clears(u) \subseteq Cleared /\ y \subseteq Clears(u)
      /\ "ranked_builds" \in Clears(u) => "ranked_builds" \in u.skip
      /\ "final_code" \in Clears(u) => s = "novelty" /\ i = 1
      /\ "attempts_passed" \in Clears(u) =>
            "all_attempts" \in u.skip \/ "validated_attempts" \in u.skip
      /\ "validated_attempts" \in u.saves =>
            s = "repair" /\ "all_attempts" \in u.saves /\ "attempts_passed" \in u.must
      /\ u.saves \cap Stages = {} /\ y \cap Stages = {} /\ u.mark \subseteq Stages \ {"repair"}
  BY DEF Careful, Clears
<1>4. u.skip \cap c = {}
  BY <1>3
<1>5. m2 \cap Tracked = c2 \cap Tracked
  <2>1. ASSUME NEW k \in Tracked PROVE k \in m2 <=> k \in c2
    <3>1. k \notin u.mark
      BY <1>3, KeyFacts
    <3>2. k \in m <=> k \in c
      OBVIOUS
    <3> QED BY <1>1, <1>2, <3>1, <3>2
  <2> QED BY <2>1
<1>6. ASSUME NEW k \in c, k \notin Cleared PROVE k \in c2
  BY <1>2, <1>3, <1>6
<1>7. ASSUME NEW t \in o PROVE t \in DoneIn(c2)
  <2>1. t \in Stages /\ t \in c /\ REQUIRED_KEYS[t] \subseteq c
    BY <1>7 DEF DoneIn
  <2>2. t \in c2
    BY <1>6, <2>1, KeyFacts
  <2>3. ASSUME NEW k \in REQUIRED_KEYS[t] PROVE k \in c2
    <3>1. k \in c /\ k \in DOMAIN Home /\ Home[k] = t
      BY <2>1, HomeKeys
    <3>2. CASE k \in Clears(u)
      <4>1. k \in {"ranked_builds", "final_code"}
        BY <1>3, <3>1, <3>2, KeyFacts
      <4>2. k # "ranked_builds"
        BY <1>3, <1>4, <3>1, <3>2
      <4>3. k # "final_code"
        BY <1>3, <1>7, <3>1, <3>2, KeyFacts
      <4> QED BY <4>1, <4>2, <4>3
    <3> QED BY <1>2, <3>1, <3>2
  <2> QED BY <2>1, <2>2, <2>3 DEF DoneIn
<1>8. "validated_attempts" \in c2 => "validated_attempts" \in c \/ "validated_attempts" \in u.saves
  BY <1>2, <1>3, KeyFacts
<1>9. "validated_attempts" \in c2 => "all_attempts" \in c2
  BY <1>2, <1>3, <1>6, <1>8, KeyFacts
<1>10. /\ "builder_reviews" \in c => "builder_reviews" \in c2
       /\ "builder_reviews" \in m => "builder_reviews" \in m2
  BY <1>1, <1>3, <1>6, KeyFacts
<1>11. u.saves \subseteq m2
  BY <1>1
<1>12. ASSUME "validated_attempts" \in c => "attempts_passed" \in c
       PROVE  /\ "repair" \in c2 => "repair" \in c
              /\ "validated_attempts" \in c =>
                    {"validated_attempts", "attempts_passed"} \subseteq c2
              /\ "validated_attempts" \in c2 /\ "attempts_passed" \notin c2 =>
                    s = "repair" /\ ~(u.must \subseteq y)
  <2>1. "repair" \in c2 => "repair" \in c
    <3>1. "repair" \in Stages
      BY StageNames
    <3> QED BY <1>2, <1>3, <3>1, KeyFacts
  <2>2. ASSUME "validated_attempts" \in c
        PROVE  {"validated_attempts", "attempts_passed"} \subseteq c2
    <3>1. "attempts_passed" \notin Clears(u)
      BY <1>3, <1>4, <2>2
    <3>2. "attempts_passed" \in c2
      BY <1>2, <1>12, <2>2, <3>1
    <3>3. "validated_attempts" \in c2
      BY <1>6, <2>2, KeyFacts
    <3> QED BY <3>2, <3>3
  <2>3. ASSUME "validated_attempts" \in c2, "attempts_passed" \notin c2
        PROVE  s = "repair" /\ ~(u.must \subseteq y)
    <3>1. "validated_attempts" \in u.saves
      BY <1>8, <2>2, <2>3
    <3>2. "attempts_passed" \notin y
      BY <1>2, <2>3
    <3> QED BY <1>3, <3>1, <3>2
  <2> QED BY <2>1, <2>2, <2>3
<1> QED BY <1>5, <1>7, <1>9, <1>10, <1>11, <1>12

\* What a save leaves of the stored facts, when it loses nothing.
LEMMA StoreSaved ==
    ASSUME IInv, StoreInv, Observe, UNCHANGED <<build, pstatus>>,
           once \subseteq DoneIn(ckpt'),
           "validated_attempts" \in ckpt' => "all_attempts" \in ckpt',
           "builder_reviews" \in ckpt => "builder_reviews" \in ckpt'
    PROVE  StoreInv' /\ once \subseteq once' /\ once' = DoneIn(ckpt')
<1>1. once' = DoneIn(ckpt')
  BY DEF Observe
<1> QED BY <1>1 DEF StoreInv

\* Saving the work of a unit.
LEMMA SaveAlone ==
    ASSUME OneWorker, IInv, SInv, NEW w \in Workers, Save(w), Observe
    PROVE  SInv'
<1> DEFINE s == task[w]
           u == UnitOf(w)
           i == run[w].unit
<1>1. /\ Execute(w) /\ UNCHANGED <<build, pstatus, results>> /\ run[w].step = "save"
  BY DEF Execute, Save, stateVars
<1>2. /\ s \in Stages /\ run[w] \in Execution /\ StoreInv /\ PassedInv /\ ResultsInv
      /\ pc[w] = "run" /\ used' = used
      /\ used.crash = 0 => ~NonePassed
      /\ Exec(s, run[w], ckpt, once)
      /\ i \in {1, 2} /\ i \in 1 .. Len(Units[s])
      /\ IsUnit(s, u) /\ Careful(s, i, u) /\ Placed(s, i, u)
  BY <1>1, ExecutionFacts DEF UnitSteps
<1>3. /\ run[w].snap = ckpt /\ u.skip \cap run[w].mem = {}
      /\ run[w].mem \cap Tracked = ckpt \cap Tracked
      /\ Reaches(run[w].cur, STAGE_TO_PIPELINE_STATE[s])
      /\ s = "reviewing" /\ i = 2 => "builder_reviews" \in run[w].mem
      /\ s = "novelty" /\ i = 1 => "novelty" \notin once
  BY <1>1, <1>2 DEF Exec, UnitOf, OpenSteps, UnitSteps, CopySteps
<1> DEFINE m(y) == Saved(u, run[w].mem, y)
           r(y) == [run[w] EXCEPT !.mem = m(y), !.snap = {}]
<1>4. PICK y \in SUBSET u.may :
         /\ ckpt' = Saved(u, ckpt, y) \cup (r(y).mem \cap PlanKeys) \cup u.mark
         /\ \/ ~(u.must \subseteq y) /\ Moves(w, [r(y) EXCEPT !.step = "results"])
            \/ u.must \subseteq y /\ u.again # {} /\ Moves(w, [r(y) EXCEPT !.step = "again"])
            \/ u.must \subseteq y /\ u.again = {} /\ NextUnit(w, r(y))
  BY <1>3 DEF Save
<1>5. m(y) \in Documents
  BY <1>1, <1>2, InItsUnit DEF Saved, Execution, Documents, IInv, UnitSteps
<1>6. /\ r(y) \in Execution /\ r(y).mem = m(y) /\ r(y).cur = run[w].cur /\ r(y).unit = i
  BY <1>2, <1>5 DEF Execution, Documents
<1>7. ckpt' = Saved(u, ckpt, y) \cup (m(y) \cap PlanKeys) \cup u.mark
  BY <1>4, <1>6
<1>8. /\ m(y) \cap Tracked = ckpt' \cap Tracked
      /\ once \subseteq DoneIn(ckpt')
      /\ "validated_attempts" \in ckpt' => "all_attempts" \in ckpt'
      /\ "builder_reviews" \in ckpt => "builder_reviews" \in ckpt'
      /\ "builder_reviews" \in run[w].mem => "builder_reviews" \in m(y)
      /\ u.saves \subseteq m(y)
      /\ ("validated_attempts" \in ckpt => "attempts_passed" \in ckpt) =>
            /\ "repair" \in ckpt' => "repair" \in ckpt
            /\ "validated_attempts" \in ckpt =>
                  {"validated_attempts", "attempts_passed"} \subseteq ckpt'
            /\ "validated_attempts" \in ckpt' /\ "attempts_passed" \notin ckpt' =>
                  s = "repair" /\ ~(u.must \subseteq y)
  <2>1. once \subseteq DoneIn(ckpt) /\ ("validated_attempts" \in ckpt => "all_attempts" \in ckpt)
    BY <1>2 DEF StoreInv
  <2> DEFINE m2 == m(y)
             c2 == ckpt'
  <2>2. m2 = Saved(u, run[w].mem, y) /\ c2 = Saved(u, ckpt, y) \cup (m2 \cap PlanKeys) \cup u.mark
    BY <1>7
  <2>3. y \subseteq u.may /\ Careful(s, i, u) /\ s \in Stages
    BY <1>2
  <2> SUFFICES
        /\ m2 \cap Tracked = c2 \cap Tracked
        /\ once \subseteq DoneIn(c2)
        /\ "validated_attempts" \in c2 => "all_attempts" \in c2
        /\ "builder_reviews" \in ckpt => "builder_reviews" \in c2
        /\ "builder_reviews" \in run[w].mem => "builder_reviews" \in m2
        /\ u.saves \subseteq m2
        /\ ("validated_attempts" \in ckpt => "attempts_passed" \in ckpt) =>
              /\ "repair" \in c2 => "repair" \in ckpt
              /\ "validated_attempts" \in ckpt =>
                    {"validated_attempts", "attempts_passed"} \subseteq c2
              /\ "validated_attempts" \in c2 /\ "attempts_passed" \notin c2 =>
                    s = "repair" /\ ~(u.must \subseteq y)
    OBVIOUS
  <2> HIDE DEF u, i, s, m2, c2
  <2> QED BY <1>3, <2>1, <2>2, <2>3, SavedAlone
<1> HIDE DEF m
<1> DEFINE p == r(y)
<1>9. /\ p \in Execution /\ p.mem = m(y) /\ p.cur = run[w].cur /\ p.unit = i
      /\ \/ ~(u.must \subseteq y) /\ Moves(w, [p EXCEPT !.step = "results"])
         \/ u.must \subseteq y /\ u.again # {} /\ Moves(w, [p EXCEPT !.step = "again"])
         \/ u.must \subseteq y /\ u.again = {} /\ NextUnit(w, p)
  BY <1>4, <1>6
<1> HIDE DEF p
<1>10. StoreInv'
  BY <1>1, <1>2, <1>8, StoreSaved DEF IInv
<1>11. ASSUME used.crash = 0
       PROVE  /\ "repair" \in ckpt' => {"validated_attempts", "attempts_passed"} \subseteq ckpt'
              /\ NonePassed' => s = "repair" /\ ~(u.must \subseteq y)
  BY <1>2, <1>8, <1>11 DEF NonePassed, PassedInv
<1>12. used.crash = 0 /\ s = "finalize" => results = "success"
  BY <1>1, <1>2 DEF ResultsInv, Executing
<1>13. used.crash = 0 => ~(build = "complete" /\ results # "success")
  BY <1>1, <1>2 DEF ResultsInv, OneWorker, Executing
<1>14. CASE ~(u.must \subseteq y) /\ Moves(w, [p EXCEPT !.step = "results"])
  <2> DEFINE q == [p EXCEPT !.step = "results"]
  <2>1. q.step = "results" /\ q.mem = m(y) /\ Moves(w, q)
    BY <1>9, <1>14 DEF Execution
  <2> HIDE DEF q
  <2>2. Exec(s, q, ckpt', once')
    BY <1>8, <2>1, ExecOutside
  <2>3. pc'[w] = "run" /\ task'[w] = s /\ run'[w] = q
    BY <1>1, <1>2, <2>1, ExecuteWrites DEF Moves, IInv, TypeOK, Rest, workerVars
  <2>4. PassedInv'
    <3>1. ASSUME used'.crash = 0, NonePassed'
          PROVE  Executing(w, "repair")' /\ run'[w].step = "results"
      BY <1>2, <1>11, <2>1, <2>3, <3>1 DEF Executing
    <3> QED BY <1>2, <1>11, <3>1 DEF PassedInv
  <2>5. s # "finalize"
    BY <1>2, <1>14 DEF Placed
  <2> QED BY <1>1, <1>2, <1>10, <1>13, <2>1, <2>2, <2>4, <2>5, Carries
<1>15. ASSUME u.must \subseteq y PROVE PassedInv'
  BY <1>2, <1>11, <1>15 DEF PassedInv
<1>16. CASE u.must \subseteq y /\ u.again # {} /\ Moves(w, [p EXCEPT !.step = "again"])
  <2> DEFINE q == [p EXCEPT !.step = "again"]
  <2>1. /\ q.step = "again" /\ q.mem = m(y) /\ q.cur = run[w].cur /\ q.unit = i /\ Moves(w, q)
    BY <1>9, <1>16 DEF Execution
  <2> HIDE DEF q
  <2>2. s = "planning" /\ u.again \subseteq m(y)
    BY <1>2, <1>8, <1>16 DEF Careful, IsUnit
  <2>3. Exec(s, q, ckpt', once')
    BY <1>3, <1>8, <2>1, <2>2 DEF Exec, CopySteps, OpenSteps, UnitSteps, UnitOf
  <2> QED BY <1>1, <1>2, <1>10, <1>13, <1>15, <1>16, <2>1, <2>2, <2>3, Carries
<1>17. CASE u.must \subseteq y /\ u.again = {} /\ NextUnit(w, p)
  <2> DEFINE q == At(s, p, p.unit + 1)
  <2>1. Moves(w, q)
    BY <1>17 DEF NextUnit
  <2>2. s = "reviewing" => "builder_reviews" \in m(y)
    BY <1>2, <1>3, <1>8 DEF Placed
  <2>3. s = "repair" /\ i = 2 => "validated_attempts" \in m(y)
    BY <1>2, <1>8 DEF Placed
  <2>4. /\ Exec(s, q, ckpt', once') /\ q.step \in {"ok", "fail", "enter", "work", "publish"}
        /\ s = "finalize" => q.step \in {"publish", "ok", "fail"}
    <3> DEFINE c2 == ckpt'
               o2 == once'
    <3>1. /\ p.mem \cap Tracked = c2 \cap Tracked /\ Reaches(p.cur, STAGE_TO_PIPELINE_STATE[s])
          /\ p \in Execution /\ p.unit \in {1, 2} /\ p.unit \in 1 .. Len(Units[s]) /\ s \in Stages
          /\ s = "reviewing" => "builder_reviews" \in p.mem
          /\ s = "repair" /\ p.unit = 2 => "validated_attempts" \in p.mem
      BY <1>2, <1>3, <1>8, <1>9, <2>2, <2>3
    <3> SUFFICES /\ Exec(s, q, c2, o2) /\ q.step \in {"ok", "fail", "enter", "work", "publish"}
                 /\ s = "finalize" => q.step \in {"publish", "ok", "fail"}
      OBVIOUS
    <3> HIDE DEF s, u, i, c2, o2
    <3> QED BY <3>1, NextAlone
  <2> HIDE DEF q
  <2> QED BY <1>1, <1>2, <1>10, <1>12, <1>13, <1>15, <1>17, <2>1, <2>4, Carries
<1> QED BY <1>9, <1>14, <1>16, <1>17

\* Saving a plan once more.
LEMMA SaveAgainAlone ==
    ASSUME OneWorker, IInv, SInv, NEW w \in Workers, SaveAgain(w), Observe
    PROVE  SInv'
<1> DEFINE s == task[w]
           u == UnitOf(w)
           p == [run[w] EXCEPT !.snap = {}]
<1>1. /\ Execute(w) /\ UNCHANGED <<build, pstatus, results>> /\ run[w].step = "saveAgain"
      /\ ckpt' = run[w].snap \cup u.again /\ NextUnit(w, p)
  BY DEF Execute, SaveAgain, stateVars
<1>2. /\ s \in Stages /\ run[w] \in Execution /\ StoreInv /\ PassedInv /\ ResultsInv
      /\ pc[w] = "run" /\ used' = used
      /\ used.crash = 0 => ~NonePassed
      /\ Exec(s, run[w], ckpt, once)
      /\ run[w].unit \in {1, 2} /\ run[w].unit \in 1 .. Len(Units[s])
      /\ IsUnit(s, u) /\ Careful(s, run[w].unit, u)
  BY <1>1, ExecutionFacts DEF UnitSteps
<1>3. /\ run[w].snap = ckpt /\ run[w].mem \cap Tracked = ckpt \cap Tracked
      /\ Reaches(run[w].cur, STAGE_TO_PIPELINE_STATE[s])
      /\ s = "planning" /\ u.again \subseteq run[w].mem
  BY <1>1, <1>2 DEF Exec, UnitOf, OpenSteps, UnitSteps, CopySteps
<1>4. /\ p \in Execution /\ p.mem = run[w].mem /\ p.cur = run[w].cur /\ p.unit = run[w].unit
  BY <1>2 DEF Execution, Documents
<1> HIDE DEF p
<1>5. u.again \cap Stages = {} /\ "validated_attempts" \notin u.again
  BY <1>2, <1>3 DEF IsUnit, Careful
<1> HIDE DEF u
<1>6. /\ ckpt \subseteq ckpt' /\ run[w].mem \cap Tracked = ckpt' \cap Tracked
      /\ "repair" \in ckpt' => "repair" \in ckpt
      /\ "validated_attempts" \in ckpt' => "validated_attempts" \in ckpt
  <2>1. ckpt' = ckpt \cup u.again /\ "repair" \in Stages
    BY <1>1, <1>3, StageNames
  <2> QED BY <1>3, <1>5, <2>1
<1>7. StoreInv'
  <2>1. once \subseteq DoneIn(ckpt')
    BY <1>2, <1>6 DEF StoreInv, DoneIn
  <2>2. "validated_attempts" \in ckpt' => "all_attempts" \in ckpt'
    BY <1>2, <1>6 DEF StoreInv
  <2> QED BY <1>1, <1>2, <1>6, <2>1, <2>2, StoreSaved
<1>8. PassedInv'
  <2>1. used.crash = 0 => ~NonePassed'
    BY <1>2, <1>6 DEF NonePassed
  <2> QED BY <1>2, <1>6, <2>1 DEF PassedInv
<1>9. used.crash = 0 => ~(build = "complete" /\ results # "success")
  BY <1>1, <1>2 DEF ResultsInv, OneWorker, Executing
<1> DEFINE q == At(s, p, p.unit + 1)
<1>10. Moves(w, q)
  BY <1>1 DEF NextUnit
<1>11. Exec(s, q, ckpt', once') /\ q.step \in {"ok", "fail", "enter", "work", "publish"}
  <2> DEFINE c2 == ckpt'
             o2 == once'
  <2>1. /\ p.mem \cap Tracked = c2 \cap Tracked /\ Reaches(p.cur, STAGE_TO_PIPELINE_STATE[s])
        /\ p \in Execution /\ p.unit \in {1, 2} /\ p.unit \in 1 .. Len(Units[s])
        /\ s \in Stages /\ s = "planning"
    BY <1>2, <1>3, <1>4, <1>6
  <2> SUFFICES Exec(s, q, c2, o2) /\ q.step \in {"ok", "fail", "enter", "work", "publish"}
    OBVIOUS
  <2> HIDE DEF s, c2, o2
  <2> QED BY <2>1, NextAlone
<1> HIDE DEF q
<1> QED BY <1>1, <1>2, <1>3, <1>7, <1>8, <1>9, <1>10, <1>11, Carries

\* Every step of an execution.
LEMMA ExecuteAlone ==
    ASSUME OneWorker, IInv, SInv, NEW w \in Workers, Execute(w), Observe
    PROVE  SInv'
  BY LoadAlone, EnterAlone, ReadAlone, NoteAlone, SaveAlone, SaveAgainAlone, EndsAlone, PublishAlone
     DEF Execute

-----------------------------------------------------------------------------
(* The steps around an execution.                                          *)

\* The bounds that are used.
LEMMA UsedTypes ==
    IInv => /\ used \in [DOMAIN Bound -> Nat] /\ DOMAIN Bound = {"boot", "crash", "dispatch"}
            /\ used.boot \in Nat /\ used.crash \in Nat /\ used.dispatch \in Nat
  BY DEF IInv, TypeOK, Bound

\* A worker that is not executing is in none of the cases of an execution.
LEMMA Idles ==
    ASSUME OneWorker, IInv, SInv, NEW w \in Workers, pc[w] # "run"
    PROVE  /\ run[w].step \in {"none", "failBuild"}
           /\ used.crash = 0 /\ NonePassed => build = "failed" /\ Over(w)
           /\ used.crash = 0 => ~(build = "complete" /\ results # "success")
<1>1. run[w].step \in {"none", "failBuild"}
  BY DEF IInv, TypeOK
<1>2. \A v \in Workers : ~(pc[v] = "run")
  BY DEF OneWorker
<1>3. used.crash = 0 /\ NonePassed => build = "failed" /\ Over(w)
  BY <1>2 DEF SInv, PassedInv, Executing
<1>4. used.crash = 0 => ~(build = "complete" /\ results # "success")
  BY <1>2 DEF SInv, ResultsInv, Executing
<1> QED BY <1>1, <1>3, <1>4

\* A step of a worker that is not executing and stores at most a failure.
LEMMA AroundAlone ==
    ASSUME OneWorker, IInv, SInv, NEW w \in Workers, Observe, pc[w] # "run", pc'[w] # "run",
           UNCHANGED <<ckpt, results, used>>,
           run'[w].step \in {"none", "failBuild"},
           \/ build' = "failed" /\ pstatus' \in {pstatus, "failed"}
           \/ UNCHANGED <<build, pstatus>>,
           Over(w) /\ build = "failed" => Over(w)',
           QuietInv', BeginInv'
    PROVE  SInv'
<1>1. once' = once
  BY OnceKept
<1>2. ExecInv'
  BY ExecNone
<1>3. StoreInv'
  BY <1>1, StoreKept DEF SInv
<1>4. used.crash = 0 /\ NonePassed => build' = "failed" /\ Over(w)'
  BY Idles
<1>5. PassedInv'
  BY <1>4, PassedKept DEF SInv
<1>6. ResultsInv'
  <2>1. \A v \in Workers : ~(pc'[v] = "run")
    BY DEF OneWorker
  <2>2. used'.crash = 0 => ~(build' = "complete" /\ results' # "success")
    BY Idles
  <2> QED BY <2>1, <2>2 DEF ResultsInv, Executing
<1> QED BY <1>2, <1>3, <1>5, <1>6 DEF SInv

\* A build that has been sent stays so.
LEMMA SentQuiet ==
    ASSUME SInv, sent # {}, used'.dispatch = used.dispatch, sent \subseteq sent', UNCHANGED prep
    PROVE  QuietInv'
  BY DEF SInv, QuietInv

\* The worker's program counter.
LEMMA PcAt ==
    ASSUME IInv, NEW w \in Workers, NEW c, pc' = [pc EXCEPT ![w] = c]
    PROVE  pc'[w] = c
  BY DEF IInv, TypeOK, L!TypeOK

\* A worker that leaves is idle.
LEMMA LeavesAt ==
    ASSUME IInv, NEW w \in Workers, L!Leave(w)
    PROVE  pc'[w] = "idle"
  BY PcAt DEF L!Leave

\* Receiving a stage.
LEMMA ReceiveAlone ==
    ASSUME OneWorker, IInv, SInv, NEW w \in Workers, NEW s \in Stages, Receive(w, s), Observe
    PROVE  SInv'
<1>1. /\ pc[w] = "idle" /\ pc'[w] = "check" /\ s \in sent
      /\ UNCHANGED <<ckpt, results, used, pstatus, build, run, sent, prep>>
  BY PcAt DEF Receive, L!Receive, L!Goto, L!buildVars, inputVars
<1>2. run[w].step \in {"none", "failBuild"}
  BY <1>1, Idles
<1>3. QuietInv'
  BY <1>1, SentQuiet
<1>4. BeginInv'
  BY <1>1, <1>2, BeginKept
<1>5. Over(w)'
  BY <1>1 DEF Over
<1> QED BY <1>1, <1>2, <1>3, <1>4, <1>5, AroundAlone

\* The lease steps before and after an execution.
LEMMA BetweenAlone ==
    ASSUME OneWorker, IInv, SInv, NEW w \in Workers, Observe,
           CheckTerminal(w) \/ BeginStage(w) \/ EndStage(w)
    PROVE  SInv'
<1>1. /\ UNCHANGED <<ckpt, results, used, pstatus, build, run, sent>> /\ pc[w] # "idle"
      /\ Between(w)
  BY DEF CheckTerminal, BeginStage, EndStage, inputVars, L!CheckTerminal, L!ReadRow, L!Reset,
     L!Refuse, L!Refused, L!Verify, L!Fail, L!FailStage, L!FailWrite, L!buildVars, L!Goto, Between
<1>2. UNCHANGED prep
  <2>1. pstatus # "interrupted"
    BY LinearIndices DEF SInv, StoreInv
  <2> QED BY <2>1 DEF CheckTerminal, BeginStage, EndStage
<1>3. /\ pc[w] # "run" /\ pc'[w] # "run" /\ (pc'[w] # "idle" => task'[w] = task[w])
  BY <1>1, LeaseMoves DEF IInv
<1>4. run[w].step \in {"none", "failBuild"}
  BY <1>3, Idles
<1>5. QuietInv'
  BY <1>1, <1>2, QuietKept
<1>6. L!Terminal(task[w]) \/ (build \in ActiveStates /\ task[w] \notin once)
  <2>1. build \in PipelineStates /\ once \subseteq DoneIn(ckpt)
    BY StoredBefore DEF SInv, StoreInv, DataOK
  <2> QED BY <2>1 DEF L!Terminal, L!Done, L!Ended, ActiveStates
<1>7. build = "failed" => L!Terminal(task[w])
  BY DEF L!Terminal, L!Ended
<1>8. CASE CheckTerminal(w)
  <2>1. pc[w] = "check" /\ pc'[w] = IF L!Terminal(task[w]) THEN "chain" ELSE "read"
    BY <1>8, PcAt DEF CheckTerminal, L!CheckTerminal, L!Goto
  <2>2. BeginInv'
    <3> QED BY <1>1, <1>3, <1>4, <1>6, <2>1, OnceKept DEF BeginInv, OneWorker
  <2>3. Over(w) /\ build = "failed" => Over(w)'
    BY <1>7, <2>1 DEF Over
  <2> QED BY <1>1, <1>3, <1>4, <1>5, <2>2, <2>3, AroundAlone
<1>9. CASE BeginStage(w)
  <2>1. /\ pc[w] \in {"read", "reset", "acquire", "refused"}
        /\ pc[w] \in {"read", "reset"} \/ pc'[w] \notin {"read", "reset", "acquire"}
    BY <1>9, PcAt, LeavesAt
       DEF BeginStage, L!ReadRow, L!Reset, L!Refuse, L!Refused, L!Goto
  <2>2. BeginInv'
    <3>1. pc[w] \in {"read", "reset", "acquire"} => build \in ActiveStates /\ task[w] \notin once
      BY DEF SInv, BeginInv
    <3> QED BY <1>1, <1>3, <1>4, <2>1, <3>1, OnceKept DEF BeginInv, OneWorker
  <2>3. ~Over(w)
    BY <1>3, <2>1 DEF Over
  <2> QED BY <1>1, <1>3, <1>4, <1>5, <2>2, <2>3, AroundAlone
<1>10. CASE EndStage(w)
  <2>1. /\ pc[w] \in {"verify", "fail", "failStage", "failWrite"}
        /\ pc'[w] \notin {"read", "reset", "acquire"}
        /\ pc[w] = "fail" /\ L!Terminal(task[w]) => pc'[w] = "idle"
    BY <1>10, PcAt, LeavesAt DEF EndStage, L!Verify, L!Fail, L!FailStage, L!FailWrite, L!Goto
  <2>2. BeginInv'
    BY <1>1, <1>4, <2>1, BeginKept
  <2>3. Over(w) /\ build = "failed" => Over(w)'
    BY <1>3, <1>7, <2>1 DEF Over
  <2> QED BY <1>1, <1>3, <1>4, <1>5, <2>2, <2>3, AroundAlone
<1> QED BY <1>8, <1>9, <1>10

\* Failing the build, and sending the next stage.
LEMMA AfterAlone ==
    ASSUME OneWorker, IInv, SInv, NEW w \in Workers, Observe,
           FailBuildStatus(w) \/ FailBuild(w) \/ Chain(w)
    PROVE  SInv'
<1>1. /\ UNCHANGED <<ckpt, results, used>> /\ pc[w] \in {"failBuild", "chain"}
      /\ sent \subseteq sent' /\ UNCHANGED prep
  BY DEF FailBuildStatus, FailBuild, Chain, L!FailBuild, L!Chain, inputVars
<1>2. QuietInv'
  BY <1>1, QuietKept
<1>3. run \in [Workers -> Execution] /\ NoRun.step = "none"
  BY DEF IInv, TypeOK, NoRun
<1>4. CASE FailBuildStatus(w)
  <2>1. /\ pc[w] = "failBuild" /\ pc' = pc /\ build' = "failed" /\ UNCHANGED pstatus
        /\ Moves(w, [run[w] EXCEPT !.step = "failBuild"])
    BY <1>4 DEF FailBuildStatus, Step, workerVars
  <2>2. run'[w].step = "failBuild"
    BY <1>3, <2>1 DEF Moves, Execution
  <2>3. BeginInv' /\ ~Over(w)
    BY <2>1, <2>2, BeginKept DEF Over
  <2> QED BY <1>1, <1>2, <2>1, <2>2, <2>3, AroundAlone
<1>5. CASE FailBuild(w)
  <2>1. /\ pc[w] = "failBuild" /\ pc'[w] = "idle" /\ build' = "failed" /\ pstatus' = "failed"
        /\ Moves(w, NoRun)
    BY <1>5, LeavesAt DEF FailBuild, L!FailBuild
  <2>2. run'[w].step = "none"
    BY <1>3, <2>1 DEF Moves
  <2>3. BeginInv' /\ ~Over(w)
    BY <2>1, <2>2, BeginKept DEF Over
  <2> QED BY <1>1, <1>2, <2>1, <2>2, <2>3, AroundAlone
<1>6. CASE Chain(w)
  <2>1. pc[w] = "chain" /\ pc'[w] = "idle" /\ UNCHANGED <<build, pstatus, run>>
    BY <1>6, LeavesAt DEF Chain, L!Chain, L!buildVars, inputVars
  <2>2. run'[w].step \in {"none", "failBuild"}
    BY <2>1, Idles
  <2>3. BeginInv' /\ Over(w)'
    BY <2>1, <2>2, BeginKept DEF Over
  <2> QED BY <1>1, <1>2, <2>1, <2>2, <2>3, AroundAlone
<1> QED BY <1>4, <1>5, <1>6

\* Beginning an execution.
LEMMA AcquireAlone ==
    ASSUME OneWorker, IInv, SInv, NEW w \in Workers, Observe, Acquire(w)
    PROVE  SInv'
<1>1. /\ UNCHANGED <<ckpt, results, used, pstatus, build, sent, prep, task>>
      /\ pc[w] = "acquire" /\ pc'[w] = "run" /\ Moves(w, [NoRun EXCEPT !.step = "load"])
  BY PcAt DEF Acquire, L!Acquire, L!Goto, inputVars, L!buildVars
<1>2. run'[w].step = "load"
  BY <1>1 DEF Moves, IInv, TypeOK, NoRun
<1>3. once' = once /\ build \in ActiveStates /\ task[w] \notin once
  BY <1>1, OnceKept DEF SInv, BeginInv
<1>4. QuietInv'
  BY <1>1, QuietKept
<1>5. ExecInv'
  BY <1>2, ExecNone
<1>6. StoreInv'
  BY <1>1, <1>3, StoreKept DEF SInv
<1>7. BeginInv'
  BY <1>1, <1>3 DEF BeginInv, OneWorker
<1>8. PassedInv'
  <2>1. ~(used.crash = 0 /\ NonePassed)
    BY <1>1, Idles DEF Over
  <2> QED BY <1>1, <2>1, PassedKept DEF SInv
<1>9. ResultsInv'
  BY <1>1, <1>2, <1>3 DEF ResultsInv, OneWorker, Executing, ActiveStates
<1> QED BY <1>4, <1>5, <1>6, <1>7, <1>8, <1>9 DEF SInv

\* Ending it.
LEMMA CompleteAlone ==
    ASSUME OneWorker, IInv, SInv, NEW w \in Workers, Observe, Complete(w)
    PROVE  SInv'
<1>1. /\ UNCHANGED <<results, used, pstatus, build, sent, prep, task>>
      /\ ckpt' = run[w].snap \cup {task[w]} /\ run[w].step = "complete"
      /\ pc[w] = "run" /\ pc'[w] = "verify" /\ Moves(w, NoRun)
  BY PcAt DEF Complete, L!Complete, L!Goto
<1>2. run'[w].step = "none"
  BY <1>1 DEF Moves, IInv, TypeOK, NoRun
<1>3. /\ StoreInv /\ PassedInv /\ Exec(task[w], run[w], ckpt, once) /\ task[w] \in Stages
  BY <1>1, StoredBefore DEF SInv, ExecInv, Ready
<1>4. /\ run[w].snap = ckpt /\ run[w].mem \cap Tracked = ckpt \cap Tracked
      /\ task[w] = "repair" => "validated_attempts" \in run[w].mem
  BY <1>1, <1>3 DEF Exec, CopySteps
<1>5. /\ ckpt \subseteq ckpt' /\ ckpt' \subseteq ckpt \cup {task[w]}
      /\ \A k \in Tracked : k \in ckpt' <=> k \in ckpt
      /\ task[w] = "repair" => "validated_attempts" \in ckpt
  BY <1>1, <1>3, <1>4, KeyFacts
<1>6. StoreInv'
  <2>1. once \subseteq DoneIn(ckpt')
    BY <1>3, <1>5 DEF StoreInv, DoneIn
  <2>2. "validated_attempts" \in ckpt' => "all_attempts" \in ckpt'
    BY <1>3, <1>5, KeyFacts DEF StoreInv
  <2> QED BY <1>1, <1>3, <1>5, <2>1, <2>2, StoreSaved
<1>7. used.crash = 0 => ~NonePassed
  BY <1>1, <1>3, SomePassed DEF Over
<1>8. PassedInv'
  <2>1. used.crash = 0 => ~NonePassed'
    BY <1>5, <1>7, KeyFacts DEF NonePassed
  <2>2. used.crash = 0 /\ "repair" \in ckpt' =>
           {"validated_attempts", "attempts_passed"} \subseteq ckpt
    <3>1. "repair" \in ckpt' => "repair" \in ckpt \/ task[w] = "repair"
      BY <1>5
    <3> QED BY <1>3, <1>5, <1>7, <3>1 DEF PassedInv, NonePassed
  <2> QED BY <1>1, <1>5, <2>1, <2>2 DEF PassedInv
<1>9. QuietInv'
  BY <1>1, QuietKept
<1>10. BeginInv'
  BY <1>1, <1>2, BeginKept
<1>11. ExecInv'
  BY <1>2, ExecNone
<1>12. ResultsInv'
  <2>1. used.crash = 0 => ~(build = "complete" /\ results # "success")
    BY <1>1 DEF SInv, ResultsInv, OneWorker, Executing
  <2> QED BY <1>1, <2>1 DEF ResultsInv, OneWorker, Executing
<1> QED BY <1>6, <1>8, <1>9, <1>10, <1>11, <1>12 DEF SInv

\* A stage that failed is given up.
LEMMA StageFailsAlone ==
    ASSUME OneWorker, IInv, SInv, NEW w \in Workers, Observe, StageFails(w)
    PROVE  SInv'
<1>1. /\ UNCHANGED <<ckpt, results, used, pstatus, build, sent, prep>>
      /\ run[w].step = "failed" /\ pc[w] = "run" /\ pc'[w] = "fail" /\ Moves(w, NoRun)
  BY PcAt DEF StageFails, L!StageFails, L!Goto, inputVars, L!buildVars
<1>2. run'[w].step = "none" /\ once' = once
  BY <1>1, OnceKept DEF Moves, IInv, TypeOK, NoRun
<1>3. QuietInv'
  BY <1>1, QuietKept
<1>4. BeginInv'
  BY <1>1, <1>2, BeginKept
<1>5. ExecInv'
  BY <1>2, ExecNone
<1>6. StoreInv'
  BY <1>1, <1>2, StoreKept DEF SInv
<1>7. PassedInv'
  <2>1. used.crash = 0 /\ NonePassed => build = "failed"
    BY <1>1 DEF SInv, PassedInv, OneWorker, Executing
  <2>2. Over(w)'
    BY <1>1 DEF Over
  <2> QED BY <1>1, <2>1, <2>2, PassedKept DEF SInv
<1>8. ResultsInv'
  <2>1. used.crash = 0 => ~(build = "complete" /\ results # "success")
    BY <1>1 DEF SInv, ResultsInv, OneWorker, Executing
  <2> QED BY <1>1, <2>1 DEF ResultsInv, OneWorker, Executing
<1> QED BY <1>3, <1>4, <1>5, <1>6, <1>7, <1>8 DEF SInv

\* A worker dies.
LEMMA CrashAlone ==
    ASSUME OneWorker, IInv, SInv, NEW w \in Workers, Observe, Crash(w)
    PROVE  SInv'
<1>1. /\ UNCHANGED <<ckpt, results, pstatus, build, sent>> /\ Use("crash")
      /\ pc[w] # "idle" /\ pc'[w] = "idle" /\ Moves(w, NoRun) /\ Prepares(w, NoPrep)
  BY LeavesAt DEF Crash, L!Crash, L!buildVars
<1>2. run'[w].step = "none" /\ once' = once
  BY <1>1, OnceKept DEF Moves, IInv, TypeOK, NoRun
<1>3. used'.crash # 0 /\ used'.dispatch = used.dispatch
  BY <1>1, UsedTypes DEF Use
<1>4. QuietInv'
  <2>1. \A p \in Processes : prep'[p].step \in {"none", prep[p].step}
    BY <1>1 DEF Prepares, NoPrep, IInv, TypeOK
  <2> QED BY <1>1, <1>3, <2>1, QuietKept
<1>5. BeginInv'
  BY <1>1, <1>2, BeginKept
<1>6. ExecInv'
  BY <1>2, ExecNone
<1>7. StoreInv'
  BY <1>1, <1>2, StoreKept DEF SInv
<1>8. PassedInv' /\ ResultsInv'
  BY <1>3 DEF PassedInv, ResultsInv
<1> QED BY <1>4, <1>5, <1>6, <1>7, <1>8 DEF SInv

\* Every step of a worker.
LEMMA WorkerAlone ==
    ASSUME OneWorker, IInv, SInv, NEW w \in Workers, Observe, WorkerStep(w) \/ Crash(w)
    PROVE  SInv'
  BY ExecuteAlone, BetweenAlone, AfterAlone, AcquireAlone, CompleteAlone, StageFailsAlone,
     CrashAlone DEF WorkerStep

-----------------------------------------------------------------------------
(* The first dispatch, and the steps of the rest.                          *)

\* A step that leaves the stored facts and the workers alone.
LEMMA RestAlone ==
    ASSUME SInv, UNCHANGED <<pc, task, run, ckpt, once, build, pstatus, results>>,
           used'.crash = 0 => used.crash = 0, QuietInv'
    PROVE  SInv'
<1>1. ExecInv' /\ BeginInv'
  BY DEF SInv, ExecInv, BeginInv
<1>2. StoreInv'
  BY DEF SInv, StoreInv
<1>3. PassedInv'
  BY DEF SInv, PassedInv, NonePassed, Executing, Over
<1>4. ResultsInv'
  BY DEF SInv, ResultsInv, Executing
<1> QED BY <1>1, <1>2, <1>3, <1>4 DEF SInv

\* A recovery leaves the workers alone.
LEMMA RecoveryRest ==
    ASSUME NEW p, Resolve(p) \/ Abandon(p) \/ Prepare(p)
    PROVE  UNCHANGED <<pc, task, run, results>>
  BY DEF Resolve, Abandon, Prepare, PrepInterrupt, PrepEnter, PrepRead, PrepWrite, Dispatch,
     workerVars

\* It is the only one, of a build that has not been sent, and it becomes r.
LEMMA OnlyRecovery ==
    ASSUME IInv, SInv, NEW p \in Processes, prep[p].step # "none", NEW r, Prepares(p, r),
           used'.dispatch = used.dispatch
    PROVE  /\ used.dispatch = 1 /\ sent = {} /\ ckpt = {} /\ once = {}
           /\ \A w \in Workers : pc[w] = "idle"
           /\ prep[p].step \in {"enter", "enterNote", "enterNoted", "send"}
           /\ prep[p].stage = "planning" /\ prep[p].snap = {} /\ prep[p] \in Recovery
           /\ prep'[p] = r /\ \A q \in Processes : q # p => prep'[q].step = "none"
<1>1. prep \in [Processes -> Recovery]
  BY DEF IInv, TypeOK
<1>2. prep'[p] = r /\ \A q \in Processes : q # p => prep'[q] = prep[q]
  BY <1>1 DEF Prepares
<1> QED BY <1>1, <1>2 DEF SInv, QuietInv

\* Nothing is done yet: the first stage is resumed at.
LEMMA ResumeFirst ==
    ASSUME NEW status, status # "interrupted", NEW phase
    PROVE  ResumeStage(DoneIn({}), status, phase) = "planning"
<1>1. DoneIn({}) = {}
  BY NothingDone
<1>2. "planning" \in Stages /\ NoneLeft \notin Stages
  BY StageNames DEF NoneLeft
<1>3. FirstIncomplete({}) # NoneLeft
  <2>1. \E s \in Stages \ {} : Earlier(s) \subseteq {}
    <3>1. Earlier("planning") \subseteq {}
      <4>1. \A s \in Stages : ~(StageIndex[s] < StageIndex["planning"])
        BY <1>2, StageOrder
      <4> QED BY <4>1 DEF Earlier
    <3> QED BY <1>2, <3>1
  <2> QED BY <1>2, <2>1 DEF FirstIncomplete
<1>4. FirstIncomplete({}) \in Stages /\ Earlier(FirstIncomplete({})) \subseteq {}
  BY <1>3, FirstIncompleteIsReady
<1>5. FirstIncomplete({}) = "planning"
  BY <1>2, <1>4, StageOrder DEF Earlier
<1> QED BY <1>1, <1>5 DEF ResumeStage

\* The dispatch of a new build.
LEMMA ResolveAlone ==
    ASSUME OneWorker, IInv, SInv, NEW p \in Processes, Observe, Resolve(p), Calm'
    PROVE  SInv'
<1>1. /\ UNCHANGED <<ckpt, build, pstatus, sent>> /\ Use("dispatch")
  BY DEF Resolve, stateVars
<1>2. used.dispatch = 0 /\ used'.dispatch = 1 /\ used'.crash = used.crash
  BY <1>1, UsedTypes DEF Use, Calm
<1>3. /\ sent = {} /\ ckpt = {} /\ once = {} /\ build = pstatus /\ pstatus \in {"queued", "planning"}
      /\ \A w \in Workers : pc[w] = "idle"
      /\ \A q \in Processes : prep[q].step = "none"
  BY <1>2 DEF SInv, QuietInv
<1>4. ResumeStage(DoneIn(ckpt), pstatus, rphase) = "planning"
  BY <1>3, ResumeFirst
<1>5. PICK step \in {"send", "enter"} : Prepares(p, PrepFor(step, "planning"))
  <2>1. STAGE_TO_PIPELINE_STATE["planning"] = "planning"
    BY DEF STAGE_TO_PIPELINE_STATE
  <2>2. CanTransition("queued", "planning")
    BY LinearIndices DEF CanTransition, TERMINAL_STATES
  <2> QED BY <1>3, <1>4, <2>1, <2>2 DEF Resolve
<1>6. /\ PrepFor(step, "planning").step = step /\ PrepFor(step, "planning").stage = "planning"
      /\ PrepFor(step, "planning").snap = {}
  BY DEF PrepFor
<1>7. /\ prep'[p] = PrepFor(step, "planning")
      /\ \A q \in Processes : q # p => prep'[q] = prep[q]
  BY <1>5 DEF Prepares, IInv, TypeOK
<1>8. UNCHANGED <<pc, task, run, results>> /\ once' = once
  BY <1>1, RecoveryRest, OnceKept
<1>9. QuietInv'
  <2>1. \A q \in Processes : prep'[q].step # "none" => q = p
    BY <1>3, <1>7
  <2>2. /\ used'.dispatch = 1 /\ sent' = {} /\ ckpt' = {} /\ once' = {} /\ build' = pstatus'
        /\ build' \in {"queued", "planning"} /\ \A w \in Workers : pc'[w] = "idle"
    BY <1>1, <1>2, <1>3, <1>8
  <2>3. /\ prep'[p].step \in {"send", "enter"} /\ prep'[p].stage = "planning"
        /\ prep'[p].snap = {}
    BY <1>6, <1>7
  <2> QED BY <2>1, <2>2, <2>3 DEF QuietInv
<1> QED BY <1>1, <1>2, <1>8, <1>9, RestAlone

\* Its process dies, reads, writes back what it read, or sends the first stage.
LEMMA FirstStepsAlone ==
    ASSUME OneWorker, IInv, SInv, NEW p \in Processes, Observe,
           Abandon(p) \/ PrepRead(p) \/ PrepWrite(p) \/ Dispatch(p)
    PROVE  SInv'
<1>1. /\ used'.dispatch = used.dispatch /\ (used'.crash = 0 => used.crash = 0)
  BY UsedTypes DEF Abandon, PrepRead, PrepWrite, Dispatch, Use
<1>2. PICK r : prep[p].step # "none" /\ Prepares(p, r)
  BY DEF Abandon, PrepRead, PrepWrite, Dispatch
<1>3. /\ used.dispatch = 1 /\ sent = {} /\ ckpt = {} /\ once = {}
      /\ \A w \in Workers : pc[w] = "idle"
      /\ prep[p].step \in {"enter", "enterNote", "enterNoted", "send"}
      /\ prep[p].stage = "planning" /\ prep[p].snap = {} /\ prep[p] \in Recovery
  BY <1>1, <1>2, OnlyRecovery
<1>4. UNCHANGED <<pc, task, run, results>>
  BY RecoveryRest DEF Prepare
<1>5. ckpt' = ckpt /\ UNCHANGED <<build, pstatus>>
  BY <1>3 DEF Abandon, PrepRead, PrepWrite, Dispatch, stateVars
<1>6. once' = once
  BY <1>5, OnceKept
<1>7. NoPrep.step = "none"
  BY DEF NoPrep
<1>8. \/ Prepares(p, NoPrep)
      \/ /\ sent' = sent
         /\ \E to \in {"enterNoted", "send"} :
               Prepares(p, [prep[p] EXCEPT !.step = to, !.snap = {}])
  <2>1. CASE Abandon(p) \/ Dispatch(p)
    BY <2>1 DEF Abandon, Dispatch
  <2>2. CASE PrepRead(p)
    <3>1. PICK n \in {<<"interruptNote", "interruptNoted">>, <<"enterNote", "enterNoted">>} :
             prep[p].step = n[1] /\ Prepares(p, [prep[p] EXCEPT !.step = n[2], !.snap = ckpt])
      BY <2>2 DEF PrepRead
    <3>2. n[2] = "enterNoted"
      BY <1>3, <3>1
    <3> QED BY <1>3, <2>2, <3>1, <3>2 DEF PrepRead
  <2>3. CASE PrepWrite(p)
    BY <1>3, <2>3 DEF PrepWrite
  <2> QED BY <2>1, <2>2, <2>3
<1>9. QuietInv'
  <2>1. CASE Prepares(p, NoPrep)
    <3>1. prep'[p] = NoPrep /\ \A q \in Processes : q # p => prep'[q].step = "none"
      BY <1>1, <1>2, <2>1, OnlyRecovery
    <3>2. \A q \in Processes : prep'[q].step = "none"
      BY <1>7, <3>1
    <3> QED BY <1>1, <1>3, <1>4, <1>5, <1>6, <3>2 DEF SInv, QuietInv
  <2>2. ASSUME NEW to \in {"enterNoted", "send"}, sent' = sent,
               Prepares(p, [prep[p] EXCEPT !.step = to, !.snap = {}])
        PROVE  QuietInv'
    <3> DEFINE q == [prep[p] EXCEPT !.step = to, !.snap = {}]
    <3>1. q.step = to /\ q.stage = "planning" /\ q.snap = {} /\ Prepares(p, q)
      BY <1>3, <2>2 DEF Recovery
    <3> HIDE DEF q
    <3>2. prep'[p] = q /\ \A v \in Processes : v # p => prep'[v].step = "none"
      BY <1>1, <1>2, <3>1, OnlyRecovery
    <3> QED BY <1>1, <1>3, <1>4, <1>5, <1>6, <2>2, <3>1, <3>2 DEF SInv, QuietInv
  <2> QED BY <1>8, <2>1, <2>2
<1> QED BY <1>1, <1>4, <1>5, <1>6, <1>9, RestAlone

\* It enters the state of the first stage.
LEMMA FirstEnterAlone ==
    ASSUME OneWorker, IInv, SInv, NEW p \in Processes, Observe, PrepEnter(p)
    PROVE  SInv'
<1> DEFINE r == [prep[p] EXCEPT !.step = "enterNote"]
<1>1. /\ prep[p].step # "none" /\ Prepares(p, r) /\ UNCHANGED <<used, sent, ckpt>>
      /\ build' = STAGE_TO_PIPELINE_STATE[prep[p].stage] /\ pstatus' = build'
  BY DEF PrepEnter, PrepStep, Apply
<1>2. /\ used.dispatch = 1 /\ sent = {} /\ ckpt = {} /\ once = {}
      /\ \A w \in Workers : pc[w] = "idle"
      /\ prep[p].stage = "planning" /\ prep[p].snap = {} /\ prep[p] \in Recovery
      /\ prep'[p] = r /\ \A q \in Processes : q # p => prep'[q].step = "none"
  BY <1>1, OnlyRecovery
<1>3. r.step = "enterNote" /\ r.stage = "planning" /\ r.snap = {}
  BY <1>2 DEF Recovery
<1> HIDE DEF r
<1>4. UNCHANGED <<pc, task, run, results>> /\ once' = once
  BY <1>1, RecoveryRest, OnceKept DEF Prepare
<1>5. build' = "planning" /\ pstatus' = "planning"
  BY <1>1, <1>2 DEF STAGE_TO_PIPELINE_STATE
<1>6. QuietInv'
  BY <1>1, <1>2, <1>3, <1>4, <1>5 DEF QuietInv
<1>7. ExecInv'
  BY <1>1, <1>4 DEF SInv, ExecInv
<1>8. StoreInv'
  <2>1. "planning" \in LinearStates
    BY LinearIndices
  <2> QED BY <1>1, <1>2, <1>4, <1>5, <2>1, StateOrder DEF SInv, StoreInv
<1>9. \A w \in Workers : pc'[w] = "idle" /\ run'[w].step # "load"
  BY <1>2, <1>4 DEF IInv, TypeOK
<1>10. BeginInv'
  BY <1>9 DEF BeginInv
<1>11. PassedInv'
  BY <1>1, <1>2 DEF PassedInv, NonePassed
<1>12. ResultsInv'
  BY <1>5, <1>9 DEF ResultsInv, Executing
<1> QED BY <1>6, <1>7, <1>8, <1>10, <1>11, <1>12 DEF SInv

\* Every step of a recovery.
LEMMA RecoveryAlone ==
    ASSUME OneWorker, IInv, SInv, NEW p \in Processes, Observe,
           Resolve(p) \/ Abandon(p) \/ Prepare(p), Calm'
    PROVE  SInv'
<1>1. ~PrepInterrupt(p)
  BY DEF SInv, QuietInv, PrepInterrupt, PrepStep
<1> QED
  BY <1>1, ResolveAlone, FirstStepsAlone, FirstEnterAlone DEF Prepare

\* While the build is calm one worker keeps it in order.
LEMMA AloneStep == OneWorker /\ IInv /\ (Calm => SInv) /\ [Next]_vars => (Calm => SInv)'
<1> SUFFICES ASSUME OneWorker, IInv, Calm => SInv, [Next]_vars, Calm' PROVE SInv'
  OBVIOUS
<1>1. CASE UNCHANGED vars
  <2>1. UNCHANGED <<pc, task, run, ckpt, once, build, pstatus, results, used, prep, sent>>
    BY <1>1 DEF vars
  <2>2. SInv /\ QuietInv'
    BY <2>1 DEF Calm, SInv, QuietInv
  <2> QED BY <2>1, <2>2, RestAlone
<1>2. CASE Next
  <2>1. ASSUME NEW k \in {"boot", "crash", "dispatch"}, Use(k)
        PROVE  /\ used'[k] = used[k] + 1
               /\ \A j \in {"boot", "crash", "dispatch"} : j # k => used'[j] = used[j]
    BY <2>1, UsedTypes DEF Use
  <2>2. ~Boot
    <3>1. Boot => used'.boot = used.boot + 1
      BY <2>1 DEF Boot
    <3> QED BY <3>1, UsedTypes DEF Calm
  <2>3. Calm
    <3>1. UNCHANGED used \/ Use("crash") \/ Use("dispatch")
      <4>1. ASSUME NEW w \in Workers, WorkerStep(w) PROVE UNCHANGED used
        BY <4>1, ExecuteWrites DEF IInv, Rest, WorkerStep, CheckTerminal, BeginStage, Acquire,
           Complete, StageFails, EndStage, FailBuildStatus, FailBuild, Chain, inputVars
      <4>2. ASSUME NEW w \in Workers, Crash(w) PROVE Use("crash")
        BY <4>2 DEF Crash
      <4>3. ASSUME NEW w \in Workers, NEW s \in Stages, Receive(w, s) PROVE UNCHANGED used
        BY <4>3 DEF Receive, inputVars
      <4>4. ASSUME NEW p \in Recoverers, Resolve(p) \/ Abandon(p)
            PROVE  Use("crash") \/ Use("dispatch")
        BY <4>4 DEF Resolve, Abandon
      <4>5. ASSUME NEW p \in Processes, Prepare(p) PROVE UNCHANGED used
        BY <4>5 DEF Prepare, PrepInterrupt, PrepEnter, PrepRead, PrepWrite, Dispatch
      <4>6. Locks => UNCHANGED used
        BY DEF Locks, inputVars
      <4> QED BY <1>2, <2>2, <4>1, <4>2, <4>3, <4>4, <4>5, <4>6 DEF Next
    <3>2. used.boot = used'.boot /\ used.dispatch <= used'.dispatch /\ used'.dispatch \in Nat
      BY <2>1, <3>1, UsedTypes
    <3> QED BY <3>2, UsedTypes DEF Calm
  <2>4. SInv /\ Observe
    BY <1>2, <2>3 DEF Next
  <2>5. ASSUME NEW w \in Workers, WorkerStep(w) \/ Crash(w) PROVE SInv'
    BY <2>4, <2>5, WorkerAlone
  <2>6. ASSUME NEW w \in Workers, NEW s \in Stages, Receive(w, s) PROVE SInv'
    BY <2>4, <2>6, ReceiveAlone
  <2>7. ASSUME NEW p \in Processes, Resolve(p) \/ Abandon(p) \/ Prepare(p) PROVE SInv'
    BY <2>4, <2>7, RecoveryAlone
  <2>8. ASSUME Locks PROVE SInv'
    <3>1. UNCHANGED <<pc, task, run, ckpt, build, pstatus, results, used, prep, sent>>
      BY <2>8, LocksStep DEF Locks, inputVars, workerVars, L!SweepStep, L!ListExpired, L!SweepReset,
         L!SweepFail, L!SweepFailWrite, L!SweepEnd, L!Expire, L!Release, L!buildVars
    <3>2. once' = once
      BY <2>4, <3>1, OnceKept
    <3>3. QuietInv'
      BY <2>4, <3>1, <3>2 DEF SInv, QuietInv
    <3> QED BY <2>4, <3>1, <3>2, <3>3, RestAlone
  <2>9. Recoverers \subseteq Processes
    BY DEF Processes
  <2> QED BY <1>2, <2>2, <2>5, <2>6, <2>7, <2>8, <2>9 DEF Next
<1> QED BY <1>1, <1>2

\* At first nothing has happened.
LEMMA AloneInit == Init => SInv
<1> SUFFICES ASSUME Init PROVE SInv
  OBVIOUS
<1>1. /\ ckpt = {} /\ once = {} /\ sent = {} /\ build = "queued" /\ pstatus = "queued"
      /\ used.dispatch = 0
      /\ \A w \in Workers : pc[w] = "idle" /\ run[w].step = "none"
      /\ \A p \in Processes : prep[p].step = "none"
  BY DEF Init, L!Init, NoRun, NoPrep, Bound
<1>2. QuietInv
  BY <1>1 DEF QuietInv
<1>3. ExecInv
  BY <1>1 DEF ExecInv, Exec, CopySteps, OpenSteps, UnitSteps
<1>4. StoreInv
  BY <1>1, StateOrder, LinearIndices DEF StoreInv
<1>5. BeginInv
  BY <1>1 DEF BeginInv
<1>6. PassedInv
  BY <1>1 DEF PassedInv, NonePassed
<1>7. ResultsInv
  BY <1>1 DEF ResultsInv, Executing
<1> QED BY <1>2, <1>3, <1>4, <1>5, <1>6, <1>7 DEF SInv

\* So it does throughout.
LEMMA Alone ==
    ASSUME OneWorker
    PROVE  Spec => [](IInv /\ (Calm => SInv))
<1>1. Init => IInv /\ (Calm => SInv)
  BY Initially, AloneInit
<1>2. IInv /\ (Calm => SInv) /\ [Next]_vars => (IInv /\ (Calm => SInv))'
  BY InvariantStep, AloneStep
<1> QED BY <1>1, <1>2, PTL DEF Spec

\* "Move the build FSM to a legal state before enqueueing or running a stage"
\* (prepare_recovery_transition): with one worker a build that was dispatched
\* once enters its phases legally, however often its stages are repeated,
\* whatever dies, expires or is swept meanwhile.
THEOREM OneWorkerEnters ==
    ASSUME OneWorker
    PROVE  Spec => []EntersUnlessRecovered
<1>1. IInv /\ (Calm => SInv) => EntersUnlessRecovered
  <2> SUFFICES ASSUME IInv, SInv, NEW w \in Workers, run[w].step = "enter"
               PROVE  LET to == PHASE_TO_STATE[UnitOf(w).phase]
                      IN to = run[w].cur \/ CanTransition(run[w].cur, to)
    BY DEF EntersUnlessRecovered, EntersLegally, Calm
  <2> DEFINE to == PHASE_TO_STATE[UnitOf(w).phase]
  <2>1. run[w].cur # "complete" /\ Reaches(run[w].cur, to)
    BY DEF SInv, ExecInv, Exec, UnitOf
  <2>2. to \in LinearStates
    <3>1. task[w] \in Stages /\ UnitOf(w).phase \in DOMAIN PHASE_TO_STATE
      BY InItsUnit DEF IInv, UnitSteps
    <3> QED BY <3>1, LinearIndices DEF PHASE_TO_STATE
  <2> HIDE DEF to
  <2>3. run[w].cur \notin TERMINAL_STATES
    BY <2>1, LinearIndices DEF TERMINAL_STATES, Reaches
  <2>4. CanTransition(run[w].cur, to)
    BY <2>1, <2>2, <2>3 DEF CanTransition, Reaches
  <2> QED BY <2>4 DEF to
<1> QED BY <1>1, Alone, PTL

\* Only attempts that passed are reviewed: with one worker, while no worker has
\* died, the build was dispatched once and no process opened the database.
THEOREM OneWorkerReviews ==
    ASSUME OneWorker
    PROVE  Spec => [](Calm => ReviewedUnlessCrashed)
<1>1. IInv /\ (Calm => SInv) => (Calm => ReviewedUnlessCrashed)
  <2> SUFFICES ASSUME IInv, SInv, used.crash = 0, NEW w \in Workers, Executing(w, "reviewing"),
                      run[w].step # "load"
               PROVE  "attempts_passed" \in run[w].mem
    BY DEF ReviewedUnlessCrashed, OnlyValidatedReviewed
  <2>1. /\ run[w].step \notin {"none", "failBuild"} /\ task[w] = "reviewing"
        /\ Earlier("reviewing") \subseteq once
    BY StoredBefore DEF Executing, IInv, TypeOK, Ready
  <2>2. "repair" \in Earlier("reviewing")
    BY StageNames, Indices DEF Earlier
  <2>3. "repair" \in ckpt
    BY <2>1, <2>2 DEF SInv, StoreInv, DoneIn
  <2>4. "attempts_passed" \in ckpt
    BY <2>3 DEF SInv, PassedInv
  <2> QED BY <2>1, <2>4, KeyFacts DEF SInv, ExecInv, Exec
<1> QED BY <1>1, Alone, PTL

\* "Terminal success transition" (PipelineStateMachine.complete): a build that is
\* shown complete has its results, with one worker, while none has died, the
\* build was dispatched once and no process opened the database.
THEOREM OneWorkerResults ==
    ASSUME OneWorker
    PROVE  Spec => [](used.boot = 0 => ResultsUnlessInterrupted)
<1>1. IInv /\ (Calm => SInv) => (used.boot = 0 => ResultsUnlessInterrupted)
  BY DEF Calm, ResultsUnlessInterrupted, CompleteHasResults, SInv, ResultsInv
<1> QED BY <1>1, Alone, PTL
=============================================================================
