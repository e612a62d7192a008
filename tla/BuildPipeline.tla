---------------------------- MODULE BuildPipeline ----------------------------
(***************************************************************************)
(* One build from its creation to its end: workers that receive run_stage  *)
(* messages, take the lease of the stage (StageLocks), execute the stage   *)
(* on a context read from the checkpoint (core/pipeline_runner.py,         *)
(* agents/), complete it and send the next message; processes that         *)
(* dispatch the build again (dispatch_build_recovery); processes that open *)
(* the database and mark running builds interrupted.                       *)
(*                                                                         *)
(* One action is one write transaction, or a run of reads that no write of *)
(* the process interrupts.  The broker keeps every message: it delivers it *)
(* any number of times, late, or never.                                    *)
(***************************************************************************)
EXTENDS PipelineStages

CONSTANTS
    Workers, Sweepers, MaxAttempts, MaxTokens,
    Recoverers,     \* processes that call dispatch_build_recovery
    MaxBoots,       \* bound: processes that open the database
    MaxCrashes,     \* bound: processes that die at work
    MaxDispatches   \* bound: calls of dispatch_build_recovery

VARIABLES
    row, build, issued, expired, pc, task, held, spc, listed, victim, preempted,
    ckpt,      \* pipeline_state.checkpoint_json: keys and stage markers
    pstatus,   \* pipeline_state.pipeline_status
    rphase,    \* pipeline_state.resume_phase
    results,   \* builds.results_json: none, success or failed
    sent,      \* the stages a run_stage message was sent for
    run,       \* the stage execution of each worker
    prep,      \* the recovery transition each process is making
    used,      \* how much of each bound is used up
    once       \* history: stages that have been done at some time

L == INSTANCE StageLocks WITH
        Final <- "finalize", Active <- ActiveStates, done <- DoneIn(ckpt)

ASSUME BuildPipelineAssumption ==
    /\ Recoverers \cap Workers = {}
    /\ MaxAttempts \in Nat /\ MaxTokens \in Nat
    /\ MaxBoots \in Nat /\ MaxCrashes \in Nat /\ MaxDispatches \in Nat
    /\ L!NoStage \notin Stages

tableVars == <<row, issued, expired, preempted, spc, listed, victim>>
workerVars == <<pc, task, held>>
stateVars == <<build, pstatus, rphase>>
vars == <<row, build, issued, expired, pc, task, held, spc, listed, victim, preempted,
          ckpt, pstatus, rphase, results, sent, run, prep, used, once>>

Processes == Workers \cup Recoverers
Bound == [boot |-> MaxBoots, crash |-> MaxCrashes, dispatch |-> MaxDispatches]
Use(k) == used[k] < Bound[k] /\ used' = [used EXCEPT ![k] = @ + 1]

-----------------------------------------------------------------------------
(* The execution of a stage: the unit of work it is in, the step of that   *)
(* unit, the state the process's PipelineStateMachine holds, the keys of   *)
(* its context, and the checkpoint it is about to write back.              *)

NoRun == [step |-> "none", unit |-> 0, cur |-> "none", mem |-> {}, snap |-> {}]

UnitOf(w) == Units[task[w]][run[w].unit]
HasSave(u) == u.saves \cup u.may # {}

\* Execution r of stage s stands at the first unit from i on that is not skipped.
At(s, r, i) ==
    LET Skipped(u) == u.skip \cap r.mem # {} \/ ~(u.only \subseteq r.mem)
        left == {j \in i .. Len(Units[s]) : ~Skipped(Units[s][j])}
        j == CHOOSE j \in left : \A k \in left : j <= k
    IN IF left = {} THEN [r EXCEPT !.unit = Len(Units[s]) + 1, !.step = "ok"]
       ELSE [r EXCEPT !.unit = j,
                      !.step = IF Units[s][j].needs \subseteq r.mem
                               THEN Units[s][j].first ELSE "fail"]

Moves(w, r) == run' = [run EXCEPT ![w] = r]
Step(w, from, to) == run[w].step = from /\ Moves(w, [run[w] EXCEPT !.step = to])
NextUnit(w, r) == Moves(w, At(task[w], r, r.unit + 1))

\* apply_pipeline_state: pipeline_state and builds in one transaction.
Apply(status, phase) == pstatus' = status /\ build' = status /\ rphase' = phase

\* hydrate_from_db and PipelineStateMachine.__init__.
Load(w) ==
    /\ run[w].step = "load"
    /\ LET r == [run[w] EXCEPT !.cur = pstatus, !.mem = ckpt]
       IN Moves(w, IF StageNeeds[task[w]] \subseteq ckpt THEN At(task[w], r, 1)
                   ELSE [r EXCEPT !.step = "fail"])
    /\ UNCHANGED <<tableVars, workerVars, stateVars, ckpt, results, sent, prep, used>>

\* PipelineStateMachine.enter and phase.  The state is compared with the one
\* this process read or entered last, not with the stored one.
Enter(w) ==
    /\ run[w].step = "enter"
    /\ LET to == PHASE_TO_STATE[UnitOf(w).phase]
       IN IF to = run[w].cur \/ CanTransition(run[w].cur, to)
          THEN /\ Apply(to, UnitOf(w).phase)
               /\ Moves(w, [run[w] EXCEPT !.step = "note", !.cur = to])
          ELSE /\ Moves(w, [run[w] EXCEPT !.step = "fail"])
               /\ UNCHANGED stateVars
    /\ UNCHANGED <<tableVars, workerVars, ckpt, results, sent, prep, used>>

\* The read half of a save_checkpoint, by the step it is in.
ReadFor == [note |-> "noted", work |-> "save", again |-> "saveAgain",
            ok |-> "complete", trace |-> "traced"]
ReadCheckpoint(w) ==
    /\ run[w].step \in DOMAIN ReadFor
    /\ Moves(w, [run[w] EXCEPT !.step = ReadFor[run[w].step], !.snap = ckpt])
    /\ UNCHANGED <<tableVars, workerVars, stateVars, ckpt, results, sent, prep, used>>

\* The write half of those that save percent, phase, error: no key of Keys.
WriteNote(w) ==
    /\ ckpt' = run[w].snap
    /\ LET r == [run[w] EXCEPT !.snap = {}]
       IN \/ /\ run[w].step = "noted"
             /\ IF HasSave(UnitOf(w)) THEN Moves(w, [r EXCEPT !.step = "work"])
                ELSE NextUnit(w, r)
          \/ /\ run[w].step = "traced"
             /\ Moves(w, [r EXCEPT !.step = "results"])
    /\ UNCHANGED <<tableVars, workerVars, stateVars, results, sent, prep, used>>

\* What a save leaves of the keys c when the work yielded some of u.may.
Saved(u, c, yield) == (c \ (u.drops \cup u.may)) \cup u.saves \cup yield

\* ctx.save_checkpoint at the end of a unit.
Save(w) ==
    /\ run[w].step = "save"
    /\ \E yield \in SUBSET UnitOf(w).may :
          LET u == UnitOf(w)
              r == [run[w] EXCEPT !.mem = Saved(u, @, yield), !.snap = {}]
          IN /\ ckpt' = Saved(u, run[w].snap, yield) \cup (r.mem \cap PlanKeys) \cup u.mark
             /\ IF ~(u.must \subseteq yield) THEN Moves(w, [r EXCEPT !.step = "results"])
                ELSE IF u.again # {} THEN Moves(w, [r EXCEPT !.step = "again"])
                ELSE NextUnit(w, r)
    /\ UNCHANGED <<tableVars, workerVars, stateVars, results, sent, prep, used>>

\* The planner's second save of the same artifacts.
SaveAgain(w) ==
    /\ run[w].step = "saveAgain"
    /\ ckpt' = run[w].snap \cup UnitOf(w).again
    /\ NextUnit(w, [run[w] EXCEPT !.snap = {}])
    /\ UNCHANGED <<tableVars, workerVars, stateVars, results, sent, prep, used>>

\* The work of a unit raises an exception; in finalize the scores before
\* pipe.complete do, the check of the final code, or the payload after it.
WorkFails(w) ==
    /\ run[w].step \in {"work", "publish", "publishResults"}
    /\ task[w] = "finalize" => run[w].step # "work"
    /\ Step(w, run[w].step, "fail")
    /\ UNCHANGED <<tableVars, workerVars, stateVars, ckpt, results, sent, prep, used>>

\* pipe.complete writes builds.status once more, then build_results_payload
\* needs a winner ...
Publish(w) ==
    /\ Step(w, "publish", IF "ranked_builds" \in run[w].mem THEN "publishResults" ELSE "fail")
    /\ build' = "complete"
    /\ UNCHANGED <<tableVars, workerVars, pstatus, rphase, ckpt, results, sent, prep, used>>

\* ... and save_results stores it.
PublishResults(w) ==
    /\ Step(w, "publishResults", "work")
    /\ build' = "complete"
    /\ results' = "success"
    /\ UNCHANGED <<tableVars, workerVars, pstatus, rphase, ckpt, sent, prep, used>>

\* PipelineStateMachine.fail: builds, then pipeline_state, then the checkpoint.
MarkFailed(w) ==
    /\ Step(w, "fail", "applyFailed")
    /\ build' = "failed"
    /\ UNCHANGED <<tableVars, workerVars, pstatus, rphase, ckpt, results, sent, prep, used>>

ApplyFailed(w) ==
    /\ Step(w, "applyFailed", "trace")
    /\ Apply("failed", "failed")
    /\ UNCHANGED <<tableVars, workerVars, ckpt, results, sent, prep, used>>

\* _finalize_failure, which is all that is done for the errors it knows.
SaveFailure(w) ==
    /\ Step(w, "results", "failed")
    /\ build' = "failed"
    /\ results' = "failed"
    /\ UNCHANGED <<tableVars, workerVars, pstatus, rphase, ckpt, sent, prep, used>>

Execute(w) ==
    \/ Load(w) \/ Enter(w) \/ ReadCheckpoint(w) \/ WriteNote(w) \/ Save(w) \/ SaveAgain(w)
    \/ WorkFails(w) \/ Publish(w) \/ PublishResults(w)
    \/ MarkFailed(w) \/ ApplyFailed(w) \/ SaveFailure(w)

-----------------------------------------------------------------------------
(* Recovery transitions: prepare_recovery_transition, called by            *)
(* dispatch_build_recovery and by begin_stage of a stage or build that is  *)
(* done already.                                                           *)

NoPrep == [step |-> "none", stage |-> L!NoStage, phase |-> "", snap |-> {}]

PrepFor(step, s) ==
    [step |-> step, stage |-> s, snap |-> {},
     phase |-> IF rphase = "" THEN STAGE_DEFAULT_PHASE[s] ELSE rphase]

Prepares(p, r) == prep' = [prep EXCEPT ![p] = r]
PrepStep(p, from, to) == prep[p].step = from /\ Prepares(p, [prep[p] EXCEPT !.step = to])

\* dispatch_build_recovery up to its first write: the stage to resume at and
\* the way from the stored state to the state of that stage.  An illegal
\* transition ends it with an exception.
Resolve(p) ==
    /\ prep[p].step = "none"
    /\ build \notin {"complete", "failed"}
    /\ Use("dispatch")
    /\ LET s == ResumeStage(DoneIn(ckpt), pstatus, rphase)
           to == STAGE_TO_PIPELINE_STATE[s]
       IN /\ s # NoneLeft
          /\ \/ pstatus = to /\ Prepares(p, PrepFor("send", s))
             \/ pstatus # to /\ CanTransition(pstatus, to) /\ Prepares(p, PrepFor("enter", s))
             \/ /\ pstatus # to /\ ~CanTransition(pstatus, to)
                /\ CanTransition(pstatus, "interrupted")
                /\ Prepares(p, PrepFor("interrupt", s))
    /\ UNCHANGED <<tableVars, workerVars, stateVars, ckpt, results, sent, run>>

\* Normalize the state before resume ...
PrepInterrupt(p) ==
    /\ PrepStep(p, "interrupt", "interruptNote")
    /\ Apply("interrupted", prep[p].phase)
    /\ UNCHANGED <<tableVars, workerVars, ckpt, results, sent, run, used>>

\* ... and enter the state of the stage.
PrepEnter(p) ==
    /\ PrepStep(p, "enter", "enterNote")
    /\ Apply(STAGE_TO_PIPELINE_STATE[prep[p].stage], prep[p].phase)
    /\ UNCHANGED <<tableVars, workerVars, ckpt, results, sent, run, used>>

\* enter saves percent and resume_phase: read the checkpoint, write it back.
PrepRead(p) ==
    /\ \E n \in {<<"interruptNote", "interruptNoted">>, <<"enterNote", "enterNoted">>} :
          /\ prep[p].step = n[1]
          /\ Prepares(p, [prep[p] EXCEPT !.step = n[2], !.snap = ckpt])
    /\ UNCHANGED <<tableVars, workerVars, stateVars, ckpt, results, sent, run, used>>

PrepWrite(p) ==
    /\ ckpt' = prep[p].snap
    /\ \/ /\ prep[p].step = "interruptNoted"
          /\ Prepares(p, [prep[p] EXCEPT !.step = "enter", !.snap = {}])
       \/ /\ prep[p].step = "enterNoted"
          /\ Prepares(p, IF p \in Workers THEN NoPrep
                         ELSE [prep[p] EXCEPT !.step = "send", !.snap = {}])
    /\ UNCHANGED <<tableVars, workerVars, stateVars, results, sent, run, used>>

\* The stage is sent, unless its lock is held.
Dispatch(p) ==
    /\ prep[p].step = "send"
    /\ Prepares(p, NoPrep)
    /\ LET r == row[prep[p].stage]
       IN sent' = IF r.status = "running" /\ ~L!Expired(r.token) THEN sent
                  ELSE sent \cup {prep[p].stage}
    /\ UNCHANGED <<tableVars, workerVars, stateVars, ckpt, results, run, used>>

Prepare(p) == PrepInterrupt(p) \/ PrepEnter(p) \/ PrepRead(p) \/ PrepWrite(p) \/ Dispatch(p)

-----------------------------------------------------------------------------
(* run_stage_guarded around the execution: the steps of StageLocks.        *)

inputVars == <<pstatus, rphase, results, ckpt, used>>

Receive(w, s) ==
    /\ s \in sent
    /\ UNCHANGED <<inputVars, sent, run, prep>>
    /\ L!Receive(w, s)

\* Variant: nothing is sent after a stage that had been done already.
CheckTerminalQuiet(w) ==
    /\ pc[w] = "check"
    /\ IF L!Terminal(task[w]) THEN L!Leave(w) ELSE L!Goto(w, "check", "read") /\ UNCHANGED <<task, held>>
    /\ UNCHANGED <<tableVars, stateVars, inputVars, sent, run, prep>>

\* A stage or build that ended is not run; if the build is interrupted, its
\* state is moved to that of the stage all the same.
CheckTerminal(w) ==
    /\ UNCHANGED <<inputVars, sent, run>>
    /\ L!CheckTerminal(w)
    /\ IF L!Terminal(task[w]) /\ pstatus = "interrupted"
       THEN Prepares(w, PrepFor("enter", task[w]))
       ELSE UNCHANGED prep

BeginStage(w) ==
    /\ UNCHANGED <<inputVars, sent, run, prep>>
    /\ L!ReadRow(w) \/ L!Reset(w) \/ L!Refuse(w) \/ L!Refused(w)

Acquire(w) ==
    /\ UNCHANGED <<inputVars, sent, prep>>
    /\ L!Acquire(w)
    /\ Moves(w, [NoRun EXCEPT !.step = "load"])

\* Variant: the row is completed whoever holds it.
CompleteUnfenced(w) ==
    /\ run[w].step = "complete"
    /\ ckpt' = run[w].snap \cup {task[w]}
    /\ L!Goto(w, "run", "verify")
    /\ row' = [row EXCEPT ![task[w]].status = "completed", ![task[w]].token = 0]
    /\ Moves(w, NoRun)
    /\ UNCHANGED <<build, issued, expired, preempted, task, held, spc, listed, victim,
                   pstatus, rphase, results, sent, prep, used>>

\* complete_stage_with_checkpoint.
Complete(w) ==
    /\ run[w].step = "complete"
    /\ ckpt' = run[w].snap \cup {task[w]}
    /\ L!Complete(w)
    /\ Moves(w, NoRun)
    /\ UNCHANGED <<pstatus, rphase, results, sent, prep, used>>

StageFails(w) ==
    /\ run[w].step = "failed"
    /\ UNCHANGED <<inputVars, sent, prep>>
    /\ L!StageFails(w)
    /\ Moves(w, NoRun)

EndStage(w) ==
    /\ UNCHANGED <<inputVars, sent, run, prep>>
    /\ L!Verify(w) \/ L!Fail(w) \/ L!FailStage(w) \/ L!FailWrite(w)

\* fail_build: update_build, then apply_pipeline_state.
FailBuildStatus(w) ==
    /\ pc[w] = "failBuild"
    /\ Step(w, "none", "failBuild")
    /\ build' = "failed"
    /\ UNCHANGED <<tableVars, workerVars, pstatus, rphase, ckpt, results, sent, prep, used>>

FailBuild(w) ==
    /\ run[w].step = "failBuild"
    /\ pstatus' = "failed" /\ rphase' = task[w]
    /\ UNCHANGED <<ckpt, results, used, sent, prep>>
    /\ L!FailBuild(w)
    /\ Moves(w, NoRun)

\* _enqueue_next: the first incomplete stage of a build that goes on.
Chain(w) ==
    /\ prep[w].step = "none"
    /\ UNCHANGED <<inputVars, run, prep>>
    /\ L!Chain(w)
    /\ LET next == FirstIncomplete(DoneIn(ckpt))
       IN sent' = IF build \in {"complete", "failed"} \/ next = NoneLeft THEN sent
                  ELSE sent \cup {next}

Crash(w) ==
    /\ Use("crash")
    /\ UNCHANGED <<pstatus, rphase, results, ckpt, sent>>
    /\ L!Crash(w)
    /\ Moves(w, NoRun)
    /\ Prepares(w, NoPrep)

\* A process dies in the middle of a recovery.
Abandon(p) ==
    /\ prep[p].step # "none"
    /\ Use("crash")
    /\ Prepares(p, NoPrep)
    /\ UNCHANGED <<tableVars, workerVars, stateVars, ckpt, results, sent, run>>

Locks ==
    /\ UNCHANGED <<inputVars, sent, run, prep>>
    /\ (\E x \in Sweepers : L!SweepStep(x)) \/ L!Expire \/ L!Release

\* mark_stale_running_builds, by every process that opens the database.
Boot ==
    /\ Use("boot")
    /\ LET Stale(s) == IF s \in LinearStates \ {"complete"} THEN "interrupted" ELSE s
       IN build' = Stale(build) /\ pstatus' = Stale(pstatus)
    /\ UNCHANGED <<tableVars, workerVars, rphase, ckpt, results, sent, run, prep>>

-----------------------------------------------------------------------------

\* create_build.
Init ==
    /\ ckpt = {} /\ L!Init
    /\ build = "queued" /\ pstatus = "queued" /\ rphase = ""
    /\ results = "none"
    /\ sent = {}
    /\ run = [w \in Workers |-> NoRun]
    /\ prep = [p \in Processes |-> NoPrep]
    /\ used = [k \in DOMAIN Bound |-> 0]
    /\ once = {}

WorkerStep(w) ==
    \/ CheckTerminal(w) \/ BeginStage(w) \/ Acquire(w) \/ Execute(w) \/ Complete(w)
    \/ StageFails(w) \/ EndStage(w) \/ FailBuildStatus(w) \/ FailBuild(w) \/ Chain(w)

Observe == once' = once \cup DoneIn(ckpt')

Next ==
    /\ \/ \E w \in Workers : WorkerStep(w) \/ Crash(w)
       \/ \E w \in Workers, s \in Stages : Receive(w, s)
       \/ \E p \in Recoverers : Resolve(p) \/ Abandon(p)
       \/ \E p \in Processes : Prepare(p)
       \/ Locks
       \/ Boot
    /\ Observe

Spec == Init /\ [][Next]_vars

\* The message that is still owed: that of a stage that is not done, or else of
\* the last one sent, which is acknowledged after the next has been sent.
Owed(s) ==
    /\ s \in sent
    /\ s \in DoneIn(ckpt) => sent \ DoneIn(ckpt) = {} /\ sent \subseteq Earlier(s) \cup {s}

\* A process that lives takes its next step, locks expire by the clock, and the
\* message that is owed is delivered in the end: the broker delivers again what
\* a dead worker had not acknowledged (task_acks_late), the periodic recovery
\* sends again what was lost.
Fairness ==
    /\ \A w \in Workers :
          /\ WF_vars(WorkerStep(w) /\ Observe)
          /\ SF_vars((\E s \in Stages : Owed(s) /\ Receive(w, s)) /\ Observe)
    /\ \A p \in Processes : WF_vars(Prepare(p) /\ Observe)
    /\ WF_vars(UNCHANGED <<inputVars, sent, run, prep>> /\ L!Expire /\ Observe)

-----------------------------------------------------------------------------
(* Properties.                                                             *)

Steps == {"none", "load", "enter", "publish", "publishResults", "fail", "applyFailed",
          "results", "failed", "failBuild"}
         \cup DOMAIN ReadFor \cup {ReadFor[k] : k \in DOMAIN ReadFor}
PrepSteps == {"none", "interrupt", "interruptNote", "interruptNoted",
              "enter", "enterNote", "enterNoted", "send"}
Documents == SUBSET (Keys \cup Stages)
Phases == DOMAIN PHASE_TO_STATE \cup Stages \cup {"", "failed"}
Execution == [step: Steps, unit: Nat, cur: PipelineStates \cup {"none"},
              mem: Documents, snap: Documents]
Recovery == [step: PrepSteps, stage: Stages \cup {L!NoStage}, phase: Phases, snap: Documents]

\* Every variable keeps its type, and only a worker that holds a task has an
\* execution under way.
TypeOK ==
    /\ L!TypeOK
    /\ ckpt \in Documents
    /\ pstatus \in PipelineStates
    /\ rphase \in Phases
    /\ results \in {"none", "success", "failed"}
    /\ sent \subseteq Stages /\ once \subseteq Stages
    /\ run \in [Workers -> Execution]
    /\ \A w \in Workers : pc[w] = "run" <=> run[w].step \notin {"none", "failBuild"}
    /\ prep \in [Processes -> Recovery]
    /\ used \in [DOMAIN Bound -> Nat]
    /\ \A k \in DOMAIN Bound : used[k] <= Bound[k]

\* The leases are used as StageLocks describes, so its theorems hold here.
ImplementsStageLocks == L!Spec

Progress == INSTANCE BuildProgress WITH finished <- once, complete <- build = "complete"

\* "Exactly one next stage" (canonical_next_stage): stages are finished one at
\* a time and in order, and a build shown complete has finished all before the
\* final one, with crashed, repeated and overtaken workers and recoveries.
ImplementsProgress == Progress!Spec

\* The same of a build that is under way already: every step is one of
\* BuildProgress or changes nothing of it.
ProgressSteps == [][Progress!Next]_<<once, build = "complete">>

\* A stage is executed only when every stage before it has been done, through
\* whichever of the five ways its message was sent.
StartsInOrder ==
    [][\A w \in Workers :
          pc[w] = "acquire" /\ pc'[w] = "run" => Earlier(task[w]) \subseteq once]_vars

\* A build ends, whatever single process dies or boots on the way.
BuildEnds == <>(build \in {"complete", "failed"})

Executing(w, s) == pc[w] = "run" /\ task[w] = s

\* "Move the build FSM to a legal state before enqueueing or running a stage"
\* (prepare_recovery_transition): whatever state a recovery left the build in,
\* the stage can enter its phases from there.
EntersLegally ==
    \A w \in Workers :
        run[w].step = "enter" =>
            LET to == PHASE_TO_STATE[UnitOf(w).phase]
            IN to = run[w].cur \/ CanTransition(run[w].cur, to)

\* "Terminal success transition" (PipelineStateMachine.complete): a build that
\* is shown complete, with no worker finalizing it, has its results.
CompleteHasResults ==
    /\ build = "complete"
    /\ \A w \in Workers : ~Executing(w, "finalize")
    => results = "success"

\* What test_fail_build_terminally_marks_build asserts of a failed build: the
\* two statuses agree on it, once no process is at work on the build.
StatusesAgree ==
    /\ build = "failed"
    /\ \A w \in Workers : pc[w] = "idle"
    /\ \A p \in Processes : prep[p].step = "none"
    => pstatus = "failed"

\* "No attempts passed validation" ends the repair stage, and a build is
\* reviewed only with attempts that did pass.
OnlyValidatedReviewed ==
    \A w \in Workers :
        Executing(w, "reviewing") /\ run[w].step \notin {"load"}
        => "attempts_passed" \in run[w].mem

\* Sent once only (by start_new_build), the stages enter their phases legally,
\* repeated ones too.  With one worker: a second may be about to enter a phase
\* when the first fails the build.
EntersUnlessRecovered == used.dispatch <= 1 /\ used.boot = 0 => EntersLegally

\* Without a crash only attempts that passed are reviewed, when one worker does
\* what was sent once: a recovery can move a build whose repair failed back, ...
ReviewedUnlessCrashed == used.crash = 0 => OnlyValidatedReviewed

\* ... and without either a build shown complete has its results.
ResultsUnlessInterrupted ==
    used.dispatch <= 1 /\ used.crash = 0 => CompleteHasResults

=============================================================================
