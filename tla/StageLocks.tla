------------------------------ MODULE StageLocks ------------------------------
(***************************************************************************)
(* The lease table pipeline_stage_runs of one build (core/database.py) and *)
(* the processes that read and write it (core/stage_coordinator.py):       *)
(* workers that run a stage under its lock, and the periodic sweep that    *)
(* takes over locks whose holder is gone.  One action is one write         *)
(* transaction, or a run of reads that no write of the process interrupts. *)
(*                                                                         *)
(* Lock tokens (uuid4 in the code) are numbered in the order they are      *)
(* issued.  Every lock has the same time to live, so locks expire in that  *)
(* order too, and the clock is the number of the last expired token.       *)
(*                                                                         *)
(* The checkpoint and builds.status are written by the code that runs in   *)
(* the stages, which this module leaves open: both may change at any time. *)
(***************************************************************************)
EXTENDS Naturals

CONSTANTS
    Workers,      \* processes executing run_stage tasks
    Sweepers,     \* processes executing recover_stuck_builds
    Stages,       \* the stages of the build
    Final,        \* the stage that ends the build (finalize)
    Active,       \* the values of builds.status of a build under way
    MaxAttempts,  \* Config.STAGE_MAX_ATTEMPTS
    MaxTokens     \* bound: locks issued in a behaviour

NoStage == "-"

ASSUME StageLocksAssumption ==
    /\ NoStage \notin Stages
    /\ Active \cap {"complete", "failed"} = {}
    /\ MaxAttempts \in Nat
    /\ MaxTokens \in Nat

VARIABLES
    row,        \* pipeline_stage_runs, one row per stage
    done,       \* the stages the checkpoint shows to be done
    build,      \* builds.status
    issued,     \* the last lock token issued
    expired,    \* the last lock token whose expires_at has passed
    pc,         \* where each worker is in run_stage_guarded
    task,       \* the stage each worker is working on
    held,       \* the lock token each worker believes it holds, 0 for none
    spc,        \* where each sweeper is in _recover_expired_stage_runs
    listed,     \* the expired rows the sweeper read and has yet to handle
    victim,     \* the stage whose row the sweeper is about to fail
    preempted   \* history: tokens a sweep took away before they expired

tableVars == <<row, issued, expired, preempted>>
buildVars == <<done, build>>
workerVars == <<pc, task, held>>
sweepVars == <<spc, listed, victim>>
vars == <<row, done, build, issued, expired,
          pc, task, held, spc, listed, victim, preempted>>

-----------------------------------------------------------------------------
(* The rows and what each SQL statement does to one.                       *)

Settled == {"completed", "failed"}
Statuses == {"none", "pending", "running"} \cup Settled
Row == [status: Statuses, token: Nat, attempt: Nat]
NoRow == [status |-> "none", token |-> 0, attempt |-> 0]

Expired(token) == token <= expired
IsExpiredLock(r) == r.status = "running" /\ Expired(r.token)

\* Variant: expires_at is not compared with the clock.
CanAcquireHeld(r) ==
    r.status \in {"none", "pending"} \/ (r.status = "running" /\ r.attempt < MaxAttempts)

CanAcquire(r) ==
    \/ r.status \in {"none", "pending"}
    \/ IsExpiredLock(r) /\ r.attempt < MaxAttempts

AcquiredRow(r, token) ==
    [status |-> "running", token |-> token, attempt |-> r.attempt + 1]

\* Variant: lock_token is not cleared.
CompletedRowTokenKept(r, token) ==
    IF r.status \notin Settled /\ r.token = token
    THEN [r EXCEPT !.status = "completed"]
    ELSE r

\* Variant: the UPDATE does not compare lock_token.
CompletedRowUnfenced(r, token) ==
    IF r.status \notin Settled
    THEN [r EXCEPT !.status = "completed", !.token = 0]
    ELSE r

CompletedRow(r, token) ==
    IF r.status \notin Settled /\ r.token = token
    THEN [r EXCEPT !.status = "completed", !.token = 0]
    ELSE r

\* The UPDATE of fail_stage_run: it looks at the token, not at the status.
FailedRow(r, token) ==
    IF token = 0 \/ r.token = token
    THEN [r EXCEPT !.status = "failed", !.token = 0]
    ELSE r

ReopenedRow(r) ==
    IF r.status \in Settled
    THEN [r EXCEPT !.status = "pending", !.token = 0]
    ELSE r

\* The UPDATE of reset_expired_stage_run: it does not look at expires_at.
ResetRow(r) ==
    IF r.status = "running"
    THEN [r EXCEPT !.status = "pending", !.token = 0]
    ELSE r

\* Variant: release_expired_stage_locks does not look at expires_at.
ReleasedRowHeld(r) == ResetRow(r)

ReleasedRow(r) == IF IsExpiredLock(r) THEN ResetRow(r) ELSE r

\* verify_stage_done and StageCoordinator._stage_or_build_terminal.
Ended == {"complete", "failed"}
BuildStates == Active \cup Ended
Done(s) == s \in done \/ (s = Final /\ build = "complete")
Terminal(s) == build \in Ended \/ Done(s)

-----------------------------------------------------------------------------
(* A worker: begin_stage, the stage itself, and what follows it.           *)

PCs == {"idle", "check", "read", "reset", "acquire", "refused", "run",
        "verify", "fail", "failStage", "failWrite", "failBuild", "chain"}

Goto(w, from, to) == pc[w] = from /\ pc' = [pc EXCEPT ![w] = to]

\* Drop the task: run_stage_guarded returned or its process died.
Leave(w) ==
    /\ pc' = [pc EXCEPT ![w] = "idle"]
    /\ task' = [task EXCEPT ![w] = NoStage]
    /\ held' = [held EXCEPT ![w] = 0]

\* A run_stage message for stage s reaches w, whatever put it in the queue.
Receive(w, s) ==
    /\ Goto(w, "idle", "check")
    /\ task' = [task EXCEPT ![w] = s]
    /\ UNCHANGED <<tableVars, buildVars, held, sweepVars>>

CheckTerminal(w) ==
    /\ Goto(w, "check", IF Terminal(task[w]) THEN "chain" ELSE "read")
    /\ UNCHANGED <<tableVars, buildVars, task, held, sweepVars>>

ReadRow(w) ==
    /\ LET s == task[w]
       IN Goto(w, "read", IF row[s].status \in Settled /\ ~Done(s)
                          THEN "reset" ELSE "acquire")
    /\ UNCHANGED <<tableVars, buildVars, task, held, sweepVars>>

Reset(w) ==
    /\ Goto(w, "reset", "acquire")
    /\ row' = [row EXCEPT ![task[w]] = ReopenedRow(@)]
    /\ UNCHANGED <<buildVars, issued, expired, preempted,
                   task, held, sweepVars>>

Acquire(w) ==
    /\ Goto(w, "acquire", "run")
    /\ CanAcquire(row[task[w]])
    /\ issued < MaxTokens
    /\ issued' = issued + 1
    /\ held' = [held EXCEPT ![w] = issued + 1]
    /\ row' = [row EXCEPT ![task[w]] = AcquiredRow(@, issued + 1)]
    /\ UNCHANGED <<buildVars, expired, preempted, task, sweepVars>>

Refuse(w) ==
    /\ Goto(w, "acquire", "refused")
    /\ ~CanAcquire(row[task[w]])
    /\ UNCHANGED <<tableVars, buildVars, task, held, sweepVars>>

\* The row is read again: ALREADY_DONE goes on to the next stage, LOCKED
\* gives the task back to the queue.
Refused(w) ==
    /\ pc[w] = "refused"
    /\ IF row[task[w]].status \in Settled
       THEN pc' = [pc EXCEPT ![w] = "chain"] /\ UNCHANGED <<task, held>>
       ELSE Leave(w)
    /\ UNCHANGED <<tableVars, buildVars, sweepVars>>

\* The stage returned ok: complete_stage_with_checkpoint writes the row and the
\* checkpoint in one transaction.
Complete(w) ==
    /\ Goto(w, "run", "verify")
    /\ row' = [row EXCEPT ![task[w]] = CompletedRow(@, held[w])]
    /\ done' \in SUBSET Stages
    /\ UNCHANGED <<build, issued, expired, preempted, task, held, sweepVars>>

\* The stage returned failed, or an exception reached run_stage_guarded.
StageFails(w) ==
    /\ Goto(w, "run", "fail")
    /\ UNCHANGED <<tableVars, buildVars, task, held, sweepVars>>

Verify(w) ==
    /\ pc[w] = "verify"
    /\ IF ~Done(task[w]) THEN pc' = [pc EXCEPT ![w] = "fail"] /\ UNCHANGED <<task, held>>
       ELSE IF task[w] = Final THEN Leave(w)
       ELSE pc' = [pc EXCEPT ![w] = "chain"] /\ UNCHANGED <<task, held>>
    /\ UNCHANGED <<tableVars, buildVars, sweepVars>>

\* fail_build: nothing more is done for a stage or build that ended already.
Fail(w) ==
    /\ pc[w] = "fail"
    /\ IF Terminal(task[w]) THEN Leave(w)
       ELSE pc' = [pc EXCEPT ![w] = "failStage"] /\ UNCHANGED <<task, held>>
    /\ UNCHANGED <<tableVars, buildVars, sweepVars>>

\* fail_stage, up to the status fail_stage_run reads in its own transaction.
FailStage(w) ==
    /\ Goto(w, "failStage",
            IF Terminal(task[w]) \/ row[task[w]].status \in Settled
            THEN "failBuild" ELSE "failWrite")
    /\ UNCHANGED <<tableVars, buildVars, task, held, sweepVars>>

FailWrite(w) ==
    /\ Goto(w, "failWrite", "failBuild")
    /\ row' = [row EXCEPT ![task[w]] = FailedRow(@, held[w])]
    /\ UNCHANGED <<buildVars, issued, expired, preempted,
                   task, held, sweepVars>>

FailBuild(w) ==
    /\ pc[w] = "failBuild"
    /\ build' = "failed"
    /\ Leave(w)
    /\ UNCHANGED <<tableVars, done, sweepVars>>

\* _enqueue_next: canonical_next_stage first releases every expired lock.
Chain(w) ==
    /\ pc[w] = "chain"
    /\ row' = [s \in Stages |-> ReleasedRow(row[s])]
    /\ Leave(w)
    /\ UNCHANGED <<buildVars, issued, expired, preempted, sweepVars>>

Crash(w) ==
    /\ pc[w] # "idle"
    /\ Leave(w)
    /\ UNCHANGED <<tableVars, buildVars, sweepVars>>

-----------------------------------------------------------------------------
(* A sweep: list the expired locks, then handle them one by one, the one   *)
(* that expired first being the first.                                     *)

Listed == [stage: Stages, token: Nat, attempt: Nat]

\* Variant: the query skips the rows that may not be retried.
ExpiredRetriableRows ==
    {[stage |-> s, token |-> row[s].token, attempt |-> row[s].attempt] :
        s \in {s \in Stages : IsExpiredLock(row[s]) /\ row[s].attempt < MaxAttempts}}

ExpiredRows ==
    {[stage |-> s, token |-> row[s].token, attempt |-> row[s].attempt] :
        s \in {s \in Stages : IsExpiredLock(row[s])}}
First(x, r) == r \in listed[x] /\ \A q \in listed[x] : r.token <= q.token

\* A sweep took the lock of stage s away from a holder it had not expired for.
Preempts(s) == IF row[s].status = "running" /\ ~Expired(row[s].token)
               THEN {row[s].token} ELSE {}

ListExpired(x) ==
    /\ spc[x] = "idle"
    /\ spc' = [spc EXCEPT ![x] = "sweep"]
    /\ listed' = [listed EXCEPT ![x] = ExpiredRows]
    /\ UNCHANGED <<tableVars, buildVars, workerVars, victim>>

\* reset_expired_stage_run; the stage is enqueued again.
SweepReset(x, r) ==
    /\ spc[x] = "sweep"
    /\ First(x, r)
    /\ r.attempt < MaxAttempts
    /\ row' = [row EXCEPT ![r.stage] = ResetRow(@)]
    /\ preempted' = preempted \cup Preempts(r.stage)
    /\ listed' = [listed EXCEPT ![x] = @ \ {r}]
    /\ UNCHANGED <<buildVars, issued, expired,
                   workerVars, spc, victim>>

\* fail_stage_run without a token: the status it reads ...
SweepFail(x, r) ==
    /\ spc[x] = "sweep"
    /\ First(x, r)
    /\ r.attempt >= MaxAttempts
    /\ listed' = [listed EXCEPT ![x] = @ \ {r}]
    /\ IF row[r.stage].status \in Settled
       THEN UNCHANGED <<spc, victim>>
       ELSE /\ spc' = [spc EXCEPT ![x] = "write"]
            /\ victim' = [victim EXCEPT ![x] = r.stage]
    /\ UNCHANGED <<tableVars, buildVars, workerVars>>

\* ... and the row it writes, a transaction later.
SweepFailWrite(x) ==
    /\ spc[x] = "write"
    /\ row' = [row EXCEPT ![victim[x]] = FailedRow(@, 0)]
    /\ preempted' = preempted \cup Preempts(victim[x])
    /\ spc' = [spc EXCEPT ![x] = "sweep"]
    /\ victim' = [victim EXCEPT ![x] = NoStage]
    /\ UNCHANGED <<buildVars, issued, expired, workerVars, listed>>

SweepEnd(x) ==
    /\ spc[x] = "sweep"
    /\ listed[x] = {}
    /\ spc' = [spc EXCEPT ![x] = "idle"]
    /\ UNCHANGED <<tableVars, buildVars, workerVars, listed, victim>>

-----------------------------------------------------------------------------
(* Time, and the rest of the system.                                       *)

\* The oldest lock that has not expired yet expires.
Expire ==
    /\ expired < issued
    /\ expired' = expired + 1
    /\ UNCHANGED <<row, buildVars, issued, preempted, workerVars, sweepVars>>

\* canonical_next_stage, called by a process that holds no task.
Release ==
    /\ row' = [s \in Stages |-> ReleasedRow(row[s])]
    /\ UNCHANGED <<buildVars, issued, expired, preempted, workerVars, sweepVars>>

\* Some process writes builds.status or the checkpoint.
Outside ==
    /\ build' \in BuildStates
    /\ done' \in SUBSET Stages
    /\ UNCHANGED <<tableVars, workerVars, sweepVars>>

Init ==
    /\ row = [s \in Stages |-> NoRow]
    /\ done = {}
    /\ build \in Active
    /\ issued = 0 /\ expired = 0
    /\ pc = [w \in Workers |-> "idle"]
    /\ task = [w \in Workers |-> NoStage]
    /\ held = [w \in Workers |-> 0]
    /\ spc = [x \in Sweepers |-> "idle"]
    /\ listed = [x \in Sweepers |-> {}]
    /\ victim = [x \in Sweepers |-> NoStage]
    /\ preempted = {}

WorkerStep(w) ==
    \/ CheckTerminal(w) \/ ReadRow(w) \/ Reset(w) \/ Acquire(w) \/ Refuse(w)
    \/ Refused(w) \/ Complete(w) \/ StageFails(w) \/ Verify(w) \/ Fail(w)
    \/ FailStage(w) \/ FailWrite(w) \/ FailBuild(w) \/ Chain(w)

SweepStep(x) ==
    \/ ListExpired(x) \/ SweepFailWrite(x) \/ SweepEnd(x)
    \/ \E r \in listed[x] : SweepReset(x, r) \/ SweepFail(x, r)

Next ==
    \/ \E w \in Workers : WorkerStep(w) \/ Crash(w)
    \/ \E w \in Workers, s \in Stages : Receive(w, s)
    \/ \E x \in Sweepers : SweepStep(x)
    \/ Expire
    \/ Release
    \/ Outside

Spec == Init /\ [][Next]_vars

\* Locks expire by the clock and Celery Beat starts a sweep every
\* RECOVERY_INTERVAL_SECONDS; a sweep that started is run to its end.
FairSpec ==
    /\ Spec
    /\ WF_vars(Expire)
    /\ \A x \in Sweepers : WF_vars(SweepStep(x))

-----------------------------------------------------------------------------
(* Properties.                                                             *)

\* Every variable keeps its type, and a row carries a token exactly while it
\* is running: every UPDATE that ends a run clears lock_token with it.
TypeOK ==
    /\ row \in [Stages -> Row]
    /\ \A s \in Stages : (row[s].status = "running") = (row[s].token # 0)
    /\ \A s \in Stages : row[s].token <= issued
    /\ done \subseteq Stages
    /\ build \in BuildStates
    /\ issued \in Nat /\ expired \in 0 .. issued
    /\ pc \in [Workers -> PCs]
    /\ task \in [Workers -> Stages \cup {NoStage}]
    /\ held \in [Workers -> 0 .. issued]
    /\ \A w \in Workers : pc[w] # "idle" => task[w] \in Stages
    /\ spc \in [Sweepers -> {"idle", "sweep", "write"}]
    /\ listed \in [Sweepers -> SUBSET Listed]
    /\ victim \in [Sweepers -> Stages \cup {NoStage}]
    /\ \A x \in Sweepers : spc[x] = "write" => victim[x] \in Stages
    /\ preempted \subseteq 1 .. issued

Working(w) == pc[w] = "run"
Live(token) == ~Expired(token)

\* From Acquire to the last use of the token.
Holding(w) == pc[w] \in {"run", "verify", "fail", "failStage", "failWrite"}

\* docs/WORKERS.md promises one running lock per stage until its TTL expires.
\* What the lock table does give: two unexpired executions of one stage occur
\* only after a sweep has acted on a row it listed before the row was taken.
ExclusiveUnlessPreempted ==
    \A w1, w2 \in Workers :
        /\ Working(w1) /\ Working(w2) /\ task[w1] = task[w2]
        /\ Live(held[w1]) /\ Live(held[w2])
        /\ {held[w1], held[w2]} \cap preempted = {}
        => w1 = w2

\* The token is a fence: of all workers on a stage, crashed ones revived or
\* not, at most one can still complete or fail the row with the token it has.
OneEffectiveHolder ==
    \A w1, w2 \in Workers :
        held[w1] # 0 /\ held[w1] = held[w2] => w1 = w2

\* A row becomes completed only by the worker whose token it carries, so a
\* worker that lost its lock never completes the run of its successor.
CompletedByHolder ==
    [][\A s \in Stages :
          row[s].status # "completed" /\ row'[s].status = "completed"
          => \E w \in Workers : Working(w) /\ task[w] = s /\ held[w] = row[s].token]_vars

\* A lock is not held for ever: whatever becomes of its holder, each single
\* lock is given up in the end, by its holder, by expiry or by a sweep.
EveryLockEnds ==
    \A t \in 1 .. MaxTokens, s \in Stages : row[s].token = t ~> row[s].token # t

\* The strengthening that makes the two exclusion invariants inductive: tokens
\* name one row and one worker, and an unexpired lock nobody preempted is still
\* in the row of the stage its holder executes.
TokenOwnership ==
    /\ \A s1, s2 \in Stages :
          row[s1].token # 0 /\ row[s1].token = row[s2].token => s1 = s2
    /\ \A w \in Workers, s \in Stages :
          held[w] # 0 /\ held[w] = row[s].token => task[w] = s
    /\ \A w \in Workers : Holding(w) => held[w] # 0
    /\ \A w \in Workers : pc[w] = "idle" => held[w] = 0
HolderKeepsRow ==
    \A w \in Workers :
        Working(w) /\ Live(held[w]) /\ held[w] \notin preempted
        => row[task[w]].token = held[w]
LockInv == OneEffectiveHolder /\ TokenOwnership /\ HolderKeepsRow
=============================================================================
