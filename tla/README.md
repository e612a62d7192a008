# Verification of App Garden's build pipeline

App Garden builds an application in nine stages: planning, builder, repair,
reviewing, ranking, novelty, packaging, leaderboard, finalize. A stage is a
Celery task (or a step of an in-process loop when Redis is missing); all
processes share one SQLite database, and a build is meant to survive crashed
workers, redelivered tasks and restarts. This directory holds TLA+ models of
the program's control, the TLC runs that check them and TLAPS proofs.

## 1. Inventory

| component | state | operations | hard behaviour |
|---|---|---|---|
| Stage leases, `core/database.py` | `pipeline_stage_runs`: status, lock token, expiry, attempt | acquire, complete, fail, reset, release expired, list expired | sweep against re-acquisition, read and write in different transactions, holders that outlive their lock |
| Stage coordinator, `core/stage_coordinator.py`, `core/stage_execution.py` | none of its own | `run_stage_guarded`, `begin_stage`, `fail_build`, sweep, recovery dispatch | redelivered tasks, verification before locking, failure path of several writes |
| Checkpoint store, `core/database.py`, `core/pipeline_context.py` | `pipeline_state.checkpoint_json`, one JSON document per build | merge keys, complete a stage with its marker | read-modify-write without a transaction, writers without the lock |
| Pipeline state machine, `core/pipeline_fsm.py`, `core/stage_state_machine.py`, `core/pipeline_stages.py` | `pipeline_status`, `resume_phase`, `builds.status`; a cached state per process | `enter`, `phase`, `fail`, `complete`, recovery transition, stage to resume at | cached state against stored state, illegal transitions after a recovery |
| Runner and agents, `core/pipeline_runner.py`, `agents/` | the context of one task, hydrated from the checkpoint | one per stage: skip what is saved, work, save keys | crash between two saves, failure half-way |
| Dispatch queue, `core/build_queue.py`, `worker/` | `pipeline_dispatch`, the broker's queue | claim, send, register, consume, clear, inline fallback | duplicate dispatch, dedup racing consumption |
| Startup recovery, `core/stage_coordinator.py`, `core/database.py` | `cluster_locks` | mark stale builds interrupted, resume | every process that opens the database marks running builds interrupted |
| Validation and repair, `core/validation/`, `agents/repair.py` | attempts of a build | gate, repair loop, minimum of validated attempts | attempts change ids and number under reviews and ranks; fallback paths |
| Builders, novelty, packages, `core/pipeline_domain.py`, `core/pipeline_runner.py` | the code of the attempts, the final code, the package | build, iterate, validate once more, package | code and its verdict are separate keys, saved at separate times |
| LLM client, key rotation, `core/pipeline_domain.py`, `core/api_keys.py` | `data/api_keys.json`, cooldowns, a semaphore | call with retries, rotate, save keys | several processes rewrite the file; retry bounds; slots of the semaphore |
| Ranking, `core/pipeline_domain.py` | trait vectors, the list of attempts | rate, correct, sort | a comparison with cycles |
| Leaderboard, `core/database.py` | the entry of a build | add, rate | a stage that runs twice |
| HTTP API, settings, `app.py`, `core/app_state.py` | settings | start, resume, save keys, rate | requests racing workers |
| Builder tools, `core/tools/` | file system | write files of an artifact | success or not |
| Static pages, scripts | none | presentation, start-up | not modelled |

How they interact: the API creates a build and enqueues its first stage. A
worker receives `run_stage`, takes the stage's lease, runs the agents (which
write checkpoint keys and move the state machine), completes the row and the
marker, and enqueues the next stage. A periodic sweep takes over expired leases
and dispatches stuck builds again; a starting process marks running builds
interrupted and resumes them.

What makes each correct: a stage is executed by one worker at a time and its
result is recorded by that worker only; a completed stage stays completed and
its checkpoint keys stay the ones it was completed with; stages run in order; a
build ends in exactly one of `complete` and `failed` and stays there; a build
shown complete has its results; whatever dies, a lock is released and the build
goes on. A stage that is due is sent by one process, and sent again when its
message is lost. What is packaged passed the gate, what is ranked is what was
reviewed, each attempt has one rank. A stored key is not lost by rotating it, and
a call of a model ends and gives its slot back.

## 2. Order of the work

The modules were written from the inside out, each checked, then proved:

1. `StageLocks`: the lease table, workers and sweep.
2. `StageCheckpoint`: the shared checkpoint, refining `StageLocks`.
3. `PipelineStages`: tables and pure functions; `BuildProgress`: what a build
   promises; `BuildPipeline`: leases, checkpoint, state machine, runner and
   recovery composed over all nine stages, refining both.
4. `DispatchSlots`: how a stage is sent, and sent again.
5. `Deliverable`: what the keys of the checkpoint hold, from the builders to the
   package, the leaderboard and the results.
6. `TraitRanking`: the ranking of the attempts.
7. `LLMClient`: calls of language models and the file of keys.

What is left for later is at the end of section 6.

## 3. Modules

```
BuildProgress  <--implements--  BuildPipeline  --uses as described by-->  StageLocks
      |                              |                                        ^
      +-------- PipelineStages ------+            StageCheckpoint --implements-+

DispatchSlots (the lease reduced to its promise)    Deliverable (leases and keys reduced)
TraitRanking (the sort inside Deliverable's Rank)   LLMClient (the calls under every stage)
```

`BuildPipeline` composes what decides which stage runs when. The four modules
below the line each open one part that it abstracts, and abstract the rest to
what the others show: a lease has one holder unless it runs out, a save is
whole, the attempt that comes first is any of them.

### StageLocks

The table `pipeline_stage_runs` of one build. `row[s]` is the row of stage `s`
(`"none"` while there is none). `build` is `builds.status`, `done` the set of
stages the checkpoint shows to be done; both are written by code that runs
inside the stages, which the module leaves open: `Outside` writes any value, and
`Complete` any `done`. What is shown here therefore holds whatever stages do.

A worker's `pc` follows `run_stage_guarded`: `check` (`_stage_or_build_terminal`),
`read` (the row), `reset` (`reset_stage_run`), `acquire`, `refused`, `run` (the
stage), `verify`, then `chain` (`_enqueue_next`), or the failure path `fail`
(`fail_build`), `failStage` (`fail_stage` up to the read in `fail_stage_run`),
`failWrite`, `failBuild`. A sweeper lists expired rows and handles them one by
one. Each write transaction is one action; reads that no write of the same
process separates are merged into one.

Tokens are numbered in the order they are issued. All locks have the same time
to live, so they expire in this order and the clock is one number, `expired`:
`expires_at <= now` is `token <= expired`. `preempted` is a history variable: the
tokens a sweep took away before they expired.

`Crash` drops a worker's task at any point; `Receive` delivers any task at any
time, so redelivered, duplicated, delayed and lost messages are all included.
Not included: an SQLite error inside a transaction, `LIMIT` of the sweep's query.

### StageCheckpoint

`ckpt` is the JSON document reduced to what `verify_stage_done` looks at: the
markers, and for each stage the token of the worker whose artifacts are stored
(0: none). `Read` and `Write` are the two halves of `save_checkpoint` and of
`complete_stage_with_checkpoint`: sqlite3 begins a transaction at the first
UPDATE, so the SELECT before it is outside. A process's copy is `snap`. `Others`
are processes that save other keys of the same document. `SelfMarking` are the
stages whose own save writes their marker (the marker of `stage_checkpoint` is
named after the pipeline state, which coincides with the stage for planning,
reviewing, ranking and packaging). `lost` is a history variable.

All the rest is the step of `StageLocks` of the same name, with `done`
computed from `ckpt`.

### PipelineStages

No state: the order of stages, the states of a build and `CanTransition`, the
tables between stages, phases and states, `FirstIncomplete`
(`canonical_next_stage`) and `ResumeStage` (`resolve_resume_stage`). What a stage
does is data: `Units` gives for each stage its units of work, in the order of
the agent's `run`, each with the phase it enters, the keys that make it be
skipped, the keys it needs, saves, may save, clears and must have, and the
marker it sets as a side effect. A checkpoint is a set of keys and stages, a
stage standing for its marker; `DoneIn` is `checkpoint_satisfies_stage`. What a
unit computes is abstracted to which of its keys come out of it, plus two facts
the artifacts carry: whether some attempt passed validation, and whether the
final code did.

### BuildPipeline

One build with everything that writes to it.

| variable | in the program |
|---|---|
| `row`, `issued`, `expired`, `pc`, `task`, `held`, `spc`, `listed`, `victim`, `preempted` | those of `StageLocks` |
| `build`, `results` | `builds.status`, `builds.results_json` |
| `pstatus`, `rphase`, `ckpt` | `pipeline_state.pipeline_status`, `resume_phase`, `checkpoint_json` |
| `sent` | the stages a `run_stage` message was sent for |
| `run[w]` | the execution of a stage: step, unit, the state its `PipelineStateMachine` remembers (`cur`), the context (`mem`), the document it has read and will write back (`snap`) |
| `prep[p]` | the recovery transition process `p` is making |
| `used` | how much of the bounds on boots, crashes and dispatches is used |
| `once` | history: the stages that have been done at some time |

An action is one write transaction, or a run of reads no write of the process
interrupts. A worker in `pc = "run"` goes `load` (`hydrate_from_db`), and for
each unit `enter`, `note`/`noted` (the save inside `enter`: read and write
halves), `work`, `save`, for the planner `again`, then `ok`/`complete`
(`complete_stage_with_checkpoint`). Failure is `fail`, `applyFailed`,
`trace`/`traced`, `results`, `failed`, the five writes of
`PipelineStateMachine.fail` and `_finalize_failure`; errors the runner knows go
straight to `results`. The API's dispatch, the periodic recovery and startup
recovery are `Resolve` and the actions on `prep` after it
(`dispatch_build_recovery`); `begin_stage` on an interrupted build uses the same
actions. `Boot` is `mark_stale_running_builds`, which every process runs that
opens the database.

The broker is the set `sent`, which only grows: a message may be delivered at
any time, any number of times, or never. This includes redelivery, reordering,
duplicates and loss, and allows more than a broker does.

Left out: percent, messages and logs; the `pipeline_dispatch` table (that is
`DispatchSlots`); the in-process `run()` of the runner; the `force` argument of
`dispatch_build_recovery`, which no caller sets.

### BuildProgress

The promise: stages are finished one at a time, each once, in the order of the
pipeline, and the build is shown complete only when all stages before
`finalize` are. `BuildPipeline` maps `once` to `finished` and
`build = "complete"` to `complete`.

### DispatchSlots

One stage of one build. `slot` is its row in `pipeline_dispatch` (a pending row is
`fresh` or, past `DISPATCH_TTL`, `stale`); `queue` counts the messages in the
broker by how often they were retried; `holder` and `expired` are the lease,
`stage` whether it is still to do. `ping` is `_broker_ping_ok`, which a process
asks for once and keeps. `Chain`, `Recover` and `Resume` are the three who send:
`run_stage_guarded` for the next stage, the periodic recovery, the API. They go
through `ClaimRead`, `ClaimWrite` (`try_claim_dispatch`: SELECT, then DELETE and
INSERT), `Send` (`send_task`), `Register` (`register_dispatch`) or `Clear`. Reading
a row lets the sender delete it; without one, the INSERT of the slower process
meets the primary key and raises. `NotSent` is the answer None of
`enqueue_stage`, for which the API executes the stage itself (`Inline`).

A message is skipped when the stage is done, sent back when it is locked
(`Resent`, `max_retries` times, then dropped), or executed. `Crash` returns the
message of a dead worker (`acks_late`); `Outage` may lose all that are queued.
`claims` and `reopened` are history variables.

### Deliverable

What the keys of the checkpoint hold. A code is empty, passes the gate or does
not; an attempt has an id, a code and the builder's word that it succeeded. A
worker loads the checkpoint (`ctx`), does the units of its stage one by one
(`at`), and each `Save` merges the keys it writes into the stored document
(`ckpt`) and its copy. A worker may die between any two units; a lease may run
out under a live worker (`Overrun`), which then goes on with its old copy next
to the new holder, as the code does.

`Build`, `Fallbacks`, `Validate` (the repair loop, and `Minimum`), `ScoreBuilders`,
`Review`, `Rank`, `Iterate` and `Check` (`build_novelty`, `_validate_final_code`),
`Package`, `Record` and `NoteRecorded`, `Publish` and `SaveResults` are the units in
the order of the stages; `End` sets the marker, `Raise` is `_finalize_failure`. What
the repair loop keeps is decided by the code alone, so its bounded rounds are
one step; the generator of replacements (`template`) is any function of the
stack. The gate is a function of the code: it is deterministic in the program.
The text of an error a model returned is a code that does not pass.

### TraitRanking

`Parsed` is the correction of an answer, `Fallbacks` the random vectors, `Beats`
is `compare_two` on them. The comparison has cycles, so what a sorted list
promises depends on the sort: `CountRun`, `EndRun`, `Search` and `Insert` are
CPython's `list.sort` for fewer than 64 elements (a build has at most ten
attempts), one comparison per step; these are external to the repository. The
third criterion of `compare_two` compares the numbers of the first again and
never decides. That the sorted list holds each attempt once is the promise of
`list.sort`, not of this code, and no property; the proofs use it as a lemma.

### LLMClient

Calls of one process (`Here`) and of another (`There`, the settings page or a
second worker). `file` is `data/api_keys.json`; `Read`, `Truncate` and `Fill` are
`get_next_key`, which reads the file, takes the first key of a bucket, puts it
at the end and rewrites the file in place: in between the file is `torn` and
reads as empty. Within a process this is one step of the event loop (`Alone`);
nothing orders it between processes. The editor saves a bucket of keys
(`update_config`). A call is patient (with retries, as builders call) or not; its
search for a key that is not cooling looks at `Tries` keys and takes the next one.
Cooldowns are kept by the first eight characters of a key (`_key_hash`), so a
refused key cools all that share them: `Prefixes` is the partition of the keys
into such groups, `KeyHash` the group of a key. Keys of one provider share a
prefix, those of different ones do not; the partition is any.
`why` tells what the last refusal was, `Choose` what follows: another key, the
key of the environment, the fallback model, the same again, or the end. A
cooldown ends at any time. `wanted` and `clash` are history variables: what the
user saved, and whether two processes were in the file at once or one died in it.

## 4. Runs

| run | shows | bounds |
|---|---|---|
| StageLocksTwoWorkers | types; the token fence (`LockInv`); exclusion unless a sweep preempts; only the holder completes a row; each lock is given up in the end | 2 workers, 1 sweep, 1 stage, 4 locks, attempt limit 2 |
| StageCheckpointSafety | types; a completed row is marked unless a stale write erased the marker; refinement of `StageLocks` | 2 workers, 1 other writer, 3 locks |
| BuildPipelineWhole | types; refinement of `BuildProgress` and of `StageLocks`; stages start in order; phases are entered legally, only validated attempts reviewed, results there when complete, each unless a named interruption happened | nine stages, 1 worker, 10 locks, 1 crash, the starting dispatch |
| BuildPipelineLive | every step is one of `BuildProgress`; the build becomes complete or failed | last two stages, 1 worker, 6 locks, 1 crash, 1 boot, 1 dispatch |
| DispatchSlots | types; a slot is claimed once; it does not become pending after it was consumed; the stage is executed in the end unless a worker wrote the broker off | 1 worker, 1 API process, 2 messages, 3 retries, one outage, crash, overrun and redelivery |
| TraitRanking | types; half of each quota of scores is reached; no attempt directly behind one it beats; an attempt that beats all wins | 3 attempts, 4 traits of which an answer leaves out 1, quota 2 |
| Deliverable | types; the package passed the gate; reviews and winner fit the attempts; no failure for the code after the repair stage; nothing on the leaderboard fails; a complete build has results; a rating is kept | 2 tool stacks, 1 worker, 1 overrun, 1 crash |
| LLMClient | types; saved keys are kept; a call gives up; a cooling key is taken at the end of a search only; each call returns | 2 calls, 1 slot, 3 keys and that of the environment in 2 groups of a prefix, 1 rotation that looks further, 1 retry, 1 save, 1 death |
| BuildPipelineUnfinished | violated: a build shown complete has its results | from finalize, 1 dispatch |
| BuildPipelineDisagree | violated: the two statuses of a failed build agree | from ranking |
| DispatchSlotsOutage | violated: missing stages are sent again after an outage | 1 worker, one outage |
| DeliverableOverrun | violated: what is packaged passed the gate, also when a lease ran out | 2 workers, 1 stack, 1 overrun |

Why the bounds are enough. Every hazard of the lease needs two contenders for
one row; a third token lets a lock be taken, expire, be taken over and be
preempted within a behaviour, a fourth exceeds the attempt limit. Nine stages
take nine locks, a crash one more, so `BuildPipelineWhole` reaches the end of a
build through a crash at any step. Runs "from" a stage begin in `SegmentInit`
(`MCBuildPipeline`): the state of a build whose earlier stages went through
without failure, with their messages still deliverable. The last two stages have
what matters for ending: a stage after which another is sent, one that ends the
build, and the phases that lead to the terminal states. Two workers, sweeps and
recoveries in the whole pipeline at once are beyond TLC; for them the theorems of
section 5 hold without any bound.

The dispatch has two kinds of senders and one kind of receiver, and each of its
races has two sides: a claim against a claim, a registration against a worker,
an outage against a send. A cycle of the comparison needs three attempts, and the
third is inserted by a search in a run of two or ends a run of three; with four traits and a
quota of two the correction meets its own traits and falls short of the quota.
`NeighboursInOrder` and `BestWins` are proved for any number of both. Two stacks make
four attempts, so that one may fail, one may be replaced by code that does not
pass and the minimum of two may be missed. Two calls and one slot make one call
wait for another; three keys are a bucket that rotates and, with `Tries` at one,
one key more than a search looks at, as twelve would be for the ten of the code.
One stored key shares its prefix with that of the environment, two with each
other, so a refusal cools one group or both. `There` is empty in the run: the other
process of it is the settings page, which is enough for a clash over the file.

Deadlock. Releasing expired locks (`canonical_next_stage`, called at any time) is
a step of every state of the pipeline, so TLC's check finds nothing there; that
nothing waits for ever is what `EveryLockEnds` and `BuildEnds` say. The other four
modules stop when the stage, the sort, the build or the calls are over, and
`CHECK_DEADLOCK FALSE` says so; `Delivered` and `CallsReturn` say that they get there.

Fairness. `StageLocksTwoWorkers`: the clock advances, and a sweep that is due is
carried out (Celery Beat starts one every `RECOVERY_INTERVAL_SECONDS`); workers
get none, they may stop for ever. `BuildPipelineLive`: a living process takes
its next step; the clock advances; the message that is still owed (`Owed`) is
delivered in the end. `task_acks_late` makes the broker deliver again what a
dead worker did not acknowledge, and the periodic recovery sends again what was
lost. Crashes, boots and dispatches get no fairness. Fairness on the message is
strong, because a worker is busy from time to time.
`DispatchSlots`: a process in the middle of something goes on (weak); rows age,
leases of the dead run out, the broker comes back (weak); a queue is first in,
first out and beat keeps sending, so that receiving and recovering, each
possible again and again, happen (strong). The recovery is in the beat schedule
of `worker/celery_app.py` and docs/WORKERS.md:47 counts on it, but
`scripts/run_workers.sh` starts no beat; without one `Delivered` is not justified.
`LLMClient`: a call goes on when its process can (weak); a provider that is asked
again and again gives an answer or a final error some time (strong). The second
is an assumption about the provider, and it is needed: with a stored key the
loop for NVIDIA's 429 never reaches its check of the retry count
(core/pipeline_domain.py:1252), and two OpenRouter keys replace each other for
as long as both are refused.

Each passing property has a mutant: an operator that stands in the module next
to the definition it varies, introduced by "Variant:", with which the property
must fail. They are used by no other definition.

### What the violations show

- `BuildPipelineUnfinished` (core/stage_state_machine.py:31): recovery at
  `finalize` stores `complete` before the stage has run; the message then meets a
  terminal build.
- `BuildPipelineDisagree` (core/stage_coordinator.py:230): for the errors the
  runner knows, `fail_build` is skipped and `pipeline_status` stays active.
- `DispatchSlotsOutage` (core/build_queue.py:77): one send into an outage sets
  `_broker_ping_ok`, and that process never sends again.
- `DeliverableOverrun` (core/pipeline_context.py:310): saves are not fenced by
  the token, and code and verdict are separate keys: the code of a worker that
  outlived its lease is packaged under the verdict of its successor.

### Where the code does less than its words

Some properties carry a condition, "unless". Without it they fail, and the
condition names what the code does not prevent:

- `ExclusiveUnlessPreempted`: docs/WORKERS.md:33 promises one running lock per
  stage until it expires, but a sweep resets any running row of the stage, also
  one acquired again since the sweep listed it (core/database.py:1122).
- `MarkedUnlessLost`: core/database.py:1001-1005 wants marker and row completed
  together; the document is read before the transaction that writes it
  (core/database.py:637), so a stale writer may erase the marker.
- `EntersUnlessRecovered`: recovery moves a build to `reviewing`, but the
  stage's first phase belongs to `generating` (core/stage_state_machine.py:122,
  agents/reviewer.py:28). With two workers it fails also without any recovery: one
  fails the build while the other is past its check for a terminal build and is
  about to enter a phase.
- `ReviewedUnlessCrashed`: the repair stage saves its verdict before it raises
  for want of valid attempts (agents/repair.py:143); after a crash in between the
  stage counts as done. The same comes of a recovery that was resolved before the
  build failed and stores its state after (a second dispatch), and of a process
  that opens the database while the repair fails (a boot): the message delivered
  again then moves the failed build on. Two workers, one of which outlived its
  lock, reach it too.
- `ResultsUnlessInterrupted`, `ResultsUnlessCrashed`: the build is shown complete
  before its results are stored. With two workers, one of which outlived its
  lock, and a second dispatch it fails without a crash.
- `NoLateFailure`, `RecordedSucceeds`: a score of a builder review that is no
  number fails the build in finalize, after it was packaged and recorded.
- `SkipsCooling`: "Rotate OpenRouter keys, skipping any in cooldown"
  (core/pipeline_domain.py:1211) is kept for as many keys as one search looks at,
  and a key cools with all that share its first eight characters
  (core/pipeline_domain.py:1184). The keys OpenRouter hands out all begin with the
  same eight, so as soon as one is refused the search passes over every stored
  key and ends wherever its rotations lead, at the refused one as well. The
  property says what is left: a cooling key is taken only after `Tries` others
  that cool as well.
- `HalfSpread`: "ensure at least 5 ones and 5 fives" (core/pipeline_domain.py:415).
  The correction counts from the ends of the sorted list, where the traits
  stand that have the score already, so only half of a quota is certain. It may
  also turn the order of two attempts: with a quota of one, scores 5, 3, 3 become
  5, 1, 3 and lose to 3, 3, 3, which become 1, 3, 5.
- `KeysKept`: two processes in the file of keys, or a death in it, lose keys.
- `Delivered`: unless a worker has written the broker off.

Also reachable, and noted with the hazards in `PROJECT.json`: a completed row that
becomes failed, attempts beyond the limit, artifacts saved by a worker without
the lock, a build failed by a worker that lost its lock, a stage that the API
executes inline while its message is on the way (core/build_queue.py:131 says
"no broker" for every None).

## 5. Proofs

`StageLocksProofs`: `TypeCorrect`; `TokensFence`, the inductive invariant
`LockInv`; `Exclusion`; `CompletionFenced`. `ExclusiveUnlessPreempted` alone is
not inductive: that two unexpired, unpreempted holders of a stage are one needs
that such a holder's token is still in the row (`HolderKeepsRow`), which needs
that no one else holds the token (`OneEffectiveHolder`) and that a token names
one row and one stage (`TokenOwnership`). All steps but `Acquire` only lose
tokens (`LosingTokens`); `Acquire` adds a fresh one to a row without a live one
(`GainingToken`).

`StageCheckpointProofs`: `Implements`, each step is a step of `StageLocks`;
`FencedUnderCheckpoint`, what that carries over; `MarkersLostOnlyByStaleWrites`.

`PipelineStagesProofs`: lemmas about the tables. `FirstIncomplete` yields a stage
all of whose predecessors are done; `ResumeStage` does too, if the stored phase
leads to such a stage; each unit of a stage names phases, states and keys of its
own stage; a stage's save writes no key that would finish a later stage; a unit
clears a key only while it is itself still to be saved, so none that a finished
stage rests on (`UnitPlaces`); the states of the stages follow the order of the stages
(`StateOrder`). They are proved by going through the nine stages.

`BuildPipelineProofs`: the invariant is `IInv == TypeOK /\ UnitInv /\ OrderInv`.

- `TypeOK` is not inductive by itself: the step `enter` needs that the unit the
  worker is in exists and has a phase, which is `UnitInv`.
- `StartsInOrder` speaks of the moment a stage is executed, but the stage was
  chosen long before, from a checkpoint that has changed since. `OrderInv` follows
  the choice: each stage in `sent`, in a worker's `task` and in a recovery's
  `prep` is `Ready` (its predecessors have been done at some time), and the
  stored phase, and the one a recovery will store, name no stage that is not
  (`Hint`), because `resolve_resume_stage` may prefer the phase to the
  checkpoint. `once` and not `DoneIn(ckpt)` must be used, because stale writes
  take stages back.
- From it: `BuildTypes`, `StagesStartInOrder`, and `BuildImplementsStageLocks`, by
  one step per action; `FencedInBuild` carries the fence over.
- `BuildImplementsProgress`: added to `IInv` is `FinishInv`: every copy of the
  checkpoint a process may still write back shows only stages that have been
  done, so a stale write finishes nothing; a save, or
  `complete_stage_with_checkpoint`, adds to such a copy keys or a marker of one
  ready stage only (`SaveFinishes`, from `UnitsWriteBehind`), so each step
  finishes at most one stage, and in order. `ProgressFromAnywhere` states the same
  for behaviours that begin in any state with `IInv /\ FinishInv`, as those of
  `SegmentInit` do.
- `OneWorkerEnters`, `OneWorkerReviews`, `OneWorkerResults` have the hypothesis
  `OneWorker`, and hold while the build was dispatched once and no process opened
  the database (`Calm`), with any number of recovering processes, sweeps, crashes,
  expired locks and repetitions. The counterexamples of section 4 show that the
  first two need all of this. The third is not known to need that no database was
  opened: from finalize, TLC finds no violation with one or two boots.

What one worker needs is `SInv`, because each of the three relates what a worker
holds in memory to what was stored long before:

- `QuietInv`: until the first stage is sent nothing has happened, and after it no
  process makes a recovery; so the worker is the only writer from then on.
- `ExecInv`: the worker's context and its copy are the stored checkpoint; the unit
  it is in is still to be saved, because a unit that saved its keys is skipped;
  the state its `PipelineStateMachine` remembers is not past that of its stage.
- `StoreInv`: no stage that was done is lost, and the stored state is not past
  that of a stage still to be done. With this an `enter` moves forward in the
  linear order of states, which `CanTransition` allows: the first theorem.
- `BeginInv`: a stage is begun only while it and the build have not ended. The
  check before the lock is enough for one worker, as nothing happens in between.
- `PassedInv`: while there was no crash, a repair that found no attempt that
  passes is on its way to fail the build, or has, and no stage begins any more:
  the second theorem.
- `ResultsInv`: while there was no crash, a build shown complete without results is
  in the hands of its finalize stage, before the save of the results or on the
  failure path: the third theorem.

`DispatchSlotsProofs`: `DispatchTypes`, and with it that no count of messages is
negative and none is retried beyond `max_retries`. `OneSender`: `OneClaim` adds to
`ClaimedOnce` that while nothing reopened the slot, its row is there exactly if
it was claimed, and that a process between SELECT and INSERT that saw a row
implies the slot was reopened. `LateRegistration`: of all steps only the INSERT
of a claim makes a consumed row pending.

`TraitRankingProofs`: `RankingTypes`, with `InsertOK` (an element is inserted only
while there is one). `NoUpset` and `WinnerFirst`: `Sorted` follows the run and
the search: neighbours in the sorted part are in order, the element to insert
does not beat its left neighbour at `lo - 1` and beats the one at `hi`; an attempt
that beats all others can then have none before it, and is in the list because
turning a run and inserting reindex it by a bijection (`Permuted`, `Reindexed`). From the comparison
only `Asymmetric` is used, that not both of two attempts beat each other;
transitivity does not hold and is not needed.

`DeliverableProofs`: `Types`, by the types of what each unit makes; that the repair
loop leaves attempts with the ids 1, 2, ... rests on `Places`, the numbering of a
finite set of numbers, and that on `Least`. `DInv` says that while no lease ran out the copy of the one
worker at work is the stored checkpoint (`Fits`), and that behind the marker of
novelty the verdict is about the code next to it (`Sound`). The two keys disagree
between the saves of a repeated novelty stage; what makes that harmless is that
the stage is not done then, or its verdict is FALSE, so packaging does not begin.
From it follow `GatePassed`; `ResultsStored` (between the status and the results
there is always the worker that will store them or fail the build); and
`RatingStays` (a worker about to write the entry finds none: `EntryDue`).
`EInv` relates the keys to each other and to the units that may still be executed.
`Consistent`: reviews and winner are about the attempts the repair loop left, and
exist only behind its marker. `Within`: the unit a worker is in is one whose
inputs are there and will not be replaced, as a stage is begun only behind the
markers of those before it, and a marker stands only where its key is. `Healthy`:
without a crash what is validated passes the gate, unless the repair stage is
about to raise. From it `ReviewsStay`; `LateSuccess` (a build that is to fail after
the repair stage has an odd score); `RecordedBuilds` (what is on the leaderboard
has all before it done, and fails for an odd score only).

`LLMClientProofs`: `KInv` says that while there was no clash at most one user is
in the file, what it read is what the file holds, and each bucket has the keys
that were saved in it; a rotation keeps the set of keys (`RotationKeeps`).
`KeysStay` follows. `CallsGiveUp`: without a stored key a call's refusals never
exceed its retries by more than the one that is being dealt with, because the
fallback model is taken while no retry has been used (`Counted`). `Types` is not
inductive by itself: that the semaphore never exceeds its slots needs that the
calls that hold one and what is left add up to no more (`Slack`), and that a call
always has a key to ask with needs `Sensible`. `CoolingSkipped`: along a search every
key it passed was cooling and stands behind those still to come (`Passed`), so a
search that ends at a cooling key leaves `Tries + 1` cooling keys at the end of
the bucket, or only such. It holds for any number of keys and any `Prefixes`. That no
key which nobody refused is left out does not follow (section 4).

Assumptions: `StageLocksAssumption`, `StageCheckpointAssumption`,
`BuildPipelineAssumption` (types of the constants, disjointness of workers and
other processes, no stage named like the "no stage" value), `ProcessesAssumption`,
`RetriesAssumption`, `TraitsAssumption`, `AttemptsAssumption`, `WorkersAssumption`,
`StacksAssumption`, `KeysAssumption`, `PrefixesAssumption` (each key has one prefix), `CallsAssumption` (a call belongs to one
process, and there are finitely many), `BoundsAssumption` (of the deliverable and
of the client: bounds are numbers), of the same kind. Nothing bounds the number of
processes, attempts, traits, stacks, keys or calls. `OneWorker` is a hypothesis of
single theorems.

Model-checked only: liveness (`EveryLockEnds`, `BuildEnds`, `Delivered`,
`CallsReturn`), because fairness and ENABLED are out of the prover's reach;
`HalfSpread`, which needs a count by induction over the places of a sorted list; the
violations, which are counterexamples; that results are stored although a process
opened the database (see `OneWorkerResults`).

## 6. Not modelled

- Errors of SQLite or of the file system inside a step, and the checks of
  arguments, except where the code handles them by another path.
- `cluster_locks`: it only thins out recoveries, which the models allow at any
  time.
- `auto_resume_on_startup` apart from `dispatch_build_recovery`, which it calls.
- The in-process `run()` of the runner, which repeats the stages without leases.
- What the gate looks at (syntax, size, placeholders), prompts and parsing of
  answers: a code passes or does not.
- The rankers before `TraitVectorRanker` and `compare_pair`, which no stage calls;
  `add_key` and `remove_key`, which nothing calls; rate limiters and delays, which
  only take time.
- `sync_to_files`'s reset of the reviewer's copy (core/pipeline_context.py:301),
  which is not written back.
- Pages, websockets, settings other than keys, queries of the leaderboard, the
  tools' file and process I/O beyond their outcome, scripts: no state that
  outlives a call, or presentation.

Left for later: the cluster lock with several starting processes; the in-process
runner as a second refinement of `BuildProgress`; `OneWorkerResults` without the
condition on boots, which needs to know when a boot leaves the state of a build
behind that of its row.
