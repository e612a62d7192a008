--------------------------- MODULE DispatchSlots ---------------------------
(* The dispatch of one stage of one build: who may send the run_stage      *)
(* message, what becomes of it, and who sends it again.                    *)
(*                                                                         *)
(*   core/build_queue.py     enqueue_stage, dispatch_build, inline runs    *)
(*   core/database.py        pipeline_dispatch: claim, register, consume,  *)
(*                           clear                                         *)
(*   core/stage_coordinator  begin_stage, fail_stage, recovery             *)
(*   worker/tasks.py         run_stage and its three retries               *)
(*                                                                         *)
(* Workers are Celery processes: they chain the stage when its predecessor *)
(* ends, run the periodic recovery and execute messages.  Servers are API  *)
(* processes: they resume the build and fall back to running it inline.    *)
(* The lease is StageLocks reduced to its holder.                          *)
EXTENDS Naturals, FiniteSets, Functions

CONSTANTS
    Workers, Servers,
    MaxRetries,     \* run_stage's max_retries
    MaxMessages,    \* bound on messages and enqueuers at once
    MaxChains,      \* bound on how often the predecessor ends (redelivery)
    MaxOutages,     \* bound on broker outages
    MaxCrashes,     \* bound on deaths of processes
    MaxOverruns     \* bound on leases that expire under a live holder

Processes == Workers \cup Servers
NoOne == "no process"

ASSUME ProcessesAssumption == /\ Workers \cap Servers = {}
                              /\ NoOne \notin Processes
ASSUME RetriesAssumption == MaxRetries \in Nat

VARIABLES
    slot,       \* row of pipeline_dispatch; pending is "fresh" or "stale"
    queue,      \* messages in the broker, by how often they were retried
    holder,     \* process named by the running row of the stage
    expired,    \* that lease is past expires_at
    stage,      \* the stage: open, done, or its build failed
    up,         \* the broker answers
    ping,       \* _broker_ping_ok of each process
    pc,         \* where each process is
    saw,        \* the SELECT of try_claim_dispatch returned a row
    mail,       \* retries of the unacknowledged message a worker executes
    used,       \* how much of each bound is used up
    claims,     \* history: INSERTs that succeeded, counted up to 2
    reopened    \* history: the row aged, was consumed or was cleared

vars == <<slot, queue, holder, expired, stage, up, ping, pc, saw, mail, used, claims, reopened>>

Bound == [chains |-> MaxChains, outages |-> MaxOutages, crashes |-> MaxCrashes,
          overruns |-> MaxOverruns]
Spend(k) == used[k] < Bound[k] /\ used' = [used EXCEPT ![k] = @ + 1]

NoMail == MaxRetries + 1
Enqueuing == {"claim", "insert", "send"}
Executing == {"consume", "run", "unclaim", "failing"}
PCs == {"idle", "register", "clear", "inline"} \cup Enqueuing \cup Executing
Slots == {"none", "fresh", "stale", "consumed"}

Goto(p, l) == pc' = [pc EXCEPT ![p] = l]
Leased == holder # NoOne /\ ~expired
RoomForMessage ==
    SumFunction(queue) + Cardinality({p \in Processes : pc[p] \in Enqueuing})
        < MaxMessages

Init ==
    /\ slot = "none" /\ queue = [t \in 0..MaxRetries |-> 0]
    /\ holder = NoOne /\ expired = FALSE /\ stage = "open" /\ up = TRUE
    /\ ping = [p \in Processes |-> "unknown"]
    /\ pc = [p \in Processes |-> "idle"]
    /\ saw = [p \in Processes |-> FALSE]
    /\ mail = [w \in Workers |-> NoMail]
    /\ used = [k \in DOMAIN Bound |-> 0]
    /\ claims = 0 /\ reopened = FALSE

-----------------------------------------------------------------------------
(* Broker reachability: the first answer is kept for the life of the       *)
(* process.                                                                *)
Reachable(p) == ping[p] = "ok" \/ (ping[p] = "unknown" /\ up)
PingOnce(p) == ping' = [ping EXCEPT ![p] = IF Reachable(p) THEN "ok" ELSE "down"]

(* The predecessor of the stage ends on w: run_stage_guarded sends the     *)
(* next stage if _celery_enabled().                                        *)
Chain(w) ==
    /\ pc[w] = "idle" /\ stage = "open" /\ RoomForMessage
    /\ Spend("chains")
    /\ PingOnce(w)
    /\ IF Reachable(w) THEN Goto(w, "claim") ELSE UNCHANGED pc
    /\ UNCHANGED <<slot, queue, holder, expired, stage, up, saw, mail, claims, reopened>>

(* The periodic recovery, itself a message, reaches w.                     *)
Recover(w) ==
    /\ pc[w] = "idle" /\ up /\ stage = "open" /\ ~Leased /\ RoomForMessage
    /\ Goto(w, "claim")
    /\ UNCHANGED <<slot, queue, holder, expired, stage, up, ping, saw, mail, used, claims, reopened>>

(* dispatch_build on an API process: enqueue, or run the stage inline.     *)
Resume(s) ==
    /\ pc[s] = "idle" /\ stage = "open" /\ RoomForMessage
    /\ Goto(s, IF Leased THEN "inline" ELSE "claim")
    /\ UNCHANGED <<slot, queue, holder, expired, stage, up, ping, saw, mail, used, claims, reopened>>

-----------------------------------------------------------------------------
(* enqueue_stage: SELECT, then INSERT, then send_task, then register.      *)
NotSent(p) == Goto(p, IF p \in Servers THEN "inline" ELSE "idle")

\* Variant: a pending row counts whatever its age.
PendingOfAnyAge == slot \in {"fresh", "stale"}

StillPending == slot = "fresh"

ClaimRead(p) ==
    /\ pc[p] = "claim"
    /\ IF StillPending
       THEN NotSent(p) /\ UNCHANGED saw
       ELSE Goto(p, "insert") /\ saw' = [saw EXCEPT ![p] = (slot # "none")]
    /\ UNCHANGED <<slot, queue, holder, expired, stage, up, ping, mail, used, claims, reopened>>

(* A row that was read is deleted with the INSERT; without one the INSERT  *)
(* runs into the primary key if another process was faster, and raises.    *)
\* Variant: INSERT OR REPLACE.
InsertReplaces(p) == TRUE

InsertFits(p) == saw[p] \/ slot = "none"

ClaimWrite(p) ==
    /\ pc[p] = "insert"
    /\ IF InsertFits(p)
       THEN /\ slot' = "fresh" /\ Goto(p, "send")
            /\ claims' = IF claims < 2 THEN claims + 1 ELSE claims
       ELSE Goto(p, "idle") /\ UNCHANGED <<slot, claims>>
    /\ saw' = [saw EXCEPT ![p] = FALSE]
    /\ UNCHANGED <<queue, holder, expired, stage, up, ping, mail, used, reopened>>

Send(p) ==
    /\ pc[p] = "send"
    /\ IF Reachable(p) /\ up
       THEN /\ Goto(p, "register") /\ PingOnce(p)
            /\ queue' = [queue EXCEPT ![0] = @ + 1]
       ELSE /\ Goto(p, "clear") /\ UNCHANGED queue
            /\ ping' = [ping EXCEPT ![p] = "down"]
    /\ UNCHANGED <<slot, holder, expired, stage, up, saw, mail, used, claims, reopened>>

\* Variant: the UPDATE does not ask for status pending.
RegisteredWhenever == IF slot = "none" THEN "none" ELSE "fresh"

Registered == IF slot = "stale" THEN "fresh" ELSE slot

Register(p) ==
    /\ pc[p] = "register"
    /\ Goto(p, "idle")
    /\ slot' = Registered
    /\ UNCHANGED <<queue, holder, expired, stage, up, ping, saw, mail, used, claims, reopened>>

Clear(p) ==
    /\ pc[p] = "clear"
    /\ NotSent(p)
    /\ slot' = "none" /\ reopened' = TRUE
    /\ UNCHANGED <<queue, holder, expired, stage, up, ping, saw, mail, used, claims>>

-----------------------------------------------------------------------------
(* A message is taken from the broker; a locked stage sends it back, three *)
(* times, and then it is dropped.                                          *)
Skip(w, t) ==
    /\ stage # "open"
    /\ queue' = [queue EXCEPT ![t] = @ - 1]
    /\ UNCHANGED <<holder, expired, pc, mail>>

\* Variant: no max_retries.
ResentForever(t) ==
    [u \in DOMAIN queue \cup {t + 1} |->
        (IF u \in DOMAIN queue THEN queue[u] ELSE 0)
            + (IF u = t + 1 THEN 1 ELSE 0) - (IF u = t THEN 1 ELSE 0)]

Resent(t) == IF t < MaxRetries THEN [queue EXCEPT ![t] = @ - 1, ![t + 1] = @ + 1]
                               ELSE [queue EXCEPT ![t] = @ - 1]

Retry(w, t) ==
    /\ stage = "open" /\ Leased
    /\ queue' = Resent(t)
    /\ UNCHANGED <<holder, expired, pc, mail>>

Take(p) == stage = "open" /\ ~Leased /\ holder' = p /\ expired' = FALSE /\ Goto(p, "consume")

Receive(w) ==
    /\ pc[w] = "idle" /\ up
    /\ \E t \in 0..MaxRetries :
          /\ queue[t] > 0
          /\ \/ Skip(w, t)
             \/ Retry(w, t)
             \/ /\ Take(w)
                /\ queue' = [queue EXCEPT ![t] = @ - 1]
                /\ mail' = [mail EXCEPT ![w] = t]
    /\ UNCHANGED <<slot, stage, up, ping, saw, used, claims, reopened>>

(* The chain an API process runs in itself: it gives up at a lock.         *)
Inline(s) ==
    /\ pc[s] = "inline"
    /\ \/ Take(s)
       \/ (stage # "open" \/ Leased) /\ Goto(s, "idle") /\ UNCHANGED <<holder, expired>>
    /\ UNCHANGED <<slot, queue, stage, up, ping, saw, mail, used, claims, reopened>>

Consume(p) ==
    /\ pc[p] = "consume"
    /\ Goto(p, "run")
    /\ slot' = IF slot = "none" THEN "none" ELSE "consumed"
    /\ reopened' = TRUE
    /\ UNCHANGED <<queue, holder, expired, stage, up, ping, saw, mail, used, claims>>

Acknowledge(p) == mail' = IF p \in Workers THEN [mail EXCEPT ![p] = NoMail] ELSE mail

(* The stage completes: the marker is written whoever holds the lease.     *)
Finish(p) ==
    /\ pc[p] = "run"
    /\ Goto(p, "idle") /\ Acknowledge(p)
    /\ stage' = IF stage = "open" THEN "done" ELSE stage
    /\ IF holder = p THEN holder' = NoOne /\ expired' = FALSE ELSE UNCHANGED <<holder, expired>>
    /\ UNCHANGED <<slot, queue, up, ping, saw, used, claims, reopened>>

(* fail_build: the row, then the dispatch, then the build.                 *)
Fail(p) ==
    /\ pc[p] = "run" /\ stage = "open"
    /\ Goto(p, "unclaim")
    /\ IF holder = p THEN holder' = NoOne /\ expired' = FALSE ELSE UNCHANGED <<holder, expired>>
    /\ UNCHANGED <<slot, queue, stage, up, ping, saw, mail, used, claims, reopened>>

Unclaim(p) ==
    /\ pc[p] = "unclaim"
    /\ Goto(p, "failing")
    /\ slot' = "none" /\ reopened' = TRUE
    /\ UNCHANGED <<queue, holder, expired, stage, up, ping, saw, mail, used, claims>>

FailBuild(p) ==
    /\ pc[p] = "failing"
    /\ Goto(p, "idle") /\ Acknowledge(p)
    /\ stage' = "failed"
    /\ UNCHANGED <<slot, queue, holder, expired, up, ping, saw, used, claims, reopened>>

-----------------------------------------------------------------------------
(* The environment.                                                        *)
Age ==
    /\ slot = "fresh" /\ slot' = "stale" /\ reopened' = TRUE
    /\ UNCHANGED <<queue, holder, expired, stage, up, ping, pc, saw, mail, used, claims>>

(* A lease outlives its holder, or a holder its lease.                     *)
Lapse ==
    /\ expired' = TRUE
    /\ UNCHANGED <<slot, queue, holder, stage, up, ping, pc, saw, mail, claims, reopened>>

LapseOfDead == Leased /\ pc[holder] \notin Executing /\ Lapse /\ UNCHANGED used
Overrun == Leased /\ pc[holder] \in Executing /\ Spend("overruns") /\ Lapse

(* The broker goes away; its messages may be gone when it comes back.      *)
Outage ==
    /\ up /\ Spend("outages") /\ up' = FALSE
    /\ queue' \in {queue, [t \in 0..MaxRetries |-> 0]}
    /\ UNCHANGED <<slot, holder, expired, stage, ping, pc, saw, mail, claims, reopened>>

Restore ==
    /\ ~up /\ up' = TRUE
    /\ UNCHANGED <<slot, queue, holder, expired, stage, ping, pc, saw, mail, used, claims, reopened>>

(* A process dies and is started again; acks_late returns its message.     *)
Crash(p) ==
    /\ pc[p] # "idle" /\ Spend("crashes")
    /\ Goto(p, "idle")
    /\ ping' = [ping EXCEPT ![p] = "unknown"]
    /\ saw' = [saw EXCEPT ![p] = FALSE]
    /\ Acknowledge(p)
    /\ IF p \in Workers /\ mail[p] # NoMail /\ up
       THEN queue' = [queue EXCEPT ![mail[p]] = @ + 1]
       ELSE UNCHANGED queue
    /\ UNCHANGED <<slot, holder, expired, stage, up, claims, reopened>>

Enqueue(p) == ClaimRead(p) \/ ClaimWrite(p) \/ Send(p) \/ Register(p) \/ Clear(p)
Execute(p) == Consume(p) \/ Finish(p) \/ Fail(p) \/ Unclaim(p) \/ FailBuild(p)

Next ==
    \/ \E p \in Processes : Enqueue(p) \/ Execute(p) \/ Crash(p)
    \/ \E w \in Workers : Chain(w) \/ Recover(w) \/ Receive(w)
    \/ \E s \in Servers : Resume(s) \/ Inline(s)
    \/ Age \/ LapseOfDead \/ Overrun \/ Outage \/ Restore

Spec == Init /\ [][Next]_vars

(* A process that is somewhere goes on; time passes; beat keeps sending    *)
(* its recovery; the broker's queues are first in, first out, so that a    *)
(* waiting message is not overtaken for ever.                              *)
Fairness ==
    /\ \A p \in Processes : WF_vars(Enqueue(p) \/ Execute(p))
    /\ \A w \in Workers : SF_vars(Receive(w)) /\ SF_vars(Recover(w))
    /\ \A s \in Servers : WF_vars(Inline(s))
    /\ WF_vars(Age) /\ WF_vars(LapseOfDead) /\ WF_vars(Restore)

FairSpec == Spec /\ Fairness
-----------------------------------------------------------------------------
(* The values of the variables.                                            *)
TypeOK ==
    /\ slot \in Slots
    /\ queue \in [0..MaxRetries -> Nat]
    /\ holder \in Processes \cup {NoOne} /\ expired \in BOOLEAN
    /\ stage \in {"open", "done", "failed"} /\ up \in BOOLEAN
    /\ ping \in [Processes -> {"unknown", "ok", "down"}]
    /\ pc \in [Processes -> PCs]
    /\ saw \in [Processes -> BOOLEAN]
    /\ mail \in [Workers -> 0..NoMail]
    /\ used \in [DOMAIN Bound -> Nat]
    /\ claims \in 0..2 /\ reopened \in BOOLEAN

(* try_claim_dispatch, "claim exclusive dispatch slot": SELECT and INSERT  *)
(* are two transactions, and yet only one of the processes that enqueue a  *)
(* stage at once sends it, as long as the row did not age out and was not  *)
(* consumed or cleared.                                                    *)
ClaimedOnce == ~reopened => claims <= 1

(* A row that was consumed becomes pending again only by a new claim,      *)
(* never by an enqueuer that registers its message after the worker began. *)
ConsumedUntilClaimed ==
    [][slot = "consumed" /\ slot' \in {"fresh", "stale"} =>
           \E p \in Processes : pc[p] = "insert" /\ pc'[p] = "send"]_vars

(* The stage is executed in the end, whatever messages the broker lost or  *)
(* dropped and whoever died, unless a worker has written the broker off.   *)
Delivered == <>(stage # "open" \/ \E w \in Workers : ping[w] = "down")

(* docs/WORKERS.md:47: the recovery sends missing stages again when Redis  *)
(* lost them.                                                              *)
RecoveredFromOutage == <>(stage # "open")
=============================================================================
