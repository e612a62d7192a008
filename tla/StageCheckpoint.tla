--------------------------- MODULE StageCheckpoint ---------------------------
(***************************************************************************)
(* The checkpoint of a build (pipeline_state.checkpoint_json) under the    *)
(* lease table of StageLocks.  AppDatabase.save_checkpoint and             *)
(* complete_stage_with_checkpoint read the whole JSON document, merge      *)
(* their keys into it and write it back; the read is not in the            *)
(* transaction of the write (sqlite3 opens one at the first UPDATE), so    *)
(* what another process wrote in between is lost.                          *)
(*                                                                         *)
(* Of the document the model keeps what verify_stage_done looks at: the    *)
(* marker of each stage and whose artifacts are stored for it.             *)
(***************************************************************************)
EXTENDS Naturals

CONSTANTS
    Workers, Sweepers, Stages, Final, Active, MaxAttempts, MaxTokens,
    Others,       \* processes that save other keys: recovery, the API
    SelfMarking   \* stages whose own save_checkpoint writes their marker

VARIABLES
    row, build, issued, expired, pc, task, held, spc, listed, victim, preempted,
    ckpt,     \* the stored document
    snap,     \* the document each process has read and not yet written back
    lost      \* history: stages whose marker a stale write has erased

NoSnap == [marked |-> {}, author |-> <<>>]
Document == [marked: SUBSET Stages, author: [Stages -> Nat]]
DoneIn(c) == {s \in c.marked : c.author[s] # 0}

L == INSTANCE StageLocks WITH done <- DoneIn(ckpt)

ASSUME StageCheckpointAssumption ==
    /\ SelfMarking \subseteq Stages
    /\ Others \cap Workers = {}
    /\ L!NoStage \notin Stages
    /\ Active \cap {"complete", "failed"} = {}
    /\ MaxAttempts \in Nat
    /\ MaxTokens \in Nat

lockVars == <<row, build, issued, expired, pc, task, held, spc, listed, victim, preempted>>
ckptVars == <<ckpt, snap, lost>>
vars == <<lockVars, ckptVars>>

Processes == Workers \cup Others

-----------------------------------------------------------------------------
(* Reading the document and writing it back.                               *)

\* A worker reads the document only while it executes its stage; what it has
\* read is gone when it stops.
Forget(w) == snap' = [snap EXCEPT ![w] = NoSnap]

Read(p) ==
    /\ p \in Workers => L!Working(p)
    /\ snap[p] = NoSnap
    /\ snap' = [snap EXCEPT ![p] = ckpt]
    /\ UNCHANGED <<lockVars, ckpt, lost>>

Write(p, c) ==
    /\ snap[p] # NoSnap
    /\ ckpt' = c
    /\ lost' = lost \cup (ckpt.marked \ c.marked)
    /\ snap' = [snap EXCEPT ![p] = NoSnap]

WithArtifacts(c, s, token) == [c EXCEPT !.author[s] = token]

\* Variant: the transaction that completes the row leaves the checkpoint alone.
WithoutMarker(c, s) == c

WithMarker(c, s) == [c EXCEPT !.marked = @ \cup {s}]

\* ctx.save_checkpoint of the stage a worker executes.
SaveArtifacts(w) ==
    /\ L!Working(w)
    /\ LET c == WithArtifacts(snap[w], task[w], held[w])
       IN Write(w, IF task[w] \in SelfMarking THEN WithMarker(c, task[w]) ELSE c)
    /\ UNCHANGED lockVars

\* Variant: the row is completed whoever holds it (lock_token not passed on).
CompleteUnfenced(w) ==
    /\ L!Working(w)
    /\ Write(w, WithMarker(snap[w], task[w]))
    /\ row' = [row EXCEPT ![task[w]].status = "completed", ![task[w]].token = 0]
    /\ pc' = [pc EXCEPT ![w] = "verify"]
    /\ UNCHANGED <<build, issued, expired, task, held, spc, listed, victim, preempted>>

\* complete_stage_with_checkpoint.
Complete(w) ==
    /\ L!Working(w)
    /\ Write(w, WithMarker(snap[w], task[w]))
    /\ L!Complete(w)

\* save_checkpoint of keys no stage is verified by: percent, resume_phase,
\* error.
SaveOther(o) ==
    /\ Write(o, snap[o])
    /\ UNCHANGED lockVars

-----------------------------------------------------------------------------
(* The rest of a worker and of the lock table is that of StageLocks.       *)

Receive(w, s) == UNCHANGED ckptVars /\ L!Receive(w, s)

BeginStage(w) ==
    /\ UNCHANGED ckptVars
    /\ \/ L!CheckTerminal(w) \/ L!ReadRow(w) \/ L!Reset(w) \/ L!Acquire(w)
       \/ L!Refuse(w) \/ L!Refused(w)

\* The stage's own failure path marks the build failed before it returns.
MarkFailed(w) ==
    /\ L!Working(w)
    /\ build' = "failed"
    /\ UNCHANGED <<row, issued, expired, pc, task, held, spc, listed, victim,
                   preempted, ckptVars>>

StageFails(w) == Forget(w) /\ UNCHANGED <<ckpt, lost>> /\ L!StageFails(w)

EndStage(w) ==
    /\ UNCHANGED ckptVars
    /\ \/ L!Verify(w) \/ L!Fail(w) \/ L!FailStage(w) \/ L!FailWrite(w)
       \/ L!FailBuild(w) \/ L!Chain(w)

Crash(w) == Forget(w) /\ UNCHANGED <<ckpt, lost>> /\ L!Crash(w)

Sweep(x) == UNCHANGED ckptVars /\ L!SweepStep(x)
Expire == UNCHANGED ckptVars /\ L!Expire
Release == UNCHANGED ckptVars /\ L!Release

Init ==
    /\ ckpt = [marked |-> {}, author |-> [s \in Stages |-> 0]]
    /\ snap = [p \in Processes |-> NoSnap]
    /\ lost = {}
    /\ L!Init

Next ==
    \/ \E w \in Workers :
          \/ BeginStage(w) \/ SaveArtifacts(w) \/ Complete(w) \/ MarkFailed(w)
          \/ StageFails(w) \/ EndStage(w) \/ Crash(w)
    \/ \E w \in Workers, s \in Stages : Receive(w, s)
    \/ \E p \in Processes : Read(p)
    \/ \E o \in Others : SaveOther(o)
    \/ \E x \in Sweepers : Sweep(x)
    \/ Expire
    \/ Release

Spec == Init /\ [][Next]_vars

-----------------------------------------------------------------------------
(* Properties.                                                             *)

\* Every variable keeps its type; only a worker at work holds a snapshot.
TypeOK ==
    /\ L!TypeOK
    /\ ckpt \in Document
    /\ snap \in [Processes -> Document \cup {NoSnap}]
    /\ \A w \in Workers : snap[w] # NoSnap => L!Working(w)
    /\ lost \subseteq Stages

\* The lease table under a checkpoint written this way is the one StageLocks
\* describes, so what is proved of StageLocks holds of it.
ImplementsStageLocks == L!Spec

\* "Atomically mark a stage completed and persist the checkpoint marker"
\* (complete_stage_with_checkpoint).  What the transaction does give: a
\* completed row is marked unless a process that read the document before
\* the marker was there has written it back.
MarkedUnlessLost ==
    \A s \in Stages : row[s].status = "completed" => s \in ckpt.marked \cup lost

=============================================================================
