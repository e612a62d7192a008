------------------------ MODULE StageCheckpointProofs ------------------------
(***************************************************************************)
(* The stored checkpoint leaves the lease table what StageLocks says it    *)
(* is, and what the transaction of complete_stage_with_checkpoint gives.   *)
(***************************************************************************)
EXTENDS StageCheckpoint, TLAPS

\* The theorems of StageLocks, read of this module's state.
P == INSTANCE StageLocksProofs WITH done <- DoneIn(ckpt)

\* P and L are the same specification: StageLocksProofs extends StageLocks.
LEMMA SameAssumption == P!StageLocksAssumption
  BY StageCheckpointAssumption DEF P!NoStage, L!NoStage

\* The initial states of L and P agree.
LEMMA SameInit == L!Init = P!Init
  BY DEF L!Init, P!Init, L!NoStage, P!NoStage, L!NoRow, P!NoRow

\* The steps of L and P agree.
LEMMA SameNext == L!Next = P!Next
  BY DEF L!Next, P!Next, L!WorkerStep, P!WorkerStep, L!SweepStep, P!SweepStep,
     L!Receive, P!Receive, L!CheckTerminal, P!CheckTerminal, L!ReadRow, P!ReadRow,
     L!Reset, P!Reset, L!Acquire, P!Acquire, L!Refuse, P!Refuse,
     L!Refused, P!Refused, L!Complete, P!Complete, L!StageFails, P!StageFails,
     L!Verify, P!Verify, L!Fail, P!Fail, L!FailStage, P!FailStage,
     L!FailWrite, P!FailWrite, L!FailBuild, P!FailBuild, L!Chain, P!Chain,
     L!Crash, P!Crash, L!ListExpired, P!ListExpired, L!SweepReset, P!SweepReset,
     L!SweepFail, P!SweepFail, L!SweepFailWrite, P!SweepFailWrite,
     L!SweepEnd, P!SweepEnd, L!Expire, P!Expire, L!Release, P!Release,
     L!Outside, P!Outside, L!Goto, P!Goto, L!Leave, P!Leave,
     L!Terminal, P!Terminal, L!Done, P!Done, L!Ended, P!Ended,
     L!BuildStates, P!BuildStates, L!CanAcquire, P!CanAcquire,
     L!IsExpiredLock, P!IsExpiredLock, L!Expired, P!Expired,
     L!AcquiredRow, P!AcquiredRow, L!CompletedRow, P!CompletedRow,
     L!FailedRow, P!FailedRow, L!ReopenedRow, P!ReopenedRow,
     L!ResetRow, P!ResetRow, L!ReleasedRow, P!ReleasedRow, L!Settled, P!Settled,
     L!ExpiredRows, P!ExpiredRows, L!First, P!First, L!Preempts, P!Preempts,
     L!NoStage, P!NoStage, L!tableVars, P!tableVars, L!buildVars, P!buildVars,
     L!workerVars, P!workerVars, L!sweepVars, P!sweepVars

\* The state formulae of L and P agree.
LEMMA SameState == /\ L!TypeOK <=> P!TypeOK
                   /\ L!LockInv <=> P!LockInv
                   /\ L!ExclusiveUnlessPreempted <=> P!ExclusiveUnlessPreempted
  BY DEF L!TypeOK, P!TypeOK, L!Row, P!Row, L!Statuses, P!Statuses,
     L!Settled, P!Settled, L!PCs, P!PCs, L!BuildStates, P!BuildStates,
     L!Ended, P!Ended, L!Listed, P!Listed, L!NoStage, P!NoStage,
     L!LockInv, P!LockInv,
     L!OneEffectiveHolder, P!OneEffectiveHolder,
     L!TokenOwnership, P!TokenOwnership, L!HolderKeepsRow, P!HolderKeepsRow,
     L!Holding, P!Holding, L!Working, P!Working, L!Live, P!Live,
     L!Expired, P!Expired,
     L!ExclusiveUnlessPreempted, P!ExclusiveUnlessPreempted

\* The types of L and P agree after a step as well.
LEMMA SameTypes == L!TypeOK' <=> P!TypeOK'
  BY SameState, PTL

-----------------------------------------------------------------------------
(* Types, and the refinement.                                              *)

\* What a process writes back is a document again.
LEMMA Written ==
    ASSUME NEW c \in Document, NEW s \in Stages, NEW t \in Nat
    PROVE  WithMarker(c, s) \in Document /\ WithArtifacts(c, s, t) \in Document
  BY DEF Document, WithMarker, WithArtifacts

\* Every step writes a document.
LEMMA DocumentStep ==
    ASSUME TypeOK, [Next]_vars
    PROVE  /\ ckpt' \in Document
           /\ snap' \in [Processes -> Document \cup {NoSnap}]
           /\ lost' \subseteq Stages
<1> USE DEF Processes
<1>1. /\ ckpt \in Document /\ snap \in [Processes -> Document \cup {NoSnap}]
      /\ lost \subseteq Stages
  BY DEF TypeOK
<1>2. ASSUME NEW p \in Processes, NEW c \in Document, Write(p, c)
      PROVE  /\ ckpt' \in Document
             /\ snap' \in [Processes -> Document \cup {NoSnap}]
             /\ lost' \subseteq Stages
  <2>1. ckpt.marked \subseteq Stages
    BY <1>1 DEF Document
  <2> QED BY <1>1, <1>2, <2>1 DEF Write
<1>3. ASSUME NEW w \in Workers, L!Working(w)
      PROVE  task[w] \in Stages /\ held[w] \in Nat
  BY <1>3 DEF TypeOK, L!TypeOK, L!Working
<1>4. ASSUME NEW w \in Workers, SaveArtifacts(w) \/ Complete(w)
      PROVE  \E c \in Document : Write(w, c)
  <2>1. /\ L!Working(w) /\ snap[w] \in Document
    BY <1>1, <1>4 DEF SaveArtifacts, Complete, Write
  <2>2. task[w] \in Stages /\ held[w] \in Nat
    BY <1>3, <2>1
  <2>3. WithArtifacts(snap[w], task[w], held[w]) \in Document
    BY <2>1, <2>2, Written
  <2>4. /\ WithMarker(WithArtifacts(snap[w], task[w], held[w]), task[w]) \in Document
        /\ WithMarker(snap[w], task[w]) \in Document
    BY <2>1, <2>2, <2>3, Written
  <2> QED BY <1>4, <2>3, <2>4 DEF SaveArtifacts, Complete
<1>5. ASSUME NEW o \in Others, SaveOther(o)
      PROVE  \E c \in Document : Write(o, c)
  BY <1>1, <1>5 DEF SaveOther, Write
<1>6. ASSUME NEW w \in Workers, Forget(w), UNCHANGED <<ckpt, lost>>
      PROVE  /\ ckpt' \in Document
             /\ snap' \in [Processes -> Document \cup {NoSnap}]
             /\ lost' \subseteq Stages
  BY <1>1, <1>6 DEF Forget
<1>7. ASSUME NEW p \in Processes, Read(p)
      PROVE  /\ ckpt' \in Document
             /\ snap' \in [Processes -> Document \cup {NoSnap}]
             /\ lost' \subseteq Stages
  BY <1>1, <1>7 DEF Read
<1>8. CASE UNCHANGED ckptVars
  BY <1>1, <1>8 DEF ckptVars
<1> QED
  BY <1>2, <1>4, <1>5, <1>6, <1>7, <1>8
     DEF Next, vars, BeginStage, MarkFailed, StageFails, EndStage, Crash,
         Receive, Sweep, Expire, Release

\* Every step is a step of the lease table, or leaves all of it alone.
LEMMA RefinementStep ==
    ASSUME TypeOK, [Next]_vars
    PROVE  [L!Next]_(L!vars)
<1> USE DEF lockVars, ckptVars
<1>1. build \in L!BuildStates /\ "failed" \in L!BuildStates
  BY DEF TypeOK, L!TypeOK, L!BuildStates, L!Ended
<1>2. DoneIn(ckpt') \in SUBSET Stages
  BY DocumentStep DEF DoneIn, Document
<1>3. ASSUME UNCHANGED lockVars PROVE L!Outside
  BY <1>1, <1>2, <1>3 DEF L!Outside, L!tableVars, L!workerVars, L!sweepVars
<1>4. ASSUME NEW w \in Workers, SaveArtifacts(w) PROVE L!Outside
  BY <1>3, <1>4 DEF SaveArtifacts
<1>5. ASSUME NEW o \in Others, SaveOther(o) PROVE L!Outside
  BY <1>3, <1>5 DEF SaveOther
<1>6. ASSUME NEW p \in Processes, Read(p) PROVE L!Outside
  BY <1>3, <1>6 DEF Read
<1>7. ASSUME NEW w \in Workers, MarkFailed(w) PROVE L!Outside
  BY <1>1, <1>2, <1>7 DEF MarkFailed, L!Outside, L!tableVars, L!workerVars, L!sweepVars
<1>8. ASSUME NEW w \in Workers, BeginStage(w) \/ Complete(w) \/ StageFails(w)
                                \/ EndStage(w) \/ Crash(w)
      PROVE  L!Next
  BY <1>8 DEF BeginStage, Complete, StageFails, EndStage, Crash, L!Next, L!WorkerStep
<1>9. ASSUME NEW w \in Workers, NEW s \in Stages, Receive(w, s) PROVE L!Next
  BY <1>9 DEF Receive, L!Next
<1>10. ASSUME NEW x \in Sweepers, Sweep(x) PROVE L!Next
  BY <1>10 DEF Sweep, L!Next
<1>11. Expire \/ Release => L!Next
  BY DEF Expire, Release, L!Next
<1>12. CASE UNCHANGED vars
  BY <1>3, <1>12 DEF vars, L!Next
<1>13. L!Outside => L!Next
  BY DEF L!Next
<1> QED
  BY <1>4, <1>5, <1>6, <1>7, <1>8, <1>9, <1>10, <1>11, <1>12, <1>13 DEF Next

\* A worker stops executing its stage only by completing it, failing or dying.
LEMMA StopsWorking ==
    ASSUME TypeOK, [Next]_vars, NEW w \in Workers, pc[w] = "run", pc'[w] # "run"
    PROVE  /\ Complete(w) \/ StageFails(w) \/ Crash(w)
           /\ pc'[w] = "verify" => Complete(w)
<1> USE DEF lockVars, ckptVars
<1>1. pc \in [Workers -> L!PCs]
  BY DEF TypeOK, L!TypeOK
<1>2. ASSUME NEW v \in Workers, BeginStage(v) \/ EndStage(v) PROVE FALSE
  <2>1. pc[v] # "run" /\ \E c : pc' = [pc EXCEPT ![v] = c]
    BY <1>2 DEF BeginStage, EndStage, L!CheckTerminal, L!ReadRow, L!Reset, L!Acquire,
       L!Refuse, L!Refused, L!Verify, L!Fail, L!FailStage, L!FailWrite, L!FailBuild,
       L!Chain, L!Goto, L!Leave
  <2> QED BY <1>1, <2>1
<1>3. ASSUME NEW v \in Workers, Complete(v) \/ StageFails(v) \/ Crash(v)
      PROVE  v = w /\ (pc'[w] = "verify" => Complete(w))
  <2>1. Complete(v) => pc' = [pc EXCEPT ![v] = "verify"]
    BY DEF Complete, L!Complete, L!Goto
  <2>2. StageFails(v) => pc' = [pc EXCEPT ![v] = "fail"]
    BY DEF StageFails, L!StageFails, L!Goto
  <2>3. Crash(v) => pc' = [pc EXCEPT ![v] = "idle"]
    BY DEF Crash, L!Crash, L!Leave
  <2> QED BY <1>1, <1>3, <2>1, <2>2, <2>3
<1>4. ASSUME NEW v \in Workers, NEW s \in Stages, Receive(v, s) PROVE FALSE
  BY <1>1, <1>4 DEF Receive, L!Receive, L!Goto
<1>5. ASSUME UNCHANGED pc PROVE FALSE
  BY <1>5
<1>6. ASSUME NEW x \in Sweepers, Sweep(x) PROVE FALSE
  BY <1>5, <1>6 DEF Sweep, L!SweepStep, L!ListExpired, L!SweepFailWrite, L!SweepEnd,
     L!SweepReset, L!SweepFail, L!workerVars
<1>7. Expire \/ Release => UNCHANGED pc
  BY DEF Expire, Release, L!Expire, L!Release, L!workerVars
<1> QED
  BY <1>2, <1>3, <1>4, <1>5, <1>6, <1>7
     DEF Next, vars, SaveArtifacts, MarkFailed, Read, SaveOther

\* Only a worker at work holds a snapshot.
LEMMA SnapshotStep ==
    ASSUME TypeOK, [Next]_vars, NEW w \in Workers, snap'[w] # NoSnap
    PROVE  L!Working(w)'
<1>1. /\ snap \in [Processes -> Document \cup {NoSnap}] /\ w \in Processes
      /\ snap[w] # NoSnap => pc[w] = "run"
  BY DEF TypeOK, L!TypeOK, L!Working, Processes
<1>2. Complete(w) \/ StageFails(w) \/ Crash(w) => snap'[w] = NoSnap
  BY <1>1 DEF Complete, Write, StageFails, Crash, Forget
<1>3. snap[w] = NoSnap => Read(w)
  BY <1>1 DEF Next, vars, ckptVars, BeginStage, SaveArtifacts, Write, Complete,
     MarkFailed, StageFails, Forget, EndStage, Crash, Receive, Read, SaveOther,
     Sweep, Expire, Release
<1>4. Read(w) => pc[w] = "run" /\ pc' = pc
  BY DEF Read, L!Working, lockVars
<1> QED BY <1>1, <1>2, <1>3, <1>4, StopsWorking DEF L!Working

\* The initial states have their types and are initial states of the table.
LEMMA Initially == Init => TypeOK
<1> SUFFICES ASSUME Init PROVE TypeOK
  OBVIOUS
<1>1. L!TypeOK
  BY StageCheckpointAssumption
     DEF Init, L!Init, L!TypeOK, L!Row, L!NoRow, L!Statuses, L!BuildStates, L!PCs,
         DoneIn
<1>2. ckpt \in Document /\ snap \in [Processes -> Document \cup {NoSnap}] /\ lost \subseteq Stages
  BY DEF Init, Document
<1>3. \A w \in Workers : snap[w] = NoSnap
  BY DEF Init, Processes
<1> QED BY <1>1, <1>2, <1>3 DEF TypeOK

\* A step keeps every type: P's step lemma for the lease table, the rest above.
LEMMA TypesKept == TypeOK /\ [Next]_vars => TypeOK'
<1> SUFFICES ASSUME TypeOK, [Next]_vars PROVE TypeOK'
  OBVIOUS
<1>1. P!TypeOK /\ [P!Next]_(P!vars)
  <2>1. [L!Next]_(L!vars)
    BY RefinementStep
  <2> QED BY <2>1, SameNext, SameState DEF TypeOK, L!vars, P!vars
<1>2. P!TypeOK'
  BY <1>1, SameAssumption, P!TypeStep
<1>3. L!TypeOK'
  BY <1>2, SameTypes
<1> QED BY <1>3, DocumentStep, SnapshotStep DEF TypeOK

\* Every variable keeps its type, and only a worker at work holds a snapshot.
THEOREM CheckpointTypes == Spec => []TypeOK
  BY Initially, TypesKept, PTL DEF Spec

\* The checkpoint's readers and writers leave the lease table what StageLocks
\* says it is: every behaviour is one of StageLocks.
THEOREM Implements == Spec => ImplementsStageLocks
<1>1. Init => L!Init
  BY DEF Init
<1>2. TypeOK /\ [Next]_vars => [L!Next]_(L!vars)
  BY RefinementStep
<1> QED BY <1>1, <1>2, CheckpointTypes, PTL DEF Spec, ImplementsStageLocks, L!Spec

\* So the tokens fence under a shared checkpoint too, for any number of workers,
\* stages and other processes.
THEOREM FencedUnderCheckpoint ==
    Spec => [](L!LockInv /\ L!ExclusiveUnlessPreempted)
<1>1. [L!Next]_(L!vars) => [P!Next]_(P!vars)
  BY SameNext DEF L!vars, P!vars
<1>2. L!Init => P!Init
  BY SameInit
<1>3. P!Spec => []P!LockInv /\ []P!ExclusiveUnlessPreempted
  BY SameAssumption, P!TokensFence, P!Exclusion
<1> QED
  BY <1>1, <1>2, <1>3, Implements, SameState, PTL
     DEF ImplementsStageLocks, L!Spec, P!Spec

-----------------------------------------------------------------------------
(* Completed rows and their markers.                                       *)

\* What leaves the markers enters lost.
LEMMA MarkersKept ==
    ASSUME [Next]_vars
    PROVE  ckpt.marked \cup lost \subseteq ckpt'.marked \cup lost'
<1>1. ASSUME NEW p, NEW c, Write(p, c)
      PROVE  ckpt.marked \cup lost \subseteq ckpt'.marked \cup lost'
  BY <1>1 DEF Write
<1> QED
  BY <1>1 DEF Next, vars, ckptVars, BeginStage, SaveArtifacts, Complete, MarkFailed,
     StageFails, EndStage, Crash, Receive, Read, SaveOther, Sweep, Expire, Release

\* A completed row has its marker, unless a process that read the checkpoint
\* before the marker was there has written it back since.
THEOREM MarkersLostOnlyByStaleWrites == Spec => []MarkedUnlessLost
<1>1. Init => MarkedUnlessLost
  BY DEF Init, L!Init, L!NoRow, MarkedUnlessLost
<1>2. ASSUME TypeOK, MarkedUnlessLost, [Next]_vars PROVE MarkedUnlessLost'
  <2> SUFFICES ASSUME NEW s \in Stages, row'[s].status = "completed"
               PROVE  s \in ckpt'.marked \cup lost'
    BY DEF MarkedUnlessLost
  <2>1. CASE row[s].status = "completed"
    BY <1>2, <2>1, MarkersKept DEF MarkedUnlessLost
  <2>2. CASE row[s].status # "completed"
    <3>1. P!TypeOK /\ [P!Next]_(P!vars)
      <4>1. [L!Next]_(L!vars)
        BY <1>2, RefinementStep
      <4> QED BY <1>2, <4>1, SameNext, SameState DEF TypeOK, L!vars, P!vars
    <3>2. PICK w \in Workers : P!Complete(w) /\ task[w] = s
      BY <2>2, <3>1, SameAssumption, P!OnlyComplete
    <3>3. pc[w] = "run" /\ pc'[w] = "verify"
      BY <1>2, <3>2 DEF P!Complete, P!Goto, TypeOK, L!TypeOK
    <3>4. Complete(w)
      BY <1>2, <3>3, StopsWorking
    <3>5. w \in Processes /\ snap[w] \in Document
      BY <1>2, <3>4 DEF Complete, Write, TypeOK, Processes
    <3> QED BY <3>2, <3>4, <3>5 DEF Complete, Write, WithMarker, Document
  <2> QED BY <2>1, <2>2
<1> QED BY <1>1, <1>2, CheckpointTypes, PTL DEF Spec
=============================================================================
