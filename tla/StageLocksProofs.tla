-------------------------- MODULE StageLocksProofs --------------------------
(***************************************************************************)
(* What holds of the lock table for any number of workers, sweeps, stages, *)
(* attempts and locks.                                                     *)
(***************************************************************************)
EXTENDS StageLocks, TLAPS

\* What one UPDATE makes of a row: a row again, whose token is the old one,
\* a fresh one or none.
GoodRow(r) == r \in Row /\ ((r.status = "running") = (r.token # 0))

LEMMA TokenUpdates ==
    ASSUME NEW r, GoodRow(r), NEW t \in Nat
    PROVE  /\ t # 0 => GoodRow(AcquiredRow(r, t)) /\ AcquiredRow(r, t).token = t
           /\ GoodRow(CompletedRow(r, t)) /\ CompletedRow(r, t).token \in {0, r.token}
           /\ GoodRow(FailedRow(r, t)) /\ FailedRow(r, t).token \in {0, r.token}
<1> USE DEF GoodRow, Row, Statuses, Settled
<1>1. t # 0 => GoodRow(AcquiredRow(r, t)) /\ AcquiredRow(r, t).token = t
  BY DEF AcquiredRow
<1>2. GoodRow(CompletedRow(r, t)) /\ CompletedRow(r, t).token \in {0, r.token}
  <2>1. CASE r.status \notin Settled /\ r.token = t
    BY <2>1 DEF CompletedRow
  <2>2. CASE ~(r.status \notin Settled /\ r.token = t)
    BY <2>2 DEF CompletedRow
  <2> QED BY <2>1, <2>2
<1>3. GoodRow(FailedRow(r, t)) /\ FailedRow(r, t).token \in {0, r.token}
  <2>1. CASE t = 0 \/ r.token = t
    BY <2>1 DEF FailedRow
  <2>2. CASE ~(t = 0 \/ r.token = t)
    BY <2>2 DEF FailedRow
  <2> QED BY <2>1, <2>2
<1> QED BY <1>1, <1>2, <1>3

\* The same of the updates that give out no token.
LEMMA PlainUpdates ==
    ASSUME NEW r, GoodRow(r)
    PROVE  /\ GoodRow(ReopenedRow(r)) /\ ReopenedRow(r).token \in {0, r.token}
           /\ GoodRow(ResetRow(r)) /\ ResetRow(r).token \in {0, r.token}
           /\ GoodRow(ReleasedRow(r)) /\ ReleasedRow(r).token \in {0, r.token}
<1> USE DEF GoodRow, Row, Statuses, Settled
<1>1. GoodRow(ReopenedRow(r)) /\ ReopenedRow(r).token \in {0, r.token}
  <2>1. CASE r.status \in Settled
    BY <2>1 DEF ReopenedRow
  <2>2. CASE r.status \notin Settled
    BY <2>2 DEF ReopenedRow
  <2> QED BY <2>1, <2>2
<1>2. GoodRow(ResetRow(r)) /\ ResetRow(r).token \in {0, r.token}
  <2>1. CASE r.status = "running"
    BY <2>1 DEF ResetRow
  <2>2. CASE r.status # "running"
    BY <2>2 DEF ResetRow
  <2> QED BY <2>1, <2>2
<1>3. GoodRow(ReleasedRow(r)) /\ ReleasedRow(r).token \in {0, r.token}
  <2> HIDE DEF GoodRow
  <2> QED BY <1>2, Zenon DEF ReleasedRow
<1> QED BY <1>1, <1>2, <1>3

\* The part of TypeOK that is about the table.
RowsOK ==
    /\ row \in [Stages -> Row]
    /\ \A s \in Stages : (row[s].status = "running") = (row[s].token # 0)
    /\ \A s \in Stages : row[s].token <= issued

\* Replacing one row by a good one keeps the table well typed.
LEMMA OneRow ==
    ASSUME RowsOK, issued \in Nat, issued' \in Nat, issued <= issued',
           NEW k \in Stages, NEW q, GoodRow(q),
           q.token \in {0, row[k].token, issued'},
           row' = [row EXCEPT ![k] = q]
    PROVE  RowsOK'
  BY DEF RowsOK, GoodRow, Row

\* Type correctness, with a token in a row exactly while it is running.
LEMMA TypeStep == TypeOK /\ [Next]_vars => TypeOK'
<1> SUFFICES ASSUME TypeOK, [Next]_vars PROVE TypeOK'
  OBVIOUS
<1> USE StageLocksAssumption DEF buildVars, Ended
<1>0. RowsOK /\ expired \in Nat /\ issued \in Nat /\ \A s \in Stages : GoodRow(row[s])
  BY DEF TypeOK, RowsOK, GoodRow
<1>1. ASSUME NEW w \in Workers, NEW s \in Stages, Receive(w, s) PROVE TypeOK'
  BY <1>1 DEF TypeOK, Receive, Goto, PCs, tableVars, buildVars, sweepVars
<1>2. ASSUME NEW w \in Workers, CheckTerminal(w) \/ ReadRow(w) \/ Refuse(w) PROVE TypeOK'
  BY <1>2 DEF TypeOK, CheckTerminal, ReadRow, Refuse, Goto, PCs, tableVars, buildVars, sweepVars
<1>3. ASSUME NEW w \in Workers, Reset(w) PROVE TypeOK'
  <2>1. task[w] \in Stages /\ row' = [row EXCEPT ![task[w]] = ReopenedRow(row[task[w]])]
    BY <1>3 DEF TypeOK, Reset, Goto
  <2>2. RowsOK'
    <3>1. /\ GoodRow(ReopenedRow(row[task[w]]))
          /\ ReopenedRow(row[task[w]]).token \in {0, row[task[w]].token, issued'}
      BY <1>0, <1>3, <2>1, PlainUpdates DEF Reset
    <3>2. issued' \in Nat /\ issued <= issued'
      BY <1>0, <1>3 DEF Reset
    <3> QED BY <1>0, <2>1, <3>1, <3>2, OneRow
  <2> QED BY <1>3, <2>2 DEF TypeOK, RowsOK, Reset, Goto, PCs, sweepVars
<1>4. ASSUME NEW w \in Workers, Acquire(w) PROVE TypeOK'
  <2>1. /\ task[w] \in Stages /\ issued + 1 \in Nat /\ issued + 1 # 0
        /\ row' = [row EXCEPT ![task[w]] = AcquiredRow(row[task[w]], issued + 1)]
    BY <1>4 DEF TypeOK, Acquire, Goto
  <2>2. RowsOK'
    <3>1. /\ GoodRow(AcquiredRow(row[task[w]], issued + 1))
          /\ AcquiredRow(row[task[w]], issued + 1).token \in {0, row[task[w]].token, issued'}
      BY <1>0, <1>4, <2>1, TokenUpdates DEF Acquire
    <3>2. issued' \in Nat /\ issued <= issued'
      BY <1>0, <1>4 DEF Acquire
    <3> QED BY <1>0, <2>1, <3>1, <3>2, OneRow
  <2> QED BY <1>4, <2>2 DEF TypeOK, RowsOK, Acquire, Goto, PCs, sweepVars
<1>5. ASSUME NEW w \in Workers, Refused(w) \/ Verify(w) \/ Fail(w) \/ Crash(w) PROVE TypeOK'
  <2>1. UNCHANGED <<tableVars, buildVars, sweepVars>>
    BY <1>5 DEF Refused, Verify, Fail, Crash
  <2>2. \/ Leave(w)
        \/ /\ \E c \in PCs : pc[w] # "idle" /\ pc' = [pc EXCEPT ![w] = c]
           /\ UNCHANGED <<task, held>>
    BY <1>5 DEF Refused, Verify, Fail, Crash, PCs
  <2> QED BY <2>1, <2>2 DEF TypeOK, Leave, PCs, tableVars, buildVars, sweepVars
<1>6. CASE Release
  <2>1. \A s \in Stages : GoodRow(ReleasedRow(row[s])) /\ ReleasedRow(row[s]).token <= issued
    BY <1>0, PlainUpdates DEF RowsOK, GoodRow, Row
  <2>2. RowsOK'
    BY <1>6, <2>1 DEF Release, RowsOK, GoodRow
  <2> QED BY <1>6, <2>2 DEF TypeOK, RowsOK, Release, buildVars, workerVars, sweepVars
<1>7. ASSUME NEW w \in Workers, Complete(w) PROVE TypeOK'
  <2>1. /\ task[w] \in Stages /\ held[w] \in Nat
        /\ row' = [row EXCEPT ![task[w]] = CompletedRow(row[task[w]], held[w])]
    BY <1>7 DEF TypeOK, Complete, Goto
  <2>2. RowsOK'
    <3>1. /\ GoodRow(CompletedRow(row[task[w]], held[w]))
          /\ CompletedRow(row[task[w]], held[w]).token \in {0, row[task[w]].token, issued'}
      BY <1>0, <1>7, <2>1, TokenUpdates DEF Complete
    <3>2. issued' \in Nat /\ issued <= issued'
      BY <1>0, <1>7 DEF Complete
    <3> QED BY <1>0, <2>1, <3>1, <3>2, OneRow
  <2> QED BY <1>7, <2>1, <2>2 DEF TypeOK, RowsOK, Complete, Goto, PCs, sweepVars
<1>8. ASSUME NEW w \in Workers, StageFails(w) \/ FailStage(w) PROVE TypeOK'
  BY <1>8 DEF TypeOK, StageFails, FailStage, Goto, PCs, BuildStates, tableVars, buildVars, sweepVars
<1>9. ASSUME NEW w \in Workers, FailWrite(w) PROVE TypeOK'
  <2>1. /\ task[w] \in Stages /\ held[w] \in Nat
        /\ row' = [row EXCEPT ![task[w]] = FailedRow(row[task[w]], held[w])]
    BY <1>9 DEF TypeOK, FailWrite, Goto
  <2>2. RowsOK'
    <3>1. /\ GoodRow(FailedRow(row[task[w]], held[w]))
          /\ FailedRow(row[task[w]], held[w]).token \in {0, row[task[w]].token, issued'}
      BY <1>0, <1>9, <2>1, TokenUpdates DEF FailWrite
    <3>2. issued' \in Nat /\ issued <= issued'
      BY <1>0, <1>9 DEF FailWrite
    <3> QED BY <1>0, <2>1, <3>1, <3>2, OneRow
  <2> QED BY <1>9, <2>2 DEF TypeOK, RowsOK, FailWrite, Goto, PCs, sweepVars
<1>10. ASSUME NEW w \in Workers, FailBuild(w) PROVE TypeOK'
  BY <1>10 DEF TypeOK, FailBuild, Leave, PCs, BuildStates, tableVars, buildVars, sweepVars
<1>11. ASSUME NEW w \in Workers, Chain(w) PROVE TypeOK'
  <2>1. \A s \in Stages : GoodRow(ReleasedRow(row[s])) /\ ReleasedRow(row[s]).token <= issued
    BY <1>0, PlainUpdates DEF RowsOK, GoodRow, Row
  <2>2. RowsOK'
    BY <1>11, <2>1 DEF Chain, RowsOK, GoodRow
  <2> QED BY <1>11, <2>2 DEF TypeOK, RowsOK, Chain, Leave, PCs, sweepVars
<1>12. ASSUME NEW x \in Sweepers, ListExpired(x) PROVE TypeOK'
  <2>1. ExpiredRows \subseteq Listed
    BY <1>0 DEF ExpiredRows, Listed, GoodRow, Row
  <2> QED BY <1>12, <2>1 DEF TypeOK, ListExpired, tableVars, buildVars, workerVars
<1>13. ASSUME NEW x \in Sweepers, SweepEnd(x) PROVE TypeOK'
  BY <1>13 DEF TypeOK, SweepEnd, tableVars, buildVars, workerVars
<1>14. ASSUME NEW s \in Stages PROVE Preempts(s) \subseteq 1 .. issued
  BY <1>0 DEF TypeOK, Preempts, Expired, GoodRow, Row
<1>15. ASSUME NEW x \in Sweepers, SweepFailWrite(x) PROVE TypeOK'
  <2>1. /\ victim[x] \in Stages
        /\ row' = [row EXCEPT ![victim[x]] = FailedRow(row[victim[x]], 0)]
    BY <1>15 DEF TypeOK, SweepFailWrite
  <2>2. RowsOK'
    <3>1. /\ GoodRow(FailedRow(row[victim[x]], 0))
          /\ FailedRow(row[victim[x]], 0).token \in {0, row[victim[x]].token, issued'}
      BY <1>0, <1>15, <2>1, TokenUpdates DEF SweepFailWrite
    <3>2. issued' \in Nat /\ issued <= issued'
      BY <1>0, <1>15 DEF SweepFailWrite
    <3> QED BY <1>0, <2>1, <3>1, <3>2, OneRow
  <2>3. preempted' \subseteq 1 .. issued
    BY <1>14, <1>15, <2>1 DEF TypeOK, SweepFailWrite
  <2> QED BY <1>15, <2>2, <2>3 DEF TypeOK, RowsOK, SweepFailWrite, workerVars
<1>16. ASSUME NEW x \in Sweepers, NEW r \in listed[x], SweepReset(x, r) PROVE TypeOK'
  <2>1. /\ r \in Listed /\ r.stage \in Stages
        /\ row' = [row EXCEPT ![r.stage] = ResetRow(row[r.stage])]
    BY <1>16 DEF TypeOK, SweepReset, Listed
  <2>2. RowsOK'
    <3>1. /\ GoodRow(ResetRow(row[r.stage]))
          /\ ResetRow(row[r.stage]).token \in {0, row[r.stage].token, issued'}
      BY <1>0, <1>16, <2>1, PlainUpdates DEF SweepReset
    <3>2. issued' \in Nat /\ issued <= issued'
      BY <1>0, <1>16 DEF SweepReset
    <3> QED BY <1>0, <2>1, <3>1, <3>2, OneRow
  <2>3. preempted' \subseteq 1 .. issued
    BY <1>14, <1>16, <2>1 DEF TypeOK, SweepReset
  <2> QED BY <1>16, <2>2, <2>3 DEF TypeOK, RowsOK, SweepReset, workerVars
<1>17. ASSUME NEW x \in Sweepers, NEW r \in listed[x], SweepFail(x, r) PROVE TypeOK'
  BY <1>17 DEF TypeOK, SweepFail, Listed, tableVars, buildVars, workerVars
<1>18. CASE Expire
  BY <1>18 DEF TypeOK, Expire, workerVars, sweepVars
<1>19. CASE Outside
  BY <1>19 DEF TypeOK, Outside, tableVars, buildVars, workerVars, sweepVars
<1>20. CASE UNCHANGED vars
  BY <1>20 DEF TypeOK, vars
<1> QED
  BY <1>1, <1>2, <1>3, <1>4, <1>5, <1>6, <1>7, <1>8, <1>9, <1>10, <1>11, <1>12,
     <1>13, <1>15, <1>16, <1>17, <1>18, <1>19, <1>20
     DEF Next, WorkerStep, SweepStep

\* StageLocks keeps its types for all values of the constants.
THEOREM TypeCorrect == Spec => []TypeOK
<1>1. Init => TypeOK
  BY StageLocksAssumption
     DEF Init, TypeOK, Row, NoRow, Statuses, BuildStates, PCs
<1> QED BY <1>1, TypeStep, PTL DEF Spec

-----------------------------------------------------------------------------
(* The fence.  Every step but Acquire only ever loses tokens: a worker     *)
(* forgets its own, a row drops the one it carries.                        *)

WorkerKeeps(w) ==
    \/ /\ held'[w] = held[w]
       /\ held[w] # 0 => task'[w] = task[w]
       /\ Working(w)' => Working(w)
       /\ Holding(w)' => Holding(w)
       /\ pc'[w] = "idle" => pc[w] = "idle"
    \/ held'[w] = 0 /\ pc'[w] = "idle"

\* A row drops a token because it expired, because a sweep preempts it, or by
\* the hand of the worker that holds it and stops working.
RowKeeps(s) ==
    \/ row'[s].token = row[s].token
    \/ /\ row'[s].token = 0
       /\ \/ row[s].token <= expired'
          \/ row[s].token \in preempted'
          \/ \E w \in Workers : held[w] = row[s].token /\ ~Working(w)'

\* A step by which workers and rows only lose tokens keeps the fence.
LEMMA LosingTokens ==
    ASSUME TypeOK, TypeOK', LockInv,
           \A w \in Workers : WorkerKeeps(w),
           \A s \in Stages : RowKeeps(s),
           expired <= expired', preempted \subseteq preempted'
    PROVE  LockInv'
<1>1. OneEffectiveHolder'
  BY DEF LockInv, OneEffectiveHolder, WorkerKeeps
<1>2. TokenOwnership'
  <2>1. \A s1, s2 \in Stages :
           row'[s1].token # 0 /\ row'[s1].token = row'[s2].token => s1 = s2
    BY DEF LockInv, TokenOwnership, RowKeeps
  <2>2. \A w \in Workers, s \in Stages :
           held'[w] # 0 /\ held'[w] = row'[s].token => task'[w] = s
    BY DEF LockInv, TokenOwnership, RowKeeps, WorkerKeeps
  <2>3. \A w \in Workers : Holding(w)' => held'[w] # 0
    BY DEF LockInv, TokenOwnership, WorkerKeeps, Holding
  <2>4. \A w \in Workers : pc'[w] = "idle" => held'[w] = 0
    BY DEF LockInv, TokenOwnership, WorkerKeeps
  <2> QED BY <2>1, <2>2, <2>3, <2>4 DEF TokenOwnership
<1>3. HolderKeepsRow'
  <2> SUFFICES ASSUME NEW w \in Workers, Working(w)', Live(held[w])',
                      held'[w] \notin preempted'
               PROVE  row'[task'[w]].token = held'[w]
    BY DEF HolderKeepsRow
  <2>1. Working(w) /\ held'[w] = held[w]
    BY DEF WorkerKeeps, Working
  <2>2. held[w] # 0 /\ task'[w] = task[w] /\ task[w] \in Stages
    BY <2>1 DEF LockInv, TokenOwnership, WorkerKeeps, Working, Holding, TypeOK
  <2>3. ~(held[w] <= expired') /\ ~(held[w] <= expired)
    BY <2>1 DEF Live, Expired, TypeOK
  <2>4. row[task[w]].token = held[w]
    BY <2>1, <2>3 DEF LockInv, HolderKeepsRow, Live, Expired
  <2>5. \A v \in Workers : held[v] = held[w] => v = w
    BY <2>2 DEF LockInv, OneEffectiveHolder
  <2> QED BY <2>1, <2>2, <2>3, <2>4, <2>5 DEF RowKeeps
<1> QED BY <1>1, <1>2, <1>3 DEF LockInv

\* The one step that adds a token adds a fresh one, to a row without a live one.
LEMMA GainingToken ==
    ASSUME TypeOK, TypeOK', LockInv, NEW w \in Workers, Acquire(w)
    PROVE  LockInv'
<1> DEFINE s == task[w]
           t == issued + 1
<1>1. /\ s \in Stages /\ issued \in Nat /\ t # 0 /\ issued' = t
      /\ held' = [held EXCEPT ![w] = t] /\ UNCHANGED <<task, expired, preempted>>
      /\ pc' = [pc EXCEPT ![w] = "run"] /\ CanAcquire(row[s])
  BY DEF Acquire, Goto, TypeOK
<1>2. /\ row'[s].token = t
      /\ \A r \in Stages : r # s => row'[r] = row[r]
  BY <1>1 DEF Acquire, AcquiredRow, TypeOK
<1>3. /\ \A v \in Workers : held[v] # t
      /\ \A r \in Stages : row[r].token # t
  BY <1>1 DEF TypeOK, Row
<1>4. row[s].token <= expired
  BY <1>1 DEF TypeOK, CanAcquire, IsExpiredLock, Expired, Row
<1>5. held'[w] = t /\ \A v \in Workers : v # w => held'[v] = held[v] /\ pc'[v] = pc[v]
  BY <1>1 DEF TypeOK
<1>6. pc'[w] = "run"
  BY <1>1 DEF TypeOK
<1>7. OneEffectiveHolder'
  BY <1>3, <1>5 DEF LockInv, OneEffectiveHolder
<1>8. TokenOwnership'
  BY <1>1, <1>2, <1>3, <1>5, <1>6 DEF LockInv, TokenOwnership, Holding
<1>9. HolderKeepsRow'
  <2> SUFFICES ASSUME NEW v \in Workers, Working(v)', Live(held[v])',
                      held'[v] \notin preempted'
               PROVE  row'[task'[v]].token = held'[v]
    BY DEF HolderKeepsRow
  <2>1. CASE v = w
    BY <2>1, <1>1, <1>2, <1>5
  <2>2. CASE v # w
    <3>1. Working(v) /\ Live(held[v]) /\ held[v] \notin preempted
      BY <2>2, <1>1, <1>5 DEF Working, Live, Expired
    <3>2. row[task[v]].token = held[v] /\ task[v] \in Stages
      BY <3>1 DEF LockInv, HolderKeepsRow, TypeOK, Working
    <3>3. task[v] # s
      BY <3>1, <3>2, <1>4 DEF Live, Expired
    <3> QED BY <3>2, <3>3, <2>2, <1>1, <1>2, <1>5
  <2> QED BY <2>1, <2>2
<1> QED BY <1>7, <1>8, <1>9 DEF LockInv

\* The fence is kept by every step.
LEMMA LockStep == TypeOK /\ TypeOK' /\ LockInv /\ [Next]_vars => LockInv'
<1> SUFFICES ASSUME TypeOK, TypeOK', LockInv, [Next]_vars PROVE LockInv'
  OBVIOUS
<1> USE DEF TypeOK, Row, buildVars
<1>a. expired \in Nat /\ expired' \in Nat
  OBVIOUS
<1>b. \A w \in Workers : Holding(w) => held[w] # 0
  BY DEF LockInv, TokenOwnership
<1>c. \A w \in Workers : pc[w] = "idle" => held[w] = 0
  BY DEF LockInv, TokenOwnership
<1>d. ASSUME UNCHANGED <<row, preempted, expired>> PROVE
         /\ \A s \in Stages : RowKeeps(s)
         /\ expired <= expired' /\ preempted \subseteq preempted'
  BY <1>a, <1>d DEF RowKeeps
<1>e. ASSUME UNCHANGED <<pc, held, task>> PROVE \A w \in Workers : WorkerKeeps(w)
  BY <1>e DEF WorkerKeeps, Working, Holding
<1>f. ASSUME NEW w \in Workers, Leave(w) PROVE \A v \in Workers : WorkerKeeps(v)
  BY <1>f DEF Leave, WorkerKeeps, Working, Holding
<1>1. ASSUME NEW w \in Workers, NEW s \in Stages, Receive(w, s) PROVE LockInv'
  <2>1. \A v \in Workers : WorkerKeeps(v)
    BY <1>1, <1>c DEF Receive, Goto, WorkerKeeps, Working, Holding
  <2> QED BY <1>1, <1>d, <2>1, LosingTokens DEF Receive, tableVars, buildVars
<1>2. ASSUME NEW w \in Workers,
             CheckTerminal(w) \/ ReadRow(w) \/ Refuse(w) \/ FailStage(w)
             \/ StageFails(w)
      PROVE  LockInv'
  <2>1. \A v \in Workers : WorkerKeeps(v)
    <3>1. /\ UNCHANGED <<held, task>> /\ pc[w] # "idle"
          /\ \E c \in PCs : pc' = [pc EXCEPT ![w] = c] /\ c # "idle"
                            /\ (c \in {"run"} => Working(w))
                            /\ (c \in {"verify", "fail", "failStage", "failWrite"} => Holding(w))
      BY <1>2 DEF CheckTerminal, ReadRow, Refuse, FailStage, StageFails, Goto, PCs, Working, Holding
    <3> QED BY <3>1 DEF WorkerKeeps, Working, Holding
  <2>2. UNCHANGED <<row, preempted, expired>>
    BY <1>2 DEF CheckTerminal, ReadRow, Refuse, FailStage, StageFails, tableVars, buildVars
  <2> QED BY <1>d, <2>1, <2>2, LosingTokens
<1>3. ASSUME NEW w \in Workers, Reset(w) PROVE LockInv'
  <2>1. \A v \in Workers : WorkerKeeps(v)
    BY <1>3 DEF Reset, Goto, WorkerKeeps, Working, Holding
  <2>2. task[w] \in Stages /\ row' = [row EXCEPT ![task[w]] = ReopenedRow(row[task[w]])]
    BY <1>3 DEF Reset, Goto
  <2>3. ReopenedRow(row[task[w]]).token = row[task[w]].token
    BY <2>2 DEF ReopenedRow, Settled
  <2>4. \A s \in Stages : RowKeeps(s)
    BY <2>2, <2>3 DEF RowKeeps
  <2> QED BY <1>3, <1>a, <2>1, <2>4, LosingTokens DEF Reset
<1>4. ASSUME NEW w \in Workers, Acquire(w) PROVE LockInv'
  BY <1>4, GainingToken
<1>5. ASSUME NEW w \in Workers, Refused(w) \/ Verify(w) \/ Fail(w) \/ FailBuild(w) \/ Crash(w)
      PROVE  LockInv'
  <2>1. UNCHANGED <<row, preempted, expired>>
    BY <1>5 DEF Refused, Verify, Fail, FailBuild, Crash, tableVars, buildVars
  <2>2. \A v \in Workers : WorkerKeeps(v)
    <3>1. CASE Leave(w)
      BY <1>f, <3>1
    <3>2. CASE ~Leave(w)
      <4>1. /\ UNCHANGED <<held, task>> /\ pc[w] # "idle"
            /\ \E c \in PCs : /\ pc' = [pc EXCEPT ![w] = c] /\ c \in {"chain", "fail", "failStage"}
                              /\ c # "chain" => Holding(w)
        BY <1>5, <3>2 DEF Refused, Verify, Fail, FailBuild, Crash, PCs, Holding
      <4> QED BY <4>1 DEF WorkerKeeps, Working, Holding
    <3> QED BY <3>1, <3>2
  <2> QED BY <1>d, <2>1, <2>2, LosingTokens
<1>6. ASSUME NEW w \in Workers, Complete(w) PROVE LockInv'
  <2>1. /\ task[w] \in Stages /\ ~Working(w)'
        /\ row' = [row EXCEPT ![task[w]] = CompletedRow(row[task[w]], held[w])]
    BY <1>6 DEF Complete, Goto, Working
  <2>2. \A v \in Workers : WorkerKeeps(v)
    BY <1>6 DEF Complete, Goto, WorkerKeeps, Working, Holding
  <2>3. \/ CompletedRow(row[task[w]], held[w]).token = row[task[w]].token
        \/ /\ CompletedRow(row[task[w]], held[w]).token = 0
           /\ row[task[w]].token = held[w]
    BY <2>1 DEF CompletedRow
  <2>4. \A s \in Stages : RowKeeps(s)
    BY <2>1, <2>3 DEF RowKeeps
  <2> QED BY <1>6, <1>a, <2>2, <2>4, LosingTokens DEF Complete
<1>7. ASSUME NEW w \in Workers, FailWrite(w) PROVE LockInv'
  <2>1. /\ task[w] \in Stages /\ ~Working(w)' /\ held[w] # 0
        /\ row' = [row EXCEPT ![task[w]] = FailedRow(row[task[w]], held[w])]
    BY <1>7, <1>b DEF FailWrite, Goto, Working, Holding
  <2>2. \A v \in Workers : WorkerKeeps(v)
    BY <1>7 DEF FailWrite, Goto, WorkerKeeps, Working, Holding
  <2>3. \/ FailedRow(row[task[w]], held[w]).token = row[task[w]].token
        \/ /\ FailedRow(row[task[w]], held[w]).token = 0
           /\ row[task[w]].token = held[w]
    BY <2>1 DEF FailedRow
  <2>4. \A s \in Stages : RowKeeps(s)
    BY <2>1, <2>3 DEF RowKeeps
  <2> QED BY <1>7, <1>a, <2>2, <2>4, LosingTokens DEF FailWrite
<1>8. ASSUME NEW w \in Workers, Chain(w) PROVE LockInv'
  <2>1. \A s \in Stages :
           \/ ReleasedRow(row[s]) = row[s]
           \/ ReleasedRow(row[s]).token = 0 /\ row[s].token <= expired
    BY DEF ReleasedRow, ResetRow, IsExpiredLock, Expired
  <2>2. \A s \in Stages : RowKeeps(s)
    BY <1>8, <1>a, <2>1 DEF Chain, RowKeeps
  <2> QED BY <1>8, <1>a, <1>f, <2>2, LosingTokens DEF Chain
<1>9. ASSUME NEW x \in Sweepers, ListExpired(x) \/ SweepEnd(x) PROVE LockInv'
  BY <1>9, <1>d, <1>e, LosingTokens DEF ListExpired, SweepEnd, tableVars, buildVars, workerVars
<1>10. ASSUME NEW x \in Sweepers, NEW r \in listed[x], SweepFail(x, r) PROVE LockInv'
  BY <1>10, <1>d, <1>e, LosingTokens DEF SweepFail, tableVars, buildVars, workerVars
\* A running row that a sweep takes over has expired or joins preempted.
<1>11. ASSUME NEW s \in Stages, row'[s].token \in {0, row[s].token},
              \A r \in Stages : r # s => row'[r] = row[r],
              expired' = expired, preempted' = preempted \cup Preempts(s)
       PROVE  \A r \in Stages : RowKeeps(r)
  <2>1. row[s].token # 0 => row[s].token <= expired' \/ row[s].token \in preempted'
    BY <1>11, <1>a DEF Preempts, Expired
  <2> QED BY <1>11, <2>1 DEF RowKeeps
<1>12. ASSUME NEW x \in Sweepers, SweepFailWrite(x) PROVE LockInv'
  <2>1. /\ victim[x] \in Stages /\ expired' = expired /\ UNCHANGED <<pc, held, task>>
        /\ row' = [row EXCEPT ![victim[x]] = FailedRow(row[victim[x]], 0)]
        /\ preempted' = preempted \cup Preempts(victim[x])
    BY <1>12 DEF SweepFailWrite, workerVars
  <2>2. /\ row'[victim[x]].token \in {0, row[victim[x]].token}
        /\ \A s \in Stages : s # victim[x] => row'[s] = row[s]
    BY <2>1 DEF FailedRow
  <2> HIDE DEF TypeOK
  <2>3. \A s \in Stages : RowKeeps(s)
    BY <1>11, <2>1, <2>2
  <2>4. expired <= expired' /\ preempted \subseteq preempted'
    BY <1>a, <2>1
  <2> QED BY <1>e, <2>1, <2>3, <2>4, LosingTokens
<1>13. ASSUME NEW x \in Sweepers, NEW r \in listed[x], SweepReset(x, r) PROVE LockInv'
  <2>1. /\ r.stage \in Stages /\ expired' = expired /\ UNCHANGED <<pc, held, task>>
        /\ row' = [row EXCEPT ![r.stage] = ResetRow(row[r.stage])]
        /\ preempted' = preempted \cup Preempts(r.stage)
    BY <1>13 DEF SweepReset, workerVars, Listed
  <2>2. /\ row'[r.stage].token \in {0, row[r.stage].token}
        /\ \A s \in Stages : s # r.stage => row'[s] = row[s]
    BY <2>1 DEF ResetRow
  <2> HIDE DEF TypeOK
  <2>3. \A s \in Stages : RowKeeps(s)
    BY <1>11, <2>1, <2>2
  <2>4. expired <= expired' /\ preempted \subseteq preempted'
    BY <1>a, <2>1
  <2> QED BY <1>e, <2>1, <2>3, <2>4, LosingTokens
<1>14. CASE Expire
  BY <1>14, <1>a, <1>e, LosingTokens DEF Expire, workerVars, RowKeeps
<1>15. CASE Outside
  BY <1>15, <1>d, <1>e, LosingTokens DEF Outside, tableVars, buildVars, workerVars
<1>16. CASE UNCHANGED vars
  BY <1>16, <1>d, <1>e, LosingTokens DEF vars
<1>17. CASE Release
  <2>1. \A s \in Stages : RowKeeps(s)
    BY <1>17, <1>a DEF Release, RowKeeps, ReleasedRow, ResetRow, IsExpiredLock, Expired
  <2> QED BY <1>17, <1>a, <1>e, <2>1, LosingTokens DEF Release, workerVars
<1> QED
  BY <1>1, <1>2, <1>3, <1>4, <1>5, <1>6, <1>7, <1>8, <1>9, <1>10, <1>12, <1>13,
     <1>14, <1>15, <1>16, <1>17 DEF Next, WorkerStep, SweepStep

\* Tokens fence: LockInv holds for any number of processes, stages and locks.
THEOREM TokensFence == Spec => []LockInv
<1>1. Init => LockInv
  BY DEF Init, LockInv, OneEffectiveHolder, TokenOwnership, HolderKeepsRow,
         Working, Holding, NoRow
<1> QED BY <1>1, TypeCorrect, LockStep, PTL DEF Spec

\* Two workers execute a stage under unexpired locks only when a sweep took
\* one of the locks away before its time.
THEOREM Exclusion == Spec => []ExclusiveUnlessPreempted
<1>1. TypeOK /\ LockInv => ExclusiveUnlessPreempted
  <2> SUFFICES ASSUME TypeOK, LockInv, NEW w1 \in Workers, NEW w2 \in Workers,
                      Working(w1), Working(w2), task[w1] = task[w2],
                      Live(held[w1]), Live(held[w2]),
                      held[w1] \notin preempted, held[w2] \notin preempted
               PROVE  w1 = w2
    BY DEF ExclusiveUnlessPreempted
  <2>1. held[w1] = held[w2]
    BY DEF LockInv, HolderKeepsRow
  <2>2. held[w1] # 0
    BY DEF LockInv, TokenOwnership, Working, Holding
  <2> QED BY <2>1, <2>2 DEF LockInv, OneEffectiveHolder
<1> QED BY <1>1, TypeCorrect, TokensFence, PTL

-----------------------------------------------------------------------------
(* Completion.                                                             *)

\* Only complete_stage_with_checkpoint, called with the row's own token, turns
\* a row into a completed one.
LEMMA OnlyComplete ==
    ASSUME TypeOK, [Next]_vars, NEW s \in Stages,
           row'[s].status = "completed", row[s].status # "completed"
    PROVE  \E w \in Workers : Complete(w) /\ task[w] = s /\ held[w] = row[s].token
<1> USE DEF TypeOK, buildVars
<1>1. \A r : AcquiredRow(r, issued + 1).status # "completed"
  BY DEF AcquiredRow
<1>2. row[s] \in Row
  OBVIOUS
<1>3. \A t : FailedRow(row[s], t).status # "completed"
  BY <1>2 DEF FailedRow, Row
<1>4. /\ ReopenedRow(row[s]).status # "completed"
      /\ ResetRow(row[s]).status # "completed"
      /\ ReleasedRow(row[s]).status # "completed"
  BY <1>2 DEF ReopenedRow, ResetRow, ReleasedRow, Row
<1>5. ASSUME NEW k \in Stages, NEW q, row' = [row EXCEPT ![k] = q]
      PROVE  k = s /\ q.status = "completed"
  BY <1>5
<1>6. row' # row
  OBVIOUS
<1>7. ASSUME NEW w \in Workers, WorkerStep(w) \/ Crash(w)
      PROVE  Complete(w) /\ task[w] = s /\ held[w] = row[s].token
  <2>1. pc[w] # "idle" => task[w] \in Stages
    OBVIOUS
  <2>2. CASE Reset(w)
    BY <1>4, <1>5, <2>1, <2>2 DEF Reset, Goto
  <2>3. CASE Acquire(w)
    BY <1>1, <1>5, <2>1, <2>3 DEF Acquire, Goto
  <2>4. CASE FailWrite(w)
    BY <1>3, <1>5, <2>1, <2>4 DEF FailWrite, Goto
  <2>5. CASE Chain(w)
    BY <1>4, <2>5 DEF Chain
  <2>6. CASE Complete(w)
    BY <1>5, <2>1, <2>6 DEF Complete, Goto, CompletedRow
  <2> QED
    BY <1>6, <1>7, <2>2, <2>3, <2>4, <2>5, <2>6
       DEF WorkerStep, Crash, CheckTerminal, ReadRow, Refuse, Refused, StageFails,
           Verify, Fail, FailStage, FailBuild, tableVars, buildVars
<1>8. ASSUME NEW x \in Sweepers, SweepStep(x) PROVE FALSE
  <2>1. CASE SweepFailWrite(x)
    BY <1>3, <1>5, <2>1 DEF SweepFailWrite
  <2>2. ASSUME NEW r \in listed[x], SweepReset(x, r) PROVE FALSE
    BY <1>4, <1>5, <2>2 DEF SweepReset, Listed
  <2> QED BY <1>6, <1>8, <2>1, <2>2 DEF SweepStep, ListExpired, SweepEnd, SweepFail, tableVars, buildVars
<1>9. CASE Release
  BY <1>4, <1>9 DEF Release
<1> QED BY <1>6, <1>7, <1>8, <1>9 DEF Next, Receive, Expire, Outside, vars, tableVars

\* A row is completed only by the worker whose token it carries.
THEOREM CompletionFenced == Spec => CompletedByHolder
<1>1. TypeOK /\ [Next]_vars =>
         [\A s \in Stages :
             row[s].status # "completed" /\ row'[s].status = "completed"
             => \E w \in Workers : Working(w) /\ task[w] = s /\ held[w] = row[s].token]_vars
  BY OnlyComplete DEF Complete, Goto, Working
<1> QED BY <1>1, TypeCorrect, PTL DEF Spec, CompletedByHolder
=============================================================================
