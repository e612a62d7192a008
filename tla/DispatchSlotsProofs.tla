------------------------ MODULE DispatchSlotsProofs ------------------------
(* What holds of the dispatch slot for any number of workers, API          *)
(* processes, retries, outages, deaths and overruns.                       *)
EXTENDS DispatchSlots, TLAPS

\* What is spent of a bound stays a number.
LEMMA Spent ==
    ASSUME used \in [DOMAIN Bound -> Nat], NEW k \in DOMAIN Bound, Spend(k)
    PROVE  used' \in [DOMAIN Bound -> Nat]
  BY DEF Spend

\* Type correctness of the dispatch: no counter of the queue goes below zero,
\* no message is resent more often than max_retries.
THEOREM DispatchTypes == Spec => []TypeOK
<1> USE ProcessesAssumption, RetriesAssumption DEF Processes, NoMail, Slots, PCs, Enqueuing, Executing
<1>0. DOMAIN Bound = {"chains", "outages", "crashes", "overruns"}
  BY DEF Bound
<1>1. Init => TypeOK
  <2> SUFFICES ASSUME Init PROVE TypeOK
    OBVIOUS
  <2>1. queue \in [0..MaxRetries -> Nat] /\ mail \in [Workers -> 0..NoMail] /\ claims \in 0..2
    BY DEF Init
  <2>2. used \in [DOMAIN Bound -> Nat]
    BY DEF Init
  <2> QED BY <2>1, <2>2 DEF Init, TypeOK
<1>2. TypeOK /\ [Next]_vars => TypeOK'
  <2> SUFFICES ASSUME TypeOK, [Next]_vars PROVE TypeOK'
    OBVIOUS
  <2>1. ASSUME NEW p \in Processes, Enqueue(p) PROVE TypeOK'
    <3>1. CASE ClaimRead(p)
      BY <3>1 DEF TypeOK, ClaimRead, NotSent, Goto
    <3>2. CASE ClaimWrite(p)
      <4>1. claims' \in 0..2 /\ slot' \in Slots
        BY <3>2 DEF TypeOK, ClaimWrite
      <4> QED BY <3>2, <4>1 DEF TypeOK, ClaimWrite, Goto
    <3>3. CASE Send(p)
      <4>1. queue' \in [0..MaxRetries -> Nat]
        BY <3>3 DEF TypeOK, Send
      <4>2. ping' \in [Processes -> {"unknown", "ok", "down"}]
        BY <3>3 DEF TypeOK, Send, PingOnce
      <4>3. pc' \in [Processes -> PCs]
        BY <3>3 DEF TypeOK, Send, Goto
      <4> QED BY <3>3, <4>1, <4>2, <4>3 DEF TypeOK, Send
    <3>4. CASE Register(p)
      BY <3>4 DEF TypeOK, Register, Registered, Goto
    <3>5. CASE Clear(p)
      BY <3>5 DEF TypeOK, Clear, NotSent, Goto
    <3> QED BY <2>1, <3>1, <3>2, <3>3, <3>4, <3>5 DEF Enqueue
  <2>2. ASSUME NEW p \in Processes, Execute(p) PROVE TypeOK'
    <3>1. mail' \in [Workers -> 0..NoMail]
      BY <2>2 DEF TypeOK, Execute, Consume, Finish, Fail, Unclaim, FailBuild, Acknowledge
    <3>2. CASE Consume(p)
      BY <3>1, <3>2 DEF TypeOK, Consume, Goto
    <3>3. CASE Finish(p)
      BY <3>1, <3>3 DEF TypeOK, Finish, Goto
    <3>4. CASE Fail(p)
      BY <3>1, <3>4 DEF TypeOK, Fail, Goto
    <3>5. CASE Unclaim(p)
      BY <3>1, <3>5 DEF TypeOK, Unclaim, Goto
    <3>6. CASE FailBuild(p)
      BY <3>1, <3>6 DEF TypeOK, FailBuild, Goto
    <3> QED BY <2>2, <3>2, <3>3, <3>4, <3>5, <3>6 DEF Execute
  <2>3. ASSUME NEW p \in Processes, Crash(p) PROVE TypeOK'
    <3>1. mail' \in [Workers -> 0..NoMail]
      BY <2>3 DEF TypeOK, Crash, Acknowledge
    <3>2. queue' \in [0..MaxRetries -> Nat]
      <4>1. CASE p \in Workers /\ mail[p] # NoMail /\ up
        <5>1. mail[p] \in 0..MaxRetries
          BY <4>1 DEF TypeOK
        <5>2. queue' = [queue EXCEPT ![mail[p]] = @ + 1]
          BY <2>3, <4>1 DEF Crash
        <5> QED BY <5>1, <5>2 DEF TypeOK
      <4>2. CASE ~(p \in Workers /\ mail[p] # NoMail /\ up)
        BY <2>3, <4>2 DEF TypeOK, Crash
      <4> QED BY <4>1, <4>2
    <3>3. used' \in [DOMAIN Bound -> Nat]
      BY <1>0, <2>3, Spent DEF TypeOK, Crash
    <3> QED BY <2>3, <3>1, <3>2, <3>3 DEF TypeOK, Crash, Goto
  <2>4. ASSUME NEW w \in Workers, Chain(w) \/ Recover(w) PROVE TypeOK'
    <3>1. used' \in [DOMAIN Bound -> Nat]
      BY <1>0, <2>4, Spent DEF TypeOK, Chain, Recover
    <3> QED BY <2>4, <3>1 DEF TypeOK, Chain, Recover, PingOnce, Goto
  <2>5. ASSUME NEW w \in Workers, Receive(w) PROVE TypeOK'
    <3>1. PICK t \in 0..MaxRetries :
             /\ queue[t] > 0
             /\ \/ Skip(w, t)
                \/ Retry(w, t)
                \/ /\ Take(w)
                   /\ queue' = [queue EXCEPT ![t] = @ - 1]
                   /\ mail' = [mail EXCEPT ![w] = t]
      BY <2>5 DEF Receive
    <3>2. CASE Skip(w, t)
      BY <2>5, <3>1, <3>2 DEF TypeOK, Receive, Skip
    <3>3. CASE Retry(w, t)
      <4>1. queue' \in [0..MaxRetries -> Nat]
        BY <3>1, <3>3 DEF TypeOK, Retry, Resent
      <4> QED BY <2>5, <3>3, <4>1 DEF TypeOK, Receive, Retry
    <3>4. CASE Take(w) /\ queue' = [queue EXCEPT ![t] = @ - 1] /\ mail' = [mail EXCEPT ![w] = t]
      <4>1. queue' \in [0..MaxRetries -> Nat] /\ mail' \in [Workers -> 0..NoMail]
        BY <3>1, <3>4 DEF TypeOK
      <4>2. holder' \in Processes \cup {NoOne} /\ pc' \in [Processes -> PCs] /\ expired' \in BOOLEAN
        BY <3>4 DEF TypeOK, Take, Goto
      <4> QED BY <2>5, <4>1, <4>2 DEF TypeOK, Receive
    <3> QED BY <3>1, <3>2, <3>3, <3>4
  <2>6. ASSUME NEW s \in Servers, Resume(s) \/ Inline(s) PROVE TypeOK'
    BY <2>6 DEF TypeOK, Resume, Inline, Take, Goto
  <2>7. CASE Age \/ LapseOfDead \/ Overrun \/ Outage \/ Restore
    <3>1. used' \in [DOMAIN Bound -> Nat]
      BY <1>0, <2>7, Spent DEF TypeOK, Age, LapseOfDead, Overrun, Lapse, Outage, Restore
    <3>2. queue' \in [0..MaxRetries -> Nat]
      BY <2>7 DEF TypeOK, Age, LapseOfDead, Overrun, Lapse, Outage, Restore
    <3> QED BY <2>7, <3>1, <3>2 DEF TypeOK, Age, LapseOfDead, Overrun, Lapse, Outage, Restore
  <2>8. CASE UNCHANGED vars
    BY <2>8 DEF TypeOK, vars
  <2> QED BY <2>1, <2>2, <2>3, <2>4, <2>5, <2>6, <2>7, <2>8 DEF Next
<1> QED BY <1>1, <1>2, PTL DEF Spec

-----------------------------------------------------------------------------
\* Until the row ages, is consumed or is cleared, it appears with the only
\* INSERT that fits, and no process between SELECT and INSERT has seen a row.
OneClaim ==
    ~reopened =>
        /\ slot \in {"none", "fresh"}
        /\ claims = IF slot = "none" THEN 0 ELSE 1
        /\ \A p \in Processes : pc[p] = "insert" => ~saw[p]

LEMMA OneClaimStep == TypeOK /\ OneClaim /\ [Next]_vars => OneClaim'
<1> SUFFICES ASSUME TypeOK, OneClaim, [Next]_vars PROVE OneClaim'
  OBVIOUS
<1> USE DEF TypeOK, OneClaim, Processes
<1>1. ASSUME NEW p \in Processes, Enqueue(p) PROVE OneClaim'
  <2>1. CASE ClaimRead(p)
    BY <2>1 DEF ClaimRead, StillPending, NotSent, Goto
  <2>2. CASE ClaimWrite(p)
    BY <2>2 DEF ClaimWrite, InsertFits, Goto
  <2>3. CASE Send(p)
    BY <2>3 DEF Send, Goto
  <2>4. CASE Register(p)
    BY <2>4 DEF Register, Registered, Goto
  <2>5. CASE Clear(p)
    BY <2>5 DEF Clear
  <2> QED BY <1>1, <2>1, <2>2, <2>3, <2>4, <2>5 DEF Enqueue
<1>2. ASSUME NEW p \in Processes, Execute(p) PROVE OneClaim'
  BY <1>2 DEF Execute, Consume, Finish, Fail, Unclaim, FailBuild, Goto
<1>3. ASSUME NEW p \in Processes, Crash(p) PROVE OneClaim'
  BY <1>3 DEF Crash, Goto
<1>4. ASSUME NEW w \in Workers, Chain(w) \/ Recover(w) \/ Receive(w) PROVE OneClaim'
  BY <1>4 DEF Chain, Recover, Receive, Skip, Retry, Take, Goto
<1>5. ASSUME NEW s \in Servers, Resume(s) \/ Inline(s) PROVE OneClaim'
  BY <1>5 DEF Resume, Inline, Take, Goto
<1>6. CASE Age \/ LapseOfDead \/ Overrun \/ Outage \/ Restore
  BY <1>6 DEF Age, LapseOfDead, Overrun, Lapse, Outage, Restore
<1>7. CASE UNCHANGED vars
  BY <1>7 DEF vars
<1> QED BY <1>1, <1>2, <1>3, <1>4, <1>5, <1>6, <1>7 DEF Next

\* try_claim_dispatch reads and inserts in two transactions, and yet only one
\* of any number of processes that send a stage at once claims it, until its
\* row ages, is consumed or is cleared.
THEOREM OneSender == Spec => []ClaimedOnce
<1>1. Init => OneClaim
  BY DEF Init, OneClaim
<1>2. OneClaim => ClaimedOnce
  BY DEF OneClaim, ClaimedOnce
<1> QED BY <1>1, <1>2, OneClaimStep, DispatchTypes, PTL DEF Spec

-----------------------------------------------------------------------------
\* Only an INSERT makes a consumed row pending.
LEMMA ConsumedStays ==
    ASSUME TypeOK, [Next]_vars, slot = "consumed", slot' \in {"fresh", "stale"}
    PROVE  \E p \in Processes : pc[p] = "insert" /\ pc'[p] = "send"
<1> USE DEF TypeOK, Processes
<1>1. ASSUME NEW p \in Processes, Enqueue(p) PROVE pc[p] = "insert" /\ pc'[p] = "send"
  <2>1. CASE ClaimWrite(p)
    BY <2>1 DEF ClaimWrite, Goto
  <2>2. CASE ~ClaimWrite(p)
    BY <1>1, <2>2 DEF Enqueue, ClaimRead, Send, Register, Registered, Clear
  <2> QED BY <2>1, <2>2
<1>2. ASSUME NEW p \in Processes, Execute(p) \/ Crash(p) PROVE FALSE
  BY <1>2 DEF Execute, Consume, Finish, Fail, Unclaim, FailBuild, Crash
<1>3. ASSUME NEW w \in Workers, Chain(w) \/ Recover(w) \/ Receive(w) PROVE FALSE
  BY <1>3 DEF Chain, Recover, Receive
<1>4. ASSUME NEW s \in Servers, Resume(s) \/ Inline(s) PROVE FALSE
  BY <1>4 DEF Resume, Inline
<1>5. ~(Age \/ LapseOfDead \/ Overrun \/ Outage \/ Restore) /\ ~UNCHANGED vars
  BY DEF Age, LapseOfDead, Overrun, Lapse, Outage, Restore, vars
<1> QED BY <1>1, <1>2, <1>3, <1>4, <1>5 DEF Next

\* A sender that registers its message late never makes a row pending again
\* that a worker has consumed.
THEOREM LateRegistration == Spec => ConsumedUntilClaimed
<1>1. TypeOK /\ [Next]_vars =>
         [slot = "consumed" /\ slot' \in {"fresh", "stale"} =>
             \E p \in Processes : pc[p] = "insert" /\ pc'[p] = "send"]_vars
  BY ConsumedStays
<1> QED BY <1>1, DispatchTypes, PTL DEF Spec, ConsumedUntilClaimed
=============================================================================
