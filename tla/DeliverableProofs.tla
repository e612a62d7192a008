------------------------- MODULE DeliverableProofs -------------------------
(* The package holds code that passed the gate, for any number of workers, *)
(* tool stacks and deaths, as long as no worker outlives its lease: a      *)
(* verdict is trusted only behind the marker of the stage that saved it    *)
(* with its code, and that stage is not executed again behind its marker.  *)
(* Then what the markers as a whole promise: reviews and winner that fit   *)
(* the attempts, and no failure of what was validated or recorded.         *)
EXTENDS Deliverable, FiniteSetTheorems, WellFoundedInduction, TLAPS

\* A checkpoint, whatever its values.
Fields == {"built", "attempts", "fallbacks", "validated", "scores", "reviews", "winner",
         "iterated", "final", "passed", "zip", "recorded", "marks"}
IsDocument(c) == DOMAIN c = Fields /\ c = [k \in Fields |-> c[k]]

\* The verdict is about the code beside it.
Sound(c) == c.passed => Passes(c.final)

StoredOK ==
    /\ IsDocument(ckpt)
    /\ "novelty" \in ckpt.marks => Sound(ckpt)
    /\ ckpt.passed => ckpt.final # ""
    /\ DeliverableValidated

\* Only one worker is at work, and its copy is the stored checkpoint.
Fits(w) ==
    /\ holder = w /\ ctx[w] = ckpt
    /\ job[w] = "novelty" => at[w] \in {"iterate", "check", "end"}
    /\ at[w] \in {"iterate", "check"} => "novelty" \notin ckpt.marks \/ ~ckpt.passed
    /\ at[w] = "end" /\ job[w] = "novelty" => Sound(ckpt)
    /\ at[w] = "package" => ckpt.passed /\ "novelty" \in ckpt.marks

DInv ==
    /\ at \in [Workers -> Units] /\ job \in [Workers -> Stages]
    /\ DOMAIN ctx = Workers /\ ctx = [w \in Workers |-> ctx[w]]
    /\ overruns \in Nat
    /\ overruns = 0 => StoredOK /\ \A w \in Workers : at[w] # "idle" => Fits(w)

\* A step of the only worker that leaves the final code, its verdict, the
\* package and the markers alone.
LEMMA Neutral ==
    ASSUME DInv, overruns = 0, overruns' = 0, NEW w \in Workers, at[w] # "idle",
           job[w] # "novelty", NEW u \in Units \ {"iterate", "check", "package"},
           at' = [at EXCEPT ![w] = u], UNCHANGED <<job, holder>>,
           NEW d, ckpt' = d, ctx' = [ctx EXCEPT ![w] = d], IsDocument(d),
           d.final = ckpt.final, d.passed = ckpt.passed \/ d.passed = FALSE, d.zip = ckpt.zip,
           d.marks = ckpt.marks
    PROVE  DInv'
<1> USE DEF DInv
<1>1. StoredOK'
  BY DEF StoredOK, Sound, Fits, DeliverableValidated
<1>2. ASSUME NEW v \in Workers, at'[v] # "idle" PROVE Fits(v)'
  <2>1. v = w
    BY <1>2 DEF Fits
  <2> QED BY <2>1 DEF Fits, Units
<1> QED BY <1>1, <1>2

\* A step that leaves the checkpoint alone.
LEMMA Quiet ==
    ASSUME DInv, overruns = 0, overruns' = 0, NEW w \in Workers, at[w] # "idle",
           job[w] # "novelty", NEW u \in Units \ {"iterate", "check", "package"},
           at' = [at EXCEPT ![w] = u], UNCHANGED <<job, holder, ckpt, ctx>>
    PROVE  DInv'
<1> USE DEF DInv
<1>1. StoredOK'
  BY DEF StoredOK, Sound, DeliverableValidated
<1>2. ASSUME NEW v \in Workers, at'[v] # "idle" PROVE Fits(v)'
  <2>1. v = w
    BY <1>2 DEF Fits
  <2> QED BY <2>1 DEF Fits, Units
<1> QED BY <1>1, <1>2

\* The first unit of a stage.
LEMMA FirstUnits ==
    ASSUME NEW c, NEW s \in Stages
    PROVE  /\ FirstUnit(c, s) \in Units \ {"idle"}
           /\ s = "novelty" => FirstUnit(c, s) \in {"iterate", "check"}
           /\ FirstUnit(c, s) \in {"iterate", "check"} => s = "novelty"
           /\ FirstUnit(c, s) = "package" => s = "packaging" /\ c.passed
  BY DEF FirstUnit, MayPackage, Stages, Units

\* A stage that may run is not done, and packaging runs behind novelty.
LEMMA RunnableStages ==
    ASSUME NEW c, NEW s \in Stages, IsNext(c, s)
    PROVE  ~DoneIn(c, s) /\ (s = "packaging" => DoneIn(c, "novelty"))
<1>1. PICK n \in DOMAIN Order : /\ Order[n] = s /\ ~DoneIn(c, s)
                                /\ \A k \in 1..n - 1 : DoneIn(c, Order[k])
  BY DEF IsNext
<1>2. s = "packaging" => n = 6 /\ Order[5] = "novelty"
  BY <1>1 DEF Order
<1>3. s = "packaging" => 5 \in 1..n - 1
  BY <1>2
<1> QED BY <1>1, <1>2, <1>3

\* What a save leaves of a checkpoint.
Alike(d, c) == IsDocument(d) /\ d.final = c.final /\ d.passed = c.passed /\ d.zip = c.zip /\ d.marks = c.marks

LEMMA Edits ==
    ASSUME NEW c, IsDocument(c), NEW x, NEW y
    PROVE  /\ Alike([c EXCEPT !.built = x, !.attempts = y], c)
           /\ Alike([c EXCEPT !.attempts = x, !.fallbacks = y], c)
           /\ Alike([c EXCEPT !.scores = x], c)
           /\ Alike([c EXCEPT !.reviews = x], c)
           /\ Alike([c EXCEPT !.winner = x], c)
           /\ Alike([c EXCEPT !.recorded = x], c)
<1>1. Alike([c EXCEPT !.built = x, !.attempts = y], c)
  BY DEF Alike, IsDocument, Fields
<1>2. Alike([c EXCEPT !.attempts = x, !.fallbacks = y], c)
  BY DEF Alike, IsDocument, Fields
<1>3. Alike([c EXCEPT !.scores = x], c)
  BY DEF Alike, IsDocument, Fields
<1>4. Alike([c EXCEPT !.reviews = x], c)
  BY DEF Alike, IsDocument, Fields
<1>5. Alike([c EXCEPT !.winner = x], c)
  BY DEF Alike, IsDocument, Fields
<1>6. Alike([c EXCEPT !.recorded = x], c)
  BY DEF Alike, IsDocument, Fields
<1> QED BY <1>1, <1>2, <1>3, <1>4, <1>5, <1>6

LEMMA BeginStep ==
    ASSUME DInv, overruns = 0, NEW w \in Workers, Begin(w)
    PROVE  DInv'
<1> USE DEF DInv
<1>1. PICK s \in Stages : /\ Runnable(s)
                          /\ job' = [job EXCEPT ![w] = s]
                          /\ at' = [at EXCEPT ![w] = FirstUnit(ckpt, s)]
  BY DEF Begin
<1>2. ~DoneIn(ckpt, s) /\ (s = "packaging" => DoneIn(ckpt, "novelty"))
  BY <1>1, RunnableStages DEF Runnable
<1>3. DoneIn(ckpt, "novelty") <=> "novelty" \in ckpt.marks /\ ckpt.final # ""
  BY DEF DoneIn
<1>4. StoredOK'
  BY DEF Begin, StoredOK, Sound, DeliverableValidated
<1>5. ASSUME NEW v \in Workers, at'[v] # "idle" PROVE Fits(v)'
  <2>1. v = w
    BY <1>1, <1>5, WorkersAssumption DEF Begin, Fits
  <2>2. /\ holder' = w /\ ctx'[w] = ckpt /\ ckpt' = ckpt
        /\ job'[w] = s /\ at'[w] = FirstUnit(ckpt, s)
    BY <1>1 DEF Begin
  <2>3. s = "novelty" => "novelty" \notin ckpt.marks \/ ~ckpt.passed
    BY <1>2, <1>3 DEF StoredOK
  <2>4. s = "packaging" => "novelty" \in ckpt.marks
    BY <1>2, <1>3
  <2> QED BY <2>1, <2>2, <2>3, <2>4, FirstUnits DEF Fits
<1>6. at' \in [Workers -> Units] /\ job' \in [Workers -> Stages]
  BY <1>1, FirstUnits
<1> QED BY <1>4, <1>5, <1>6 DEF Begin

LEMMA WorkStep ==
    ASSUME DInv, overruns = 0, NEW w \in Workers, Work(w)
    PROVE  DInv'
<1> USE DEF Go
<1>0. /\ StoredOK /\ IsDocument(ckpt) /\ overruns' = 0
      /\ at[w] # "idle" => ctx[w] = ckpt /\ holder = w /\ Fits(w)
      /\ at[w] # "idle" /\ at[w] \notin {"iterate", "check", "end"} => job[w] # "novelty"
  BY DEF DInv, StoredOK, Fits, Work, Build, Fallbacks, Validate, ScoreBuilders, Review, Rank, Iterate,
         Check, Package, Record, NoteRecorded, Publish, SaveResults, End, Raise
<1>1. CASE Build(w)
  <2>1. PICK made \in [1..2 * NumStacks -> Made] :
          LET pool == [i \in DOMAIN made |-> [id |-> ids + i, code |-> made[i].code,
                                              success |-> made[i].success]]
          IN Save(w, LAMBDA c : [c EXCEPT !.built = pool, !.attempts = pool])
    BY <1>1 DEF Build
  <2> DEFINE pool == [i \in DOMAIN made |-> [id |-> ids + i, code |-> made[i].code,
                                              success |-> made[i].success]]
             d == [ckpt EXCEPT !.built = pool, !.attempts = pool]
  <2>2. ckpt' = d /\ ctx' = [ctx EXCEPT ![w] = d]
    BY <1>0, <1>1, <2>1 DEF Save, Build
  <2> HIDE DEF pool
  <2>3. Alike(d, ckpt)
    BY <1>0, Edits
  <2> HIDE DEF d
  <2> QED BY <1>0, <1>1, <2>2, <2>3, Neutral DEF Alike, Build, Units
<1>2. CASE Fallbacks(w)
  <2> DEFINE pool == [i \in DOMAIN ctx[w].built |->
                       LET a == ctx[w].built[i] IN IF a.success THEN a ELSE Replacement(a, i)]
             d == [ckpt EXCEPT !.attempts = pool, !.fallbacks = TRUE]
  <2>2. ckpt' = d /\ ctx' = [ctx EXCEPT ![w] = d]
    BY <1>0, <1>2 DEF Save, Fallbacks
  <2> HIDE DEF pool
  <2>3. Alike(d, ckpt)
    BY <1>0, Edits
  <2> HIDE DEF d
  <2> QED BY <1>0, <1>2, <2>2, <2>3, Neutral DEF Alike, Fallbacks, Units
<1>3. CASE Validate(w)
  <2>1. PICK d : \E attempts : /\ d = [ckpt EXCEPT !.attempts = attempts, !.validated = TRUE,
                                                  !.passed = FALSE]
                               /\ ckpt' = d /\ ctx' = [ctx EXCEPT ![w] = d]
    BY <1>0, <1>3 DEF Save, Validate
  <2>2. PICK u \in {"end", "raise"} : at' = [at EXCEPT ![w] = u]
    BY <1>3 DEF Validate
  <2>3. /\ IsDocument(d) /\ d.final = ckpt.final /\ d.passed = FALSE
        /\ d.zip = ckpt.zip /\ d.marks = ckpt.marks
    BY <1>0, <2>1 DEF IsDocument, Fields
  <2> QED BY <1>0, <1>3, <2>1, <2>2, <2>3, Neutral DEF Validate, Units
<1>4. CASE ScoreBuilders(w)
  <2>1. PICK scores \in {"sound", "odd"} : Save(w, LAMBDA c : [c EXCEPT !.scores = scores])
    BY <1>4 DEF ScoreBuilders
  <2> DEFINE d == [ckpt EXCEPT !.scores = scores]
  <2>2. ckpt' = d /\ ctx' = [ctx EXCEPT ![w] = d]
    BY <1>0, <1>4, <2>1 DEF Save, ScoreBuilders
  <2>3. Alike(d, ckpt)
    BY <1>0, Edits
  <2> HIDE DEF d
  <2> QED BY <1>0, <1>4, <2>2, <2>3, Neutral DEF Alike, ScoreBuilders, Units
<1>5. CASE Review(w)
  <2> DEFINE c == ctx[w]
             d == [ckpt EXCEPT !.reviews = Merged(CodeReviews(c), ProductReviews(c), CreativeReviews(c))]
  <2>2. ckpt' = d /\ ctx' = [ctx EXCEPT ![w] = d]
    BY <1>0, <1>5 DEF Save, Review
  <2>3. Alike(d, ckpt)
    BY <1>0, Edits
  <2> HIDE DEF d
  <2> QED BY <1>0, <1>5, <2>2, <2>3, Neutral DEF Alike, Review, Units
<1>6. CASE Rank(w)
  <2>1. PICK i \in DOMAIN ctx[w].attempts : Save(w, LAMBDA c : [c EXCEPT !.winner = ctx[w].attempts[i].id])
    BY <1>6 DEF Rank
  <2> DEFINE d == [ckpt EXCEPT !.winner = ctx[w].attempts[i].id]
  <2>2. ckpt' = d /\ ctx' = [ctx EXCEPT ![w] = d]
    BY <1>0, <1>6, <2>1 DEF Save, Rank
  <2>3. Alike(d, ckpt)
    BY <1>0, Edits
  <2> HIDE DEF d
  <2> QED BY <1>0, <1>6, <2>2, <2>3, Neutral DEF Alike, Rank, Units
<1>7. CASE NoteRecorded(w)
  <2> DEFINE d == [ckpt EXCEPT !.recorded = TRUE]
  <2>2. ckpt' = d /\ ctx' = [ctx EXCEPT ![w] = d]
    BY <1>0, <1>7 DEF Save, NoteRecorded
  <2>3. Alike(d, ckpt)
    BY <1>0, Edits
  <2> HIDE DEF d
  <2> QED BY <1>0, <1>7, <2>2, <2>3, Neutral DEF Alike, NoteRecorded, Units
<1>8. CASE Iterate(w)
  <2>1. PICK best : Save(w, LAMBDA c : [c EXCEPT !.iterated = HasWinner(ctx[w]),
                                !.final = IF best = "none" THEN Fallback(ctx[w]) ELSE best])
                    /\ best \in Iterations(ctx[w])
    BY <1>8 DEF Iterate
  <2> DEFINE code == IF best = "none" THEN Fallback(ctx[w]) ELSE best
             d == [ckpt EXCEPT !.iterated = HasWinner(ctx[w]), !.final = code]
  <2>2. ckpt' = d /\ ctx' = [ctx EXCEPT ![w] = d]
    BY <1>0, <1>8, <2>1 DEF Save, Iterate
  <2>3. ckpt.final # "" => code # ""
    BY <1>0, <1>8, <2>1 DEF Fallback, Iterations, Iterate
  <2> HIDE DEF code
  <2>4. /\ IsDocument(d) /\ d.final = code /\ d.passed = ckpt.passed
        /\ d.zip = ckpt.zip /\ d.marks = ckpt.marks
    BY <1>0 DEF IsDocument, Fields
  <2> HIDE DEF d
  <2>5. StoredOK'
    BY <1>0, <1>8, <2>2, <2>3, <2>4 DEF StoredOK, Sound, Fits, DeliverableValidated, Iterate
  <2>6. ASSUME NEW v \in Workers, at'[v] # "idle" PROVE Fits(v)'
    <3>1. v = w
      BY <1>0, <1>8, <2>6 DEF DInv, Fits, Iterate
    <3> QED BY <1>0, <1>8, <2>2, <2>4, <3>1 DEF DInv, Fits, Iterate
  <2> QED BY <1>0, <1>8, <2>2, <2>5, <2>6 DEF DInv, Iterate, Units
<1>9. CASE Check(w)
  <2>1. ckpt.final # "" => Reverted(ckpt) # ""
    BY DEF Reverted, Passes
  <2>2. StoredOK' /\ Sound(ckpt)' /\ ctx' = [ctx EXCEPT ![w] = ckpt']
    <3>1. CASE Reverted(ctx[w]) = ""
      BY <1>0, <1>9, <2>1, <3>1 DEF Check, StoredOK, Sound, DeliverableValidated, DInv
    <3>2. CASE Reverted(ctx[w]) # ""
      <4> DEFINE code == Reverted(ckpt)
                 d == WithVerdict(ckpt, code)
      <4>1. ckpt' = d /\ ctx' = [ctx EXCEPT ![w] = d]
        BY <1>0, <1>9, <3>2 DEF Save, Check
      <4>2. code # ""
        BY <1>0, <1>9, <3>2 DEF Check
      <4> HIDE DEF code
      <4>3. /\ IsDocument(d) /\ d.final = code /\ d.passed = Passes(code) /\ d.zip = ckpt.zip
        BY <1>0 DEF IsDocument, Fields, WithVerdict
      <4> HIDE DEF d
      <4> QED BY <1>0, <4>1, <4>2, <4>3 DEF StoredOK, Sound, DeliverableValidated
    <3> QED BY <3>1, <3>2
  <2>3. ASSUME NEW v \in Workers, at'[v] # "idle" PROVE Fits(v)'
    <3>1. v = w
      BY <1>0, <1>9, <2>3 DEF DInv, Fits, Check
    <3> QED BY <1>0, <1>9, <2>2, <3>1 DEF DInv, Fits, Check
  <2> QED BY <1>0, <1>9, <2>2, <2>3 DEF DInv, Check, Units
<1>10. CASE Package(w)
  <2> DEFINE d == [ckpt EXCEPT !.zip = ckpt.final]
  <2>1. ckpt' = d /\ ctx' = [ctx EXCEPT ![w] = d]
    BY <1>0, <1>10 DEF Save, Package, Packaged
  <2>2. /\ IsDocument(d) /\ d.final = ckpt.final /\ d.passed = ckpt.passed
        /\ d.zip = ckpt.final /\ d.marks = ckpt.marks
    BY <1>0 DEF IsDocument, Fields
  <2> HIDE DEF d
  <2>3. Passes(ckpt.final)
    BY <1>0, <1>10 DEF Package, Fits, StoredOK, Sound
  <2>4. StoredOK'
    BY <1>0, <2>1, <2>2, <2>3 DEF StoredOK, Sound, DeliverableValidated, Passes
  <2>5. ASSUME NEW v \in Workers, at'[v] # "idle" PROVE Fits(v)'
    <3>1. v = w
      BY <1>0, <1>10, <2>5 DEF DInv, Fits, Package
    <3> QED BY <1>0, <1>10, <2>1, <2>2, <3>1 DEF DInv, Fits, Package
  <2> QED BY <1>0, <1>10, <2>1, <2>4, <2>5 DEF DInv, Package, Units
<1>11. CASE Record(w) \/ Publish(w) \/ SaveResults(w)
  <2>1. PICK u \in {"note", "results", "raise", "end"} : at' = [at EXCEPT ![w] = u]
    BY <1>11 DEF Record, Publish, SaveResults
  <2> QED BY <1>0, <1>11, <2>1, Quiet DEF Record, Publish, SaveResults, Units
<1>12. CASE End(w) \/ Raise(w)
  <2>1. at' = [at EXCEPT ![w] = "idle"] /\ UNCHANGED <<ctx, job>>
    BY <1>12 DEF End, Raise
  <2>2. StoredOK'
    <3>1. CASE End(w)
      <4> DEFINE d == [ckpt EXCEPT !.marks = @ \cup {job[w]}]
      <4>1. ckpt' = d
        BY <3>1 DEF End
      <4>2. /\ IsDocument(d) /\ d.final = ckpt.final /\ d.passed = ckpt.passed
            /\ d.zip = ckpt.zip /\ d.marks = ckpt.marks \cup {job[w]}
        BY <1>0 DEF IsDocument, Fields
      <4> HIDE DEF d
      <4>3. "novelty" \in ckpt'.marks => Sound(ckpt)
        BY <1>0, <3>1, <4>1, <4>2 DEF End, Fits, StoredOK
      <4> QED BY <1>0, <4>1, <4>2, <4>3 DEF StoredOK, Sound, DeliverableValidated
    <3>2. CASE Raise(w)
      BY <1>0, <3>2 DEF Raise, StoredOK, Sound, DeliverableValidated
    <3> QED BY <1>12, <3>1, <3>2
  <2>3. \A v \in Workers : at'[v] = "idle"
    BY <1>0, <1>12, <2>1 DEF DInv, Fits, End, Raise
  <2> QED BY <1>0, <2>1, <2>2, <2>3 DEF DInv, Units
<1> QED BY <1>1, <1>2, <1>3, <1>4, <1>5, <1>6, <1>7, <1>8, <1>9, <1>10, <1>11, <1>12 DEF Work

LEMMA DInvStep == DInv /\ [Next]_vars => DInv'
<1> SUFFICES ASSUME DInv, [Next]_vars PROVE DInv'
  OBVIOUS
<1>1. CASE overruns = 0
  <2>1. ASSUME NEW w \in Workers, Begin(w) \/ Work(w) PROVE DInv'
    BY <1>1, <2>1, BeginStep, WorkStep
  <2>2. ASSUME NEW w \in Workers, Crash(w) PROVE DInv'
    <3>1. at' = [at EXCEPT ![w] = "idle"] /\ UNCHANGED <<ckpt, ctx, job, overruns>>
      BY <2>2 DEF Crash, Go
    <3>2. \A v \in Workers : at'[v] = "idle"
      BY <1>1, <2>2, <3>1 DEF DInv, Fits, Crash
    <3> QED BY <1>1, <3>1, <3>2 DEF DInv, StoredOK, Sound, DeliverableValidated, Units
  <2>3. CASE RateEntry \/ UNCHANGED vars
    BY <1>1, <2>3 DEF RateEntry, vars, DInv, StoredOK, Sound, Fits, DeliverableValidated
  <2>4. CASE Overrun
    BY <1>1, <2>4 DEF Overrun, DInv
  <2> QED BY <2>1, <2>2, <2>3, <2>4 DEF Next
<1>2. CASE overruns # 0
  <2>1. CASE RateEntry \/ Overrun \/ UNCHANGED vars
    BY <1>2, <2>1 DEF RateEntry, Overrun, vars, DInv
  <2>2. ASSUME NEW w \in Workers, Crash(w) PROVE DInv'
    BY <1>2, <2>2 DEF Crash, Go, DInv, Units
  <2>3. ASSUME NEW w \in Workers, Begin(w) PROVE DInv'
    <3>1. PICK s \in Stages : job' = [job EXCEPT ![w] = s] /\ at' = [at EXCEPT ![w] = FirstUnit(ckpt, s)]
      BY <2>3 DEF Begin
    <3>2. at' \in [Workers -> Units] /\ job' \in [Workers -> Stages]
      BY <3>1, FirstUnits DEF DInv
    <3> QED BY <1>2, <2>3, <3>2 DEF Begin, DInv
  <2>4. ASSUME NEW w \in Workers, Work(w) PROVE DInv'
    <3>1. UNCHANGED <<job, overruns>>
      BY <2>4 DEF Work, Build, Fallbacks, Validate, ScoreBuilders, Review, Rank, Iterate, Check,
                  Package, Record, NoteRecorded, Publish, SaveResults, End, Raise
    <3>2. \E u \in Units : at' = [at EXCEPT ![w] = u]
      BY <2>4 DEF Work, Build, Fallbacks, Validate, ScoreBuilders, Review, Rank, Iterate, Check,
                  Package, Record, NoteRecorded, Publish, SaveResults, End, Raise, Go, Units
    <3>3. \E d : ctx' = [ctx EXCEPT ![w] = d] \/ ctx' = ctx
      BY <2>4 DEF Work, Build, Fallbacks, Validate, ScoreBuilders, Review, Rank, Iterate, Check,
                  Package, Record, NoteRecorded, Publish, SaveResults, End, Raise, Save
    <3> QED BY <1>2, <3>1, <3>2, <3>3 DEF DInv
  <2> QED BY <2>1, <2>2, <2>3, <2>4 DEF Next
<1> QED BY <1>1, <1>2

LEMMA InitDInv == Init => DInv
<1> SUFFICES ASSUME Init PROVE DInv
  OBVIOUS
<1>1. at \in [Workers -> Units] /\ job \in [Workers -> Stages]
  BY DEF Init, Units, Stages
<1>2. StoredOK
  BY DEF Init, Empty, StoredOK, IsDocument, Fields, Sound, DeliverableValidated
<1> QED BY <1>1, <1>2 DEF Init, DInv

\* The package holds code that passed the gate unless a worker outlived its
\* lease: crashes between the saves of code and verdict do no harm.
THEOREM GatePassed == Spec => []PackagedPassed
<1>1. Init => DInv
  BY InitDInv
<1>2. DInv => PackagedPassed
  BY DEF DInv, StoredOK, PackagedPassed
<1> QED BY <1>1, <1>2, DInvStep, PTL DEF Spec
-----------------------------------------------------------------------------
\* The results of a complete build are there, or its worker is about to save
\* them or to fail.
ResultsDue ==
    /\ crashes \in Nat
    /\ overruns = 0 /\ crashes = 0 /\ build = "complete" =>
           results = "success" \/ \E w \in Workers : at[w] \in {"results", "raise"}

\* The counters only grow, and only one worker is at work.
LEMMA Calm ==
    ASSUME DInv, crashes \in Nat, [Next]_vars
    PROVE  /\ crashes' \in Nat
           /\ overruns' = 0 /\ crashes' = 0 =>
                  /\ overruns = 0 /\ crashes = 0
                  /\ \A v, w \in Workers : at[v] # "idle" /\ at[w] # "idle" => v = w
                  /\ \/ \E w \in Workers : Begin(w) \/ Work(w)
                     \/ RateEntry \/ UNCHANGED vars
<1>1. CASE \E w \in Workers : Begin(w) \/ Work(w)
  <2>1. UNCHANGED <<overruns, crashes>>
    BY <1>1 DEF Begin, Work, Build, Fallbacks, Validate, ScoreBuilders, Review, Rank, Iterate, Check,
                Package, Record, NoteRecorded, Publish, SaveResults, End, Raise
  <2> QED BY <1>1, <2>1 DEF DInv, Fits
<1>2. CASE \E w \in Workers : Crash(w)
  BY <1>2 DEF Crash
<1>3. CASE RateEntry \/ Overrun \/ UNCHANGED vars
  BY <1>3 DEF RateEntry, Overrun, vars, DInv, Fits
<1> QED BY <1>1, <1>2, <1>3 DEF Next

LEMMA ResultsDueStep == DInv /\ ResultsDue /\ [Next]_vars => ResultsDue'
<1> SUFFICES ASSUME DInv, ResultsDue, [Next]_vars, overruns' = 0, crashes' = 0, build' = "complete"
             PROVE  results' = "success" \/ \E w \in Workers : at'[w] \in {"results", "raise"}
  BY Calm DEF ResultsDue
<1> USE DEF Go
<1>1. CASE RateEntry \/ UNCHANGED vars
  BY <1>1, Calm DEF RateEntry, vars, ResultsDue
<1>2. ASSUME NEW w \in Workers, Begin(w) PROVE FALSE
  BY <1>2 DEF Begin, Runnable
<1>3. ASSUME NEW w \in Workers, Work(w)
      PROVE  results' = "success" \/ \E v \in Workers : at'[v] \in {"results", "raise"}
  <2>1. at \in [Workers -> Units] /\ \A v \in Workers : at[v] # "idle" /\ at[w] # "idle" => v = w
    BY Calm DEF DInv, ResultsDue
  <2>2. CASE Publish(w)
    <3>1. at'[w] \in {"results", "raise"}
      BY <2>1, <2>2 DEF Publish
    <3> QED BY <3>1
  <2>3. CASE SaveResults(w) \/ Raise(w)
    BY <2>3 DEF SaveResults, Raise
  <2>4. CASE ~(Publish(w) \/ SaveResults(w) \/ Raise(w))
    <3>1. at[w] \notin {"idle", "results", "raise"} /\ results' = results /\ build = "complete"
      BY <1>3, <2>4 DEF Work, Build, Fallbacks, Validate, ScoreBuilders, Review, Rank, Iterate, Check,
                        Package, Record, NoteRecorded, End
    <3> QED BY <2>1, <3>1, Calm DEF ResultsDue
  <2> QED BY <2>2, <2>3, <2>4
<1> QED BY <1>1, <1>2, <1>3, Calm DEF ResultsDue

\* A build shown complete has its results, unless a worker died or outlived
\* its lease, although the two are written one after the other.
THEOREM ResultsStored == Spec => []ResultsUnlessCrashed
<1>1. Init => DInv /\ ResultsDue
  BY InitDInv DEF Init, ResultsDue
<1>2. DInv /\ ResultsDue => ResultsUnlessCrashed
  BY DEF ResultsDue, ResultsUnlessCrashed
<1> QED BY <1>1, <1>2, DInvStep, ResultsDueStep, PTL DEF Spec

-----------------------------------------------------------------------------
\* The stage is not executed again; a worker is in it, behind the entry.
Closed == build # "active" \/ DoneIn(ckpt, "leaderboard")
Entering(w) == job[w] = "leaderboard" /\ (at[w] = "note" \/ (at[w] = "end" /\ ckpt.recorded))

\* The entry is written once: a worker that is about to write it finds none.
EntryDue ==
    /\ crashes \in Nat
    /\ \A w \in Workers : at[w] \in {"record", "note"} => job[w] = "leaderboard"
    /\ overruns = 0 /\ crashes = 0 /\ board # "none" =>
           Closed \/ \E w \in Workers : Entering(w)
    /\ overruns = 0 /\ crashes = 0 /\ board # "none" => \A w \in Workers : at[w] # "record"

\* What is recorded or marked stays so.
LEMMA RecordedStays ==
    ASSUME IsDocument(ckpt), NEW w \in Workers, Work(w)
    PROVE  /\ ckpt.recorded => ckpt'.recorded
           /\ ckpt'.marks = ckpt.marks \/ (at[w] = "end" /\ ckpt'.marks = ckpt.marks \cup {job[w]})
  BY DEF IsDocument, Fields, Work, Save, Build, Fallbacks, Validate, ScoreBuilders, Review, Rank,
         Iterate, Check, WithVerdict, Package, Record, NoteRecorded, Publish, SaveResults, End, Raise

LEMMA ClosedStays ==
    ASSUME IsDocument(ckpt), NEW w \in Workers, Work(w), Closed
    PROVE  Closed'
<1>1. CASE build # "active"
  BY <1>1 DEF Closed, Work, Build, Fallbacks, Validate, ScoreBuilders, Review, Rank, Iterate, Check,
              Package, Record, NoteRecorded, Publish, SaveResults, End, Raise
<1>2. CASE DoneIn(ckpt, "leaderboard")
  BY <1>2, RecordedStays DEF Closed, DoneIn
<1> QED BY <1>1, <1>2 DEF Closed

LEMMA EntryDueStep == DInv /\ EntryDue /\ [Next]_vars => EntryDue'
<1> SUFFICES ASSUME DInv, EntryDue, [Next]_vars PROVE EntryDue'
  OBVIOUS
<1> USE DEF Go
<1>1. \A w \in Workers : at'[w] \in {"record", "note"} => job'[w] = "leaderboard"
  <2>1. CASE RateEntry \/ Overrun \/ UNCHANGED vars
    BY <2>1 DEF RateEntry, Overrun, vars, EntryDue
  <2>2. ASSUME NEW w \in Workers, Crash(w)
      PROVE  \A v \in Workers : at'[v] \in {"record", "note"} => job'[v] = "leaderboard"
    BY <2>2 DEF Crash, DInv, EntryDue
  <2>3. ASSUME NEW w \in Workers, Begin(w)
      PROVE  \A v \in Workers : at'[v] \in {"record", "note"} => job'[v] = "leaderboard"
    <3>1. PICK s \in Stages : job' = [job EXCEPT ![w] = s] /\ at' = [at EXCEPT ![w] = FirstUnit(ckpt, s)]
      BY <2>3 DEF Begin
    <3>2. FirstUnit(ckpt, s) \in {"record", "note"} => s = "leaderboard"
      BY DEF FirstUnit, MayPackage, Stages
    <3> QED BY <3>1, <3>2 DEF DInv, EntryDue
  <2>4. ASSUME NEW w \in Workers, Work(w)
      PROVE  \A v \in Workers : at'[v] \in {"record", "note"} => job'[v] = "leaderboard"
    <3>1. job' = job /\ \E u : at' = [at EXCEPT ![w] = u] /\ (u \in {"record", "note"} => at[w] = "record")
      BY <2>4 DEF Work, Build, Fallbacks, Validate, ScoreBuilders, Review, Rank, Iterate, Check,
                  Package, Record, NoteRecorded, Publish, SaveResults, End, Raise
    <3> QED BY <3>1 DEF DInv, EntryDue
  <2> QED BY <2>1, <2>2, <2>3, <2>4 DEF Next
<1>2. ASSUME overruns' = 0, crashes' = 0, board' # "none"
      PROVE  /\ Closed' \/ \E w \in Workers : Entering(w)'
             /\ \A w \in Workers : at'[w] # "record"
  <2>0. /\ overruns = 0 /\ crashes = 0 /\ IsDocument(ckpt) /\ at \in [Workers -> Units]
        /\ \A v, w \in Workers : at[v] # "idle" /\ at[w] # "idle" => v = w
        /\ (\E w \in Workers : Begin(w) \/ Work(w)) \/ RateEntry \/ UNCHANGED vars
    BY <1>2, Calm DEF EntryDue, DInv, StoredOK
  <2>1. CASE RateEntry \/ UNCHANGED vars
    BY <1>2, <2>0, <2>1 DEF RateEntry, vars, EntryDue, Closed, Entering, DoneIn
  <2>2. ASSUME NEW w \in Workers, Begin(w)
      PROVE  /\ Closed' \/ \E v \in Workers : Entering(v)'
             /\ \A v \in Workers : at'[v] # "record"
    <3>1. PICK s \in Stages : Runnable(s) /\ at' = [at EXCEPT ![w] = FirstUnit(ckpt, s)]
      BY <2>2 DEF Begin
    <3>2. \A v \in Workers : at[v] = "idle"
      BY <2>0, <2>2, WorkersAssumption DEF Begin, DInv, Fits
    <3>3. board # "none" /\ UNCHANGED <<build, ckpt>>
      BY <1>2, <2>2 DEF Begin
    <3>4. Closed /\ build = "active"
      BY <2>0, <3>1, <3>2, <3>3 DEF EntryDue, Entering, Runnable
    <3>5. s # "leaderboard"
      BY <3>1, <3>4, RunnableStages DEF Closed, Runnable
    <3>6. FirstUnit(ckpt, s) # "record"
      BY <3>5 DEF FirstUnit, MayPackage, Stages
    <3> QED BY <2>0, <3>1, <3>2, <3>3, <3>4, <3>6 DEF Closed, DoneIn
  <2>3. ASSUME NEW w \in Workers, Work(w)
      PROVE  /\ Closed' \/ \E v \in Workers : Entering(v)'
             /\ \A v \in Workers : at'[v] # "record"
    <3>1. \A v \in Workers : at'[v] # "record"
      <4>1. \E u : at' = [at EXCEPT ![w] = u] /\ u # "record" /\ at[w] # "idle"
        BY <2>3 DEF Work, Build, Fallbacks, Validate, ScoreBuilders, Review, Rank, Iterate, Check,
                    Package, Record, NoteRecorded, Publish, SaveResults, End, Raise
      <4> QED BY <2>0, <4>1
    <3>2. CASE Record(w)
      <4>1. at'[w] = "note" /\ job'[w] = "leaderboard"
        BY <2>0, <3>2 DEF Record, EntryDue
      <4> QED BY <3>1, <4>1 DEF Entering
    <3>3. CASE ~Record(w)
      <4>1. board' = board
        BY <2>3, <3>3 DEF Work, Build, Fallbacks, Validate, ScoreBuilders, Review, Rank, Iterate, Check,
                    Package, NoteRecorded, Publish, SaveResults, End, Raise
      <4>2. CASE Closed
        BY <2>0, <2>3, <3>1, <4>2, ClosedStays
      <4>3. CASE Entering(w)
        <5>1. CASE NoteRecorded(w)
          BY <2>0, <3>1, <4>3, <5>1 DEF NoteRecorded, Save, Entering, IsDocument, Fields
        <5>2. CASE End(w)
          <6>1. ckpt'.recorded /\ "leaderboard" \in ckpt'.marks
            BY <2>0, <2>3, <4>3, <5>2, RecordedStays DEF End, Entering, IsDocument, Fields
          <6> QED BY <3>1, <6>1 DEF Closed, DoneIn
        <5> QED BY <2>3, <4>3, <5>1, <5>2
                DEF Entering, Work, Build, Fallbacks, Validate, ScoreBuilders, Review, Rank, Iterate,
                    Check, Package, Record, Publish, SaveResults, Raise
      <4>4. at[w] # "idle"
        BY <2>3 DEF Work, Build, Fallbacks, Validate, ScoreBuilders, Review, Rank, Iterate, Check,
                    Package, Record, NoteRecorded, Publish, SaveResults, End, Raise
      <4> QED BY <1>2, <2>0, <4>1, <4>2, <4>3, <4>4 DEF EntryDue, Entering
    <3> QED BY <3>2, <3>3
  <2> QED BY <2>0, <2>1, <2>2, <2>3
<1> QED BY <1>1, <1>2, Calm DEF EntryDue

\* A rating that a user gave to the entry is not replaced by a later step of
\* the build, unless a worker died or outlived its lease.
THEOREM RatingStays == Spec => RatingKept
<1>1. Init => DInv /\ EntryDue
  BY InitDInv DEF Init, EntryDue
<1>2. DInv /\ EntryDue /\ [Next]_vars =>
        [board = "rated" /\ overruns = 0 /\ crashes = 0 => board' = "rated"]_vars
  BY DEF EntryDue, Next, Begin, Work, Build, Fallbacks, Validate, ScoreBuilders, Review, Rank, Iterate,
         Check, Package, Record, NoteRecorded, Publish, SaveResults, End, Raise, Crash, RateEntry,
         Overrun, vars
<1> QED BY <1>1, <1>2, DInvStep, EntryDueStep, PTL DEF Spec, RatingKept
-----------------------------------------------------------------------------
(* The operators the units are made of.                                    *)

\* A set of naturals has a least element.
LEMMA Least ==
    ASSUME NEW S \in SUBSET Nat, S # {}
    PROVE  \E i \in S : \A k \in S : i <= k
<1> DEFINE R == OpToRel(<, Nat)
<1>1. IsWellFoundedOn(R, Nat)
  BY NatLessThanWellFounded
<1>2. \A x, y \in Nat : x < y => <<x, y>> \in R
  BY DEF OpToRel
<1> HIDE DEF R
<1>3. PICK i \in S : \A k \in S : <<k, i>> \notin R
  BY <1>1, WFMin
<1>4. \A k \in S : ~(k < i)
  BY <1>2, <1>3
<1> QED BY <1>4

\* The members of a finite set of naturals have the places 1, 2, ...
LEMMA Places ==
    ASSUME NEW S \in SUBSET Nat, IsFiniteSet(S)
    PROVE  /\ Cardinality(S) \in Nat
           /\ \A n \in 1..Cardinality(S) : \E i \in S : Place(S, i) = n
<1> DEFINE N == Cardinality(S)
           Before(i) == {k \in S : k <= i}
<1>1. N \in Nat
  BY FS_CardinalityType
<1>2. ASSUME NEW i \in S
      PROVE  IsFiniteSet(Before(i)) /\ Cardinality(Before(i)) \in 1..N
  <2>1. IsFiniteSet(Before(i)) /\ Cardinality(Before(i)) <= N
    BY FS_Subset
  <2>2. Cardinality(Before(i)) \in Nat /\ i \in Before(i)
    BY <2>1, FS_CardinalityType
  <2>3. Cardinality(Before(i)) # 0
    BY <2>1, <2>2, FS_EmptySet
  <2> QED BY <1>1, <2>1, <2>2, <2>3
<1>3. ASSUME NEW i \in S, NEW j \in S, i < j
      PROVE  Cardinality(Before(i)) # Cardinality(Before(j))
  <2>1. /\ \A k \in Before(i) : k \in Before(j)
        /\ j \in Before(j)
        /\ j \notin Before(i)
    BY <1>3
  <2>2. IsFiniteSet(Before(j))
    BY <1>2
  <2> HIDE DEF Before
  <2> QED BY <2>1, <2>2, FS_Subset
<1> DEFINE f == [i \in S |-> Place(S, i)]
<1>4. f \in [S -> 1..N]
  BY <1>2 DEF Place
<1>5. ASSUME NEW i \in S, NEW j \in S, f[i] = f[j] PROVE i = j
  <2>1. ~(i < j) /\ ~(j < i)
    BY <1>3, <1>5 DEF Place
  <2> QED BY <2>1
<1>7. IsFiniteSet(1..N) /\ Cardinality(1..N) = N
  BY <1>1, FS_Interval
<1> HIDE DEF f, N
<1>6. f \in Injection(S, 1..N)
  BY <1>4, <1>5 DEF Injection, IsInjective
<1>8. f \in Surjection(S, 1..N)
  BY <1>6, <1>7, FS_Injection DEF N
<1>9. ASSUME NEW n \in 1..N PROVE \E i \in S : Place(S, i) = n
  <2>1. PICK i \in S : f[i] = n
    BY <1>8 DEF Surjection
  <2> QED BY <2>1 DEF f
<1> QED BY <1>1, <1>9 DEF N

\* What passed: a sequence of passing members of the pool, empty only if the
\* pool holds none.
LEMMA Passing ==
    ASSUME NEW S, NEW pool \in Seq(S)
    PROVE  /\ Validated(pool) \in Seq({a \in S : Passes(a.code)})
           /\ Validated(pool) = <<>> => \A i \in DOMAIN pool : ~Passes(pool[i].code)
<1> DEFINE P == {i \in DOMAIN pool : Passes(pool[i].code)}
           N == Cardinality(P)
           At(n) == CHOOSE i \in P : Place(P, i) = n
<1>1. P \in SUBSET Nat /\ IsFiniteSet(P)
  <2>1. IsFiniteSet(DOMAIN pool)
    BY FS_Interval
  <2> QED BY <2>1, FS_Subset
<1>2. N \in Nat /\ \A n \in 1..N : At(n) \in P
  BY <1>1, Places
<1>3. Validated(pool) = [n \in 1..N |-> pool[At(n)]]
  BY DEF Validated
<1>4. \A i \in P : pool[i] \in {a \in S : Passes(a.code)}
  OBVIOUS
<1>5. Validated(pool) = <<>> => P = {}
  <2> HIDE DEF P, N, At
  <2>1. Validated(pool) = <<>> => N = 0
    BY <1>2, <1>3
  <2> USE DEF N
  <2> QED BY <1>1, <2>1, FS_EmptySet
<1> HIDE DEF N, At, P
<1>6. Validated(pool) \in Seq({a \in S : Passes(a.code)})
  BY <1>2, <1>3, <1>4
<1> USE DEF P
<1> QED BY <1>5, <1>6

\* The passing attempts and those added to them, under new ids.
LEMMA MinimumPasses ==
    ASSUME TypeOK, NEW S, NEW valid \in Seq({a \in S : Passes(a.code)}),
           NEW rest \in [1..NumStacks -> {"good", "bad"}],
           \A i \in Nat \ {0}, code \in Codes :
               [id |-> ids + i, success |-> TRUE, code |-> code] \in S
    PROVE  /\ Minimum(valid, rest) \in Seq({a \in S : Passes(a.code)})
           /\ Minimum(valid, rest) = <<>> => valid = <<>>
<1> DEFINE need == IF Len(valid) < 2 THEN 2 - Len(valid) ELSE 0
           n == IF need < NumStacks THEN need ELSE NumStacks
           Code(i) == IF Passes(template[i]) THEN template[i] ELSE rest[i]
           more == [i \in 1..n |-> [id |-> ids + i, success |-> TRUE, code |-> Code(i)]]
<1>1. n \in 0..NumStacks /\ NumStacks \in Nat
  BY StacksAssumption
<1> HIDE DEF need, n
<1>2. \A i \in 1..n : i \in 1..NumStacks /\ i \in Nat \ {0}
  BY <1>1
<1>3. \A i \in 1..n : Code(i) \in Codes
  BY <1>2 DEF TypeOK, Codes
<1> HIDE DEF Code
<1>4. \A i \in 1..n : [id |-> ids + i, success |-> TRUE, code |-> Code(i)] \in S
  BY <1>2, <1>3
<1>5. more \in Seq(S)
  BY <1>1, <1>4
<1> HIDE DEF more
<1>6. Validated(more) \in Seq({a \in S : Passes(a.code)})
  BY <1>5, Passing
<1>7. Minimum(valid, rest) = valid \o Validated(more)
  BY DEF Minimum, more, n, need, Code
<1> QED BY <1>6, <1>7

\* The first code of the attempts, if there is any.
LEMMA FirstCodes ==
    ASSUME NEW c, c.attempts \in Seq(Attempts)
    PROVE  /\ FirstCode(c) \in Codes
           /\ HasWinner(c) => WinnerCode(c) \in Codes
           /\ HasWinner(c) => \E i \in DOMAIN c.attempts : WinnerCode(c) = c.attempts[i].code
<1> DEFINE s == c.attempts
           B == {i \in DOMAIN s : s[i].code # ""}
           First(i) == i \in DOMAIN s /\ s[i].code # "" /\ \A k \in 1..i - 1 : s[k].code = ""
<1>0. /\ s \in Seq(Attempts) /\ DOMAIN s = 1..Len(s) /\ Len(s) \in Nat
      /\ \A i \in DOMAIN s : s[i] \in Attempts /\ i \in Nat \ {0}
  OBVIOUS
<1>4. \A i \in DOMAIN s : s[i].code \in Codes
  BY <1>0 DEF Attempts
<1> HIDE DEF s
<1>1. ASSUME B # {} PROVE \E i : First(i)
  <2>0. B \in SUBSET Nat
    BY <1>0
  <2>1. PICK i \in B : \A k \in B : i <= k
    BY <1>1, <2>0, Least
  <2>2. i \in 1..Len(s)
    BY <1>0
  <2>3. ASSUME NEW k \in 1..i - 1 PROVE k \in 1..Len(s) /\ ~(i <= k)
    <3>1. Len(s) \in Nat
      BY <1>0
    <3> HIDE DEF B
    <3> QED BY <2>2, <3>1
  <2>4. \A k \in 1..i - 1 : k \notin B
    BY <2>1, <2>3
  <2> QED BY <1>0, <2>3, <2>4
<1>2. FirstCode(c) \in Codes
  <2>1. CASE B # {}
    <3> DEFINE j == CHOOSE i \in DOMAIN s : s[i].code # "" /\ \A k \in 1..i - 1 : s[k].code = ""
    <3>1. j \in DOMAIN s
      BY <1>1, <2>1
    <3>2. FirstCode(c) = s[j].code
      BY <2>1 DEF FirstCode, s
    <3> HIDE DEF j
    <3> QED BY <1>4, <3>1, <3>2
  <2>2. CASE B = {}
    BY <2>2 DEF FirstCode, Codes, s
  <2> QED BY <2>1, <2>2
<1>3. HasWinner(c) => \E i \in DOMAIN s : WinnerCode(c) = s[i].code
  BY DEF HasWinner, WinnerCode, s
<1> QED BY <1>2, <1>3, <1>4 DEF s

\* The codes that a unit saves are codes.
LEMMA CodesTyped ==
    ASSUME NEW c \in Documents
    PROVE  Fallback(c) \in Codes /\ Reverted(c) \in Codes /\ c.attempts \in Seq(Attempts)
<1>1. c.attempts \in Seq(Attempts) /\ c.final \in Codes
  BY DEF Documents
<1> QED BY <1>1, FirstCodes DEF Fallback, Reverted

LEMMA Repairs ==
    ASSUME TypeOK, NEW a \in Attempts, NEW i \in Nat \ {0}
    PROVE  Repaired(a, i) \in Attempts /\ Repaired(a, i).id = a.id
                /\ Replacement(a, i) \in Attempts /\ Replacement(a, i).id = ids + i
<1> DEFINE k == ((i - 1) % NumStacks) + 1
<1>1. k \in 1..NumStacks
  BY StacksAssumption
<1>2. template[k] \in Codes
  BY <1>1 DEF TypeOK, Codes
<1> HIDE DEF k
<1>3. ids \in Nat
  BY DEF TypeOK
<1>4. Replacement(a, i) = [id |-> ids + i, code |-> template[k], success |-> TRUE]
  BY DEF Replacement, k
<1>5. Replacement(a, i) \in Attempts /\ Replacement(a, i).id = ids + i
  BY <1>2, <1>3, <1>4 DEF Attempts
<1>6. PICK code \in Codes : Repaired(a, i) = [a EXCEPT !.code = code, !.success = Passes(code)]
  BY <1>2 DEF Repaired, Attempts, k
<1>7. Repaired(a, i) \in Attempts /\ Repaired(a, i).id = a.id
  BY <1>6 DEF Attempts, Passes
<1> QED BY <1>5, <1>7

\* What builders make.
LEMMA MadeTyped ==
    ASSUME NEW a \in Made
    PROVE  a.code \in Codes /\ a.success \in BOOLEAN
<1>1. PICK answer \in Codes \cup {"error", "raises"}, written \in BOOLEAN :
          a = Materialized(Answered(answer), written)
  BY DEF Made
<1> DEFINE b == Answered(answer)
<1>2. b = [code |-> b.code, success |-> b.success] /\ b.code \in Codes /\ b.success \in BOOLEAN
  BY DEF Answered, Codes
<1> HIDE DEF b
<1>3. a = b \/ a = [b EXCEPT !.success = written]
  BY <1>1 DEF Materialized, b
<1> QED BY <1>2, <1>3

\* A save keeps a checkpoint a checkpoint.
LEMMA EditsTyped ==
    ASSUME NEW c \in Documents
    PROVE  /\ \A x \in Seq(Attempts) : [c EXCEPT !.built = x, !.attempts = x] \in Documents
           /\ \A x \in Seq(Attempts) : [c EXCEPT !.attempts = x, !.fallbacks = TRUE] \in Documents
           /\ \A x \in Seq(Attempts) :
                 [c EXCEPT !.attempts = x, !.validated = TRUE, !.passed = FALSE] \in Documents
           /\ \A x \in {"sound", "odd"} : [c EXCEPT !.scores = x] \in Documents
           /\ \A x \in Seq(Nat) : [c EXCEPT !.reviews = x] \in Documents
           /\ \A x \in Nat : [c EXCEPT !.winner = x] \in Documents
           /\ \A x \in BOOLEAN, y \in Codes : [c EXCEPT !.iterated = x, !.final = y] \in Documents
           /\ \A y \in Codes : WithVerdict(c, y) \in Documents
           /\ \A x \in Codes : [c EXCEPT !.zip = x] \in Documents
           /\ [c EXCEPT !.recorded = TRUE] \in Documents
           /\ \A x \in Stages : [c EXCEPT !.marks = @ \cup {x}] \in Documents
<1>1. \A x \in Seq(Attempts) : [c EXCEPT !.built = x, !.attempts = x] \in Documents
  BY DEF Documents
<1>2. \A x \in Seq(Attempts) : [c EXCEPT !.attempts = x, !.fallbacks = TRUE] \in Documents
  BY DEF Documents
<1>3. \A x \in Seq(Attempts) :
          [c EXCEPT !.attempts = x, !.validated = TRUE, !.passed = FALSE] \in Documents
  BY DEF Documents
<1>4. \A x \in {"sound", "odd"} : [c EXCEPT !.scores = x] \in Documents
  BY DEF Documents
<1>5. \A x \in Seq(Nat) : [c EXCEPT !.reviews = x] \in Documents
  BY DEF Documents
<1>6. \A x \in Nat : [c EXCEPT !.winner = x] \in Documents
  BY DEF Documents
<1>7. \A x \in BOOLEAN, y \in Codes : [c EXCEPT !.iterated = x, !.final = y] \in Documents
  BY DEF Documents
<1>8. \A y \in Codes : WithVerdict(c, y) \in Documents
  BY DEF Documents, WithVerdict, Passes
<1>9. \A x \in Codes : [c EXCEPT !.zip = x] \in Documents
  BY DEF Documents
<1>10. [c EXCEPT !.recorded = TRUE] \in Documents
  BY DEF Documents
<1>11. \A x \in Stages : [c EXCEPT !.marks = @ \cup {x}] \in Documents
  BY DEF Documents
<1> QED BY <1>1, <1>2, <1>3, <1>4, <1>5, <1>6, <1>7, <1>8, <1>9, <1>10, <1>11
-----------------------------------------------------------------------------
\* A unit that saves.
LEMMA SaveTyped ==
    ASSUME TypeOK, NEW w \in Workers, NEW d \in Documents, NEW e \in Documents,
           ckpt' = d, ctx' = [ctx EXCEPT ![w] = e],
           NEW u \in Units, at' = [at EXCEPT ![w] = u], ids' \in Nat,
           UNCHANGED <<job, holder, template, build, results, board, overruns, crashes>>
    PROVE  TypeOK'
  BY DEF TypeOK

LEMMA TypeStep == TypeOK /\ [Next]_vars => TypeOK'
<1> SUFFICES ASSUME TypeOK, [Next]_vars PROVE TypeOK'
  OBVIOUS
<1> USE DEF Go
<1>0. /\ ckpt \in Documents /\ \A w \in Workers : ctx[w] \in Documents
      /\ ids \in Nat /\ 2 * NumStacks \in Nat /\ NumStacks \in Nat
  BY StacksAssumption DEF TypeOK
<1>1. ASSUME NEW w \in Workers, Begin(w) PROVE TypeOK'
  <2>1. PICK s \in Stages : job' = [job EXCEPT ![w] = s] /\ at' = [at EXCEPT ![w] = FirstUnit(ckpt, s)]
    BY <1>1 DEF Begin
  <2>2. job' \in [Workers -> Stages] /\ at' \in [Workers -> Units]
    BY <2>1, FirstUnits DEF TypeOK
  <2>3. ctx' \in [Workers -> Documents]
    BY <1>0, <1>1 DEF Begin, TypeOK
  <2> QED BY <1>1, <2>2, <2>3 DEF Begin, TypeOK
<1>2. ASSUME NEW w \in Workers, Build(w) PROVE TypeOK'
  <2>1. PICK made \in [1..2 * NumStacks -> Made] :
          LET pool == [i \in DOMAIN made |-> [id |-> ids + i, code |-> made[i].code,
                                              success |-> made[i].success]]
          IN Save(w, LAMBDA c : [c EXCEPT !.built = pool, !.attempts = pool])
    BY <1>2 DEF Build
  <2> DEFINE pool == [i \in DOMAIN made |-> [id |-> ids + i, code |-> made[i].code,
                                             success |-> made[i].success]]
  <2>2. \A i \in 1..2 * NumStacks : ids + i \in Nat /\ made[i].code \in Codes /\ made[i].success \in BOOLEAN
    BY <1>0, MadeTyped
  <2>3. pool \in Seq(Attempts)
    <3>1. pool \in [1..2 * NumStacks -> Attempts]
      BY <2>2 DEF Attempts
    <3> HIDE DEF pool
    <3> QED BY <1>0, <3>1
  <2>4. Save(w, LAMBDA c : [c EXCEPT !.built = pool, !.attempts = pool])
    BY <2>1
  <2> HIDE DEF pool
  <2>5. ckpt' \in Documents /\ \E e \in Documents : ctx' = [ctx EXCEPT ![w] = e]
    BY <1>0, <2>3, <2>4, EditsTyped DEF Save
  <2>9. ids' \in Nat /\ UNCHANGED <<job, holder, template, build, results, board, overruns, crashes>>
    BY <1>0, <1>2 DEF Build
  <2>10. at' = [at EXCEPT ![w] = "end"]
    BY <1>2 DEF Build
  <2> QED BY <2>10, <2>5, <2>9, SaveTyped DEF Units
<1>3. ASSUME NEW w \in Workers, Fallbacks(w) PROVE TypeOK'
  <2> DEFINE pool == [i \in DOMAIN ctx[w].built |->
                       LET a == ctx[w].built[i] IN IF a.success THEN a ELSE Replacement(a, i)]
  <2>1. ctx[w].built \in Seq(Attempts)
    BY <1>0 DEF Documents
  <2>2. \A i \in DOMAIN ctx[w].built : ctx[w].built[i] \in Attempts /\ i \in Nat \ {0}
    BY <2>1
  <2>3. pool \in Seq(Attempts)
    <3>1. pool \in [1..Len(ctx[w].built) -> Attempts]
      BY <2>1, <2>2, Repairs
    <3> HIDE DEF pool
    <3> QED BY <2>1, <3>1
  <2>4. Save(w, LAMBDA c : [c EXCEPT !.attempts = pool, !.fallbacks = TRUE])
    BY <1>3 DEF Fallbacks
  <2> HIDE DEF pool
  <2>5. ckpt' \in Documents /\ \E e \in Documents : ctx' = [ctx EXCEPT ![w] = e]
    BY <1>0, <2>3, <2>4, EditsTyped DEF Save
  <2>9. ids' \in Nat /\ UNCHANGED <<job, holder, template, build, results, board, overruns, crashes>>
    BY <1>0, <1>3 DEF Fallbacks
  <2>10. at' = [at EXCEPT ![w] = "validate"]
    BY <1>3 DEF Fallbacks
  <2> QED BY <2>10, <2>5, <2>9, SaveTyped DEF Units
<1>4. ASSUME NEW w \in Workers, Validate(w) PROVE TypeOK'
  <2>1. PICK rest \in [1..NumStacks -> {"good", "bad"}] :
          LET repaired == [i \in DOMAIN ctx[w].attempts |-> Repaired(ctx[w].attempts[i], i)]
              valid == Minimum(Validated(repaired), rest)
          IN /\ Save(w, LAMBDA c : [c EXCEPT !.attempts = IF valid # <<>> THEN valid ELSE repaired,
                                             !.validated = TRUE, !.passed = FALSE])
             /\ Go(w, IF valid # <<>> THEN "end" ELSE "raise")
    BY <1>4 DEF Validate
  <2> DEFINE repaired == [i \in DOMAIN ctx[w].attempts |-> Repaired(ctx[w].attempts[i], i)]
             valid == Minimum(Validated(repaired), rest)
             pool == IF valid # <<>> THEN valid ELSE repaired
  <2>2. ctx[w].attempts \in Seq(Attempts)
    BY <1>0 DEF Documents
  <2>3. \A i \in DOMAIN ctx[w].attempts : ctx[w].attempts[i] \in Attempts /\ i \in Nat \ {0}
    BY <2>2
  <2>4. repaired \in Seq(Attempts)
    <3>1. \A i \in DOMAIN ctx[w].attempts : Repaired(ctx[w].attempts[i], i) \in Attempts
      BY <2>3, Repairs
    <3>2. repaired \in [1..Len(ctx[w].attempts) -> Attempts]
      BY <2>2, <3>1
    <3> HIDE DEF repaired
    <3> QED BY <2>2, <3>2
  <2>5. /\ Save(w, LAMBDA c : [c EXCEPT !.attempts = pool, !.validated = TRUE, !.passed = FALSE])
        /\ \E u \in {"end", "raise"} : at' = [at EXCEPT ![w] = u]
    BY <2>1
  <2> HIDE DEF repaired
  <2>6. valid \in Seq(Attempts)
    <3>1. \A i \in Nat \ {0}, code \in Codes : [id |-> ids + i, success |-> TRUE, code |-> code] \in Attempts
      BY <1>0 DEF Attempts
    <3>2. valid \in Seq({a \in Attempts : Passes(a.code)})
      BY <2>4, <3>1, Passing, MinimumPasses
    <3> HIDE DEF valid
    <3> QED BY <3>2
  <2>7. pool \in Seq(Attempts)
    BY <2>4, <2>6
  <2> HIDE DEF pool
  <2>8. ckpt' \in Documents /\ \E e \in Documents : ctx' = [ctx EXCEPT ![w] = e]
    BY <1>0, <2>5, <2>7, EditsTyped DEF Save
  <2>9. ids' \in Nat /\ UNCHANGED <<job, holder, template, build, results, board, overruns, crashes>>
    BY <1>0, <1>4 DEF Validate
  <2> QED BY <2>5, <2>8, <2>9, SaveTyped DEF Units
<1>5. ASSUME NEW w \in Workers, ScoreBuilders(w) PROVE TypeOK'
  <2>1. ckpt' \in Documents /\ \E e \in Documents : ctx' = [ctx EXCEPT ![w] = e]
    BY <1>0, <1>5, EditsTyped DEF ScoreBuilders, Save
  <2> QED BY <1>0, <1>5, <2>1, SaveTyped DEF ScoreBuilders, Units
<1>6. ASSUME NEW w \in Workers, Review(w) PROVE TypeOK'
  <2> DEFINE c == ctx[w]
             reviews == Merged(CodeReviews(c), ProductReviews(c), CreativeReviews(c))
  <2>1. c.attempts \in Seq(Attempts)
    BY <1>0, CodesTyped
  <2>2. reviews \in Seq(Nat)
    <3>0. \A i \in DOMAIN c.attempts : c.attempts[i] \in Attempts
      BY <2>1
    <3>1. \A i \in DOMAIN c.attempts : c.attempts[i].id \in Nat
      BY <3>0 DEF Attempts
    <3>2. reviews = [i \in DOMAIN c.attempts |-> c.attempts[i].id]
      BY DEF Merged, CodeReviews, ProductReviews, CreativeReviews, Ids
    <3>3. reviews \in [1..Len(c.attempts) -> Nat] /\ Len(c.attempts) \in Nat
      BY <2>1, <3>1, <3>2
    <3> HIDE DEF reviews
    <3> QED BY <3>3
  <2>3. Save(w, LAMBDA d : [d EXCEPT !.reviews = reviews])
    BY <1>6 DEF Review
  <2> HIDE DEF reviews
  <2>4. ckpt' \in Documents /\ \E e \in Documents : ctx' = [ctx EXCEPT ![w] = e]
    BY <1>0, <2>2, <2>3, EditsTyped DEF Save
  <2> QED BY <1>0, <1>6, <2>4, SaveTyped DEF Review, Units
<1>7. ASSUME NEW w \in Workers, Rank(w) PROVE TypeOK'
  <2>1. PICK i \in DOMAIN ctx[w].attempts : Save(w, LAMBDA c : [c EXCEPT !.winner = ctx[w].attempts[i].id])
    BY <1>7 DEF Rank
  <2>2. ctx[w].attempts \in Seq(Attempts)
    BY <1>0, CodesTyped
  <2>3. ctx[w].attempts[i] \in Attempts
    BY <2>1, <2>2
  <2> DEFINE id == ctx[w].attempts[i].id
  <2>4. id \in Nat /\ Save(w, LAMBDA c : [c EXCEPT !.winner = id])
    BY <2>1, <2>3 DEF Attempts
  <2> HIDE DEF id
  <2>5. ckpt' \in Documents /\ \E e \in Documents : ctx' = [ctx EXCEPT ![w] = e]
    BY <1>0, <2>4, EditsTyped DEF Save
  <2> QED BY <1>0, <1>7, <2>5, SaveTyped DEF Rank, Units
<1>8. ASSUME NEW w \in Workers, Iterate(w) PROVE TypeOK'
  <2>1. PICK best \in Iterations(ctx[w]) :
           Save(w, LAMBDA c : [c EXCEPT !.iterated = HasWinner(ctx[w]),
                                        !.final = IF best = "none" THEN Fallback(ctx[w]) ELSE best])
    BY <1>8 DEF Iterate
  <2> DEFINE code == IF best = "none" THEN Fallback(ctx[w]) ELSE best
             has == HasWinner(ctx[w])
  <2>2. code \in Codes
    <3>1. Fallback(ctx[w]) \in Codes
      BY <1>0, CodesTyped
    <3>2. best \in {"good", "bad", "none"}
      BY <2>1 DEF Iterations
    <3> QED BY <3>1, <3>2 DEF Codes
  <2>3. has \in BOOLEAN
    BY DEF HasWinner
  <2>4. Save(w, LAMBDA c : [c EXCEPT !.iterated = has, !.final = code])
    BY <2>1
  <2> HIDE DEF code, has
  <2>5. ckpt' \in Documents /\ \E e \in Documents : ctx' = [ctx EXCEPT ![w] = e]
    BY <1>0, <2>2, <2>3, <2>4, EditsTyped DEF Save
  <2> QED BY <1>0, <1>8, <2>5, SaveTyped DEF Iterate, Units
<1>9. ASSUME NEW w \in Workers, Check(w) PROVE TypeOK'
  <2> DEFINE code == Reverted(ctx[w])
  <2>1. code \in Codes
    BY <1>0, CodesTyped
  <2>2. \/ UNCHANGED <<ckpt, ctx>>
        \/ Save(w, LAMBDA c : WithVerdict(c, code))
    BY <1>9 DEF Check
  <2> HIDE DEF code
  <2>3. CASE UNCHANGED <<ckpt, ctx>>
    BY <1>9, <2>3 DEF Check, TypeOK, Units
  <2>4. CASE Save(w, LAMBDA c : WithVerdict(c, code))
    <3>1. ckpt' \in Documents /\ \E e \in Documents : ctx' = [ctx EXCEPT ![w] = e]
      BY <1>0, <2>1, <2>4, EditsTyped DEF Save
    <3> QED BY <1>0, <1>9, <3>1, SaveTyped DEF Check, Units
  <2> QED BY <2>2, <2>3, <2>4
<1>10. ASSUME NEW w \in Workers, Package(w) \/ NoteRecorded(w) PROVE TypeOK'
  <2>1. ctx[w].final \in Codes
    BY <1>0 DEF Documents
  <2>2. ckpt' \in Documents /\ \E e \in Documents : ctx' = [ctx EXCEPT ![w] = e]
    BY <1>0, <1>10, <2>1, EditsTyped DEF Package, NoteRecorded, Packaged, Save
  <2> QED BY <1>0, <1>10, <2>2, SaveTyped DEF Package, NoteRecorded, Units
<1>11. ASSUME NEW w \in Workers, Record(w) \/ Publish(w) \/ SaveResults(w) PROVE TypeOK'
  BY <1>11 DEF Record, Entered, Publish, SaveResults, TypeOK, Units
<1>12. ASSUME NEW w \in Workers, End(w) PROVE TypeOK'
  <2>1. ckpt' \in Documents
    <3>1. job[w] \in Stages
      BY DEF TypeOK
    <3> QED BY <1>0, <1>12, <3>1, EditsTyped DEF End
  <2> QED BY <1>12, <2>1 DEF End, Release, TypeOK, Units
<1>13. ASSUME NEW w \in Workers, Raise(w) \/ Crash(w) PROVE TypeOK'
  BY <1>13, BoundsAssumption DEF Raise, Crash, Release, TypeOK, Units
<1>14. CASE RateEntry \/ Overrun \/ UNCHANGED vars
  BY <1>14, BoundsAssumption DEF RateEntry, Overrun, vars, TypeOK
<1> QED BY <1>1, <1>2, <1>3, <1>4, <1>5, <1>6, <1>7, <1>8, <1>9, <1>10, <1>11, <1>12, <1>13, <1>14 DEF Next, Work

LEMMA InitTypes == Init => TypeOK
<1> SUFFICES ASSUME Init PROVE TypeOK
  OBVIOUS
<1>1. <<>> \in Seq(Attempts) /\ <<>> \in Seq(Nat)
  OBVIOUS
<1>2. Empty \in Documents
  BY <1>1 DEF Empty, Documents, Codes
<1> QED BY <1>2, BoundsAssumption DEF Init, TypeOK, Units, Stages

\* The values of the variables: every code that is saved is a code, every
\* list of attempts a sequence of attempts, whoever works on an old copy.
THEOREM Types == Spec => []TypeOK
BY InitTypes, TypeStep, PTL DEF Spec
-----------------------------------------------------------------------------
(* The order of the stages.  The markers of a checkpoint say which of its   *)
(* keys may be relied on, and a stage that is not done is executed only     *)
(* behind the markers of those before it; a death between the save of a key *)
(* and its marker leaves a key without one, never a marker without a key.   *)
Named == {a \in Attempts : a.id # 0}

\* What is reviewed and ranked are the attempts the repair loop left.
Consistent(c) ==
    /\ c.built \in Seq(Named) /\ c.attempts \in Seq(Named)
    /\ c.attempts # <<>> => c.built # <<>>
    /\ "repair" \in c.marks => c.validated
    /\ c.validated => c.attempts # <<>>
    /\ "novelty" \in c.marks => "repair" \in c.marks
    /\ c.reviews # <<>> => "repair" \in c.marks /\ c.reviews = Ids(c.attempts)
    /\ c.winner # 0 => "repair" \in c.marks /\ HasWinner(c)
    /\ c.zip # "" => c.passed /\ c.winner # 0 /\ "novelty" \in c.marks

\* The units of a stage that may be executed.
UnitsOf(s) ==
    CASE s = "builder" -> {"build", "end"}
      [] s = "repair" -> {"fallbacks", "validate", "end", "raise"}
      [] s = "reviewing" -> {"score", "review", "end"}
      [] s = "ranking" -> {"rank", "end"}
      [] s = "novelty" -> {"iterate", "check", "end"}
      [] s = "packaging" -> {"package", "end", "raise"}
      [] s = "leaderboard" -> {"record", "note", "end"}
      [] s = "finalize" -> {"publish", "results", "end", "raise"}

\* What a stage was executed for is there, marked or not.
Product(c, s) ==
    CASE s = "builder" -> c.attempts # <<>>
      [] s = "repair" -> c.validated
      [] s = "reviewing" -> c.reviews # <<>>
      [] s = "ranking" -> c.winner # 0
      [] s = "novelty" -> c.final # ""
      [] s = "packaging" -> c.zip # ""
      [] s = "leaderboard" -> c.recorded
      [] s = "finalize" -> TRUE

\* All is done up to the leaderboard.
Last == {"leaderboard", "finalize"}
Shipped(c) == \A s \in Stages \ Last : DoneIn(c, s)

\* A stage s that may be executed, and unit u of it.
Behind(c, s) ==
    /\ s # "builder" => c.attempts # <<>>
    /\ s \notin {"builder", "repair"} => "repair" \in c.marks
    /\ s \in {"novelty", "packaging", "leaderboard", "finalize"} => c.winner # 0
    /\ s \in {"packaging", "leaderboard", "finalize"} => "novelty" \in c.marks
    /\ s \in Last => Shipped(c)

Within(c, s, u) ==
    /\ Behind(c, s) /\ u \in UnitsOf(s)
    /\ u = "build" => c.attempts = <<>>
    /\ u = "fallbacks" => ~c.validated
    /\ s = "repair" /\ u # "end" => "repair" \notin c.marks
    /\ u = "end" /\ s # "novelty" => Product(c, s)
    /\ u = "raise" => \/ s = "repair"
                      \/ s = "packaging" /\ ~c.passed
                      \/ s = "finalize" /\ c.scores = "odd"

\* Without a crash, what is validated passed the gate, and so does what is
\* made of it; only a repair that found nothing that passes is about to fail.
AllPass(c) == \A i \in DOMAIN c.attempts : Passes(c.attempts[i].code)

Sane(c) ==
    /\ "repair" \in c.marks => AllPass(c)
    /\ "novelty" \in c.marks => c.passed

Healthy(c, s, u) ==
    /\ Sane(c)
    /\ u = "end" /\ s = "repair" => AllPass(c)
    /\ u = "end" /\ s = "novelty" => c.passed /\ c.final # ""
    /\ c.validated => AllPass(c) \/ (s = "repair" /\ u = "raise")

AllIdle == \A w \in Workers : at[w] = "idle"

\* As long as no worker outlives its lease.
EInv ==
    overruns = 0 =>
        /\ Consistent(ckpt)
        /\ \A w \in Workers : at[w] # "idle" => Within(ckpt, job[w], at[w])
        /\ board # "none" =>
              Shipped(ckpt) /\ \A w \in Workers : at[w] # "idle" => job[w] \in Last
        /\ build = "failed" => AllIdle /\ (board # "none" => ckpt.scores = "odd")
        /\ crashes = 0 =>
              /\ \A w \in Workers : at[w] # "idle" => Healthy(ckpt, job[w], at[w])
              /\ AllIdle /\ build # "failed" => Sane(ckpt) /\ (ckpt.validated => AllPass(ckpt))
              /\ build = "failed" /\ ckpt.scores # "odd" => "repair" \notin ckpt.marks

\* The marker, and what it stands for.
LEMMA Done ==
    ASSUME NEW c, NEW s \in Stages
    PROVE  DoneIn(c, s) <=> s \in c.marks /\ Product(c, s)
  BY DEF DoneIn, Product, Stages

\* The stages before the one that is next are done.
LEMMA NextStage ==
    ASSUME NEW c, NEW s \in Stages, IsNext(c, s)
    PROVE  /\ ~DoneIn(c, s)
           /\ s # "builder" => DoneIn(c, "builder")
           /\ s \notin {"builder", "repair"} => DoneIn(c, "repair")
           /\ s \notin {"builder", "repair", "reviewing"} => DoneIn(c, "reviewing")
           /\ s \in {"novelty", "packaging", "leaderboard", "finalize"} => DoneIn(c, "ranking")
           /\ s \in {"packaging", "leaderboard", "finalize"} => DoneIn(c, "novelty")
           /\ s \in Last => Shipped(c)
<1>1. PICK n \in 1..8 : /\ Order[n] = s /\ ~DoneIn(c, s)
                        /\ \A k \in 1..n - 1 : DoneIn(c, Order[k])
  BY DEF IsNext, Order
<1>2. \A k \in 1..8 : k < n => DoneIn(c, Order[k])
  BY <1>1
<1> USE DEF Order
<1>3. n > 1 => DoneIn(c, "builder")
  BY <1>2
<1>4. n > 2 => DoneIn(c, "repair")
  BY <1>2
<1>5. n > 3 => DoneIn(c, "reviewing")
  BY <1>2
<1>6. n > 4 => DoneIn(c, "ranking")
  BY <1>2
<1>7. n > 5 => DoneIn(c, "novelty")
  BY <1>2
<1>8. n > 6 => DoneIn(c, "packaging")
  BY <1>2
<1>9. /\ s # "builder" => n > 1
      /\ s \notin {"builder", "repair"} => n > 2
      /\ s \notin {"builder", "repair", "reviewing"} => n > 3
      /\ s \in {"novelty", "packaging", "leaderboard", "finalize"} => n > 4
      /\ s \in {"packaging", "leaderboard", "finalize"} => n > 5
      /\ s \in Last => n > 6
  BY <1>1 DEF Last
<1>10. s \in Last => Shipped(c)
  BY <1>3, <1>4, <1>5, <1>6, <1>7, <1>8, <1>9 DEF Shipped, Stages, Last
<1> QED BY <1>1, <1>3, <1>4, <1>5, <1>6, <1>7, <1>9, <1>10

\* A step of the only worker that goes on to another unit.
LEMMA Continue ==
    ASSUME DInv, EInv, overruns = 0, overruns' = 0, NEW w \in Workers, at[w] # "idle",
           NEW u \in Units \ {"idle"}, at' = [at EXCEPT ![w] = u],
           UNCHANGED <<job, holder, crashes>>, build' # "failed",
           NEW d, ckpt' = d, Consistent(d), Within(d, job[w], u),
           board' # "none" => Shipped(d) /\ job[w] \in Last,
           crashes = 0 => Healthy(d, job[w], u)
    PROVE  EInv'
<1>1. \A v \in Workers : at'[v] # "idle" => v = w /\ at'[v] = u
  BY DEF DInv, Fits
<1>2. ~AllIdle'
  BY DEF AllIdle, DInv
<1> QED BY <1>1, <1>2 DEF EInv

\* The stage of a unit.
LEMMA StageOf ==
    ASSUME NEW s \in Stages, NEW u \in UnitsOf(s)
    PROVE  /\ u \in Units \ {"idle"}
           /\ u = "build" => s = "builder"
           /\ u \in {"fallbacks", "validate"} => s = "repair"
           /\ u \in {"score", "review"} => s = "reviewing"
           /\ u = "rank" => s = "ranking"
           /\ u \in {"iterate", "check"} => s = "novelty"
           /\ u = "package" => s = "packaging"
           /\ u \in {"record", "note"} => s = "leaderboard"
           /\ u \in {"publish", "results"} => s = "finalize"
  BY DEF UnitsOf, Stages, Units

\* The worker whose copy is the stored checkpoint.
LEMMA AtWork ==
    ASSUME TypeOK, DInv, EInv, overruns = 0, NEW w \in Workers, at[w] # "idle"
    PROVE  /\ ctx[w] = ckpt /\ holder = w /\ Fits(w) /\ ckpt \in Documents /\ Consistent(ckpt)
           /\ job[w] \in Stages /\ Within(ckpt, job[w], at[w]) /\ at[w] \in UnitsOf(job[w])
           /\ build # "failed" /\ (board # "none" => Shipped(ckpt) /\ job[w] \in Last)
           /\ crashes = 0 => Healthy(ckpt, job[w], at[w])
           /\ ckpt.passed => ckpt.final # ""
  BY DEF TypeOK, DInv, EInv, AllIdle, Within, Fits, StoredOK

\* What a unit saves is consistent with what was there, unit by unit.
LEMMA BuiltThere ==
    ASSUME NEW c, NEW d, Consistent(c), Within(c, "builder", "build"),
           NEW x \in Seq(Named), x # <<>>, d.built = x, d.attempts = x,
           \A k \in Fields \ {"built", "attempts"} : d[k] = c[k]
    PROVE  /\ Consistent(d) /\ Within(d, "builder", "end")
           /\ Healthy(c, "builder", "build") => Healthy(d, "builder", "end")
  BY DEF Consistent, Within, Behind, UnitsOf, Product, Healthy, Sane, Fields, Last

LEMMA ReplacedThere ==
    ASSUME NEW c, NEW d, Consistent(c), Within(c, "repair", "fallbacks"),
           NEW x \in Seq(Named), x # <<>>, d.attempts = x,
           \A k \in Fields \ {"attempts", "fallbacks"} : d[k] = c[k]
    PROVE  Consistent(d) /\ Within(d, "repair", "validate")
  BY DEF Consistent, Within, Behind, UnitsOf, Product, Fields, Last

LEMMA ValidThere ==
    ASSUME NEW c, NEW d, Consistent(c), Within(c, "repair", "validate"),
           NEW x \in Seq(Named), x # <<>>, d.attempts = x, d.validated = TRUE,
           \A k \in Fields \ {"attempts", "validated", "passed"} : d[k] = c[k],
           NEW u \in {"end", "raise"}, u = "end" => \A i \in DOMAIN x : Passes(x[i].code)
    PROVE  /\ Consistent(d) /\ Within(d, "repair", u)
           /\ Healthy(c, "repair", "validate") => Healthy(d, "repair", u)
<1>1. /\ "repair" \notin c.marks /\ "novelty" \notin c.marks
      /\ c.reviews = <<>> /\ c.winner = 0 /\ c.zip = "" /\ c.attempts # <<>>
  BY DEF Consistent, Within, Behind
<1>2. Consistent(d)
  BY <1>1 DEF Consistent, Fields
<1>3. Within(d, "repair", u)
  BY <1>1 DEF Within, Behind, UnitsOf, Product, Fields, Last
<1> QED BY <1>1, <1>2, <1>3 DEF Healthy, Sane, AllPass, Fields

LEMMA ScoresThere ==
    ASSUME NEW c, NEW d, Consistent(c), Within(c, "reviewing", "score"),
           \A k \in Fields \ {"scores"} : d[k] = c[k]
    PROVE  /\ Consistent(d) /\ Within(d, "reviewing", "review")
           /\ Healthy(c, "reviewing", "score") => Healthy(d, "reviewing", "review")
  BY DEF Consistent, HasWinner, Within, Behind, UnitsOf, Product, Healthy, Sane, AllPass, Fields, Last

LEMMA ReviewsThere ==
    ASSUME NEW c, NEW d, Consistent(c), Within(c, "reviewing", "review"),
           d.reviews = Ids(c.attempts), Ids(c.attempts) # <<>>,
           \A k \in Fields \ {"reviews"} : d[k] = c[k]
    PROVE  /\ Consistent(d) /\ Within(d, "reviewing", "end")
           /\ Healthy(c, "reviewing", "review") => Healthy(d, "reviewing", "end")
  BY DEF Consistent, HasWinner, Within, Behind, UnitsOf, Product, Healthy, Sane, AllPass, Fields, Last

LEMMA WinnerThere ==
    ASSUME NEW c, NEW d, Consistent(c), Within(c, "ranking", "rank"),
           NEW i \in DOMAIN c.attempts, d.winner = c.attempts[i].id,
           \A k \in Fields \ {"winner"} : d[k] = c[k]
    PROVE  /\ Consistent(d) /\ Within(d, "ranking", "end")
           /\ Healthy(c, "ranking", "rank") => Healthy(d, "ranking", "end")
<1>0. c.attempts \in Seq(Named)
  BY DEF Consistent
<1>1. c.attempts[i] \in Named
  BY <1>0
<1>2. d.winner # 0 /\ HasWinner(d)
  BY <1>1 DEF Named, HasWinner, Fields
<1> QED BY <1>2 DEF Consistent, Within, Behind, UnitsOf, Product, Healthy, Sane, AllPass, Fields, Last

LEMMA PackageThere ==
    ASSUME NEW c, NEW d, Consistent(c), Within(c, "packaging", "package"),
           d.zip = c.final, c.passed, c.final # "",
           \A k \in Fields \ {"zip"} : d[k] = c[k]
    PROVE  /\ Consistent(d) /\ Within(d, "packaging", "end")
           /\ Healthy(c, "packaging", "package") => Healthy(d, "packaging", "end")
  BY DEF Consistent, HasWinner, Within, Behind, UnitsOf, Product, Healthy, Sane, AllPass, Fields, Last

LEMMA RecordThere ==
    ASSUME NEW c, NEW d, Consistent(c), Within(c, "leaderboard", "note"), d.recorded = TRUE,
           \A k \in Fields \ {"recorded"} : d[k] = c[k]
    PROVE  /\ Consistent(d) /\ Within(d, "leaderboard", "end") /\ Shipped(d)
           /\ Healthy(c, "leaderboard", "note") => Healthy(d, "leaderboard", "end")
<1>1. Shipped(d)
  BY DEF Within, Behind, Shipped, DoneIn, Fields, Stages, Last
<1> QED BY <1>1 DEF Consistent, HasWinner, Within, Behind, UnitsOf, Product, Healthy, Sane, AllPass,
                    Fields, Last

LEMMA FinalThere ==
    ASSUME NEW c, NEW d, Consistent(c), Within(c, "novelty", "iterate"),
           c.zip = "", \A k \in Fields \ {"iterated", "final"} : d[k] = c[k]
    PROVE  /\ Consistent(d) /\ Within(d, "novelty", "check")
           /\ Healthy(c, "novelty", "iterate") => Healthy(d, "novelty", "check")
  BY DEF Consistent, HasWinner, Within, Behind, UnitsOf, Product, Healthy, Sane, AllPass, Fields, Last

LEMMA VerdictThere ==
    ASSUME NEW c, NEW d, Consistent(c), Within(c, "novelty", "check"), c.zip = "",
           NEW code, d.final = code, d.passed = Passes(code), code # "",
           c.attempts \in Seq(Attempts), code = Reverted(c),
           \A k \in Fields \ {"final", "passed"} : d[k] = c[k]
    PROVE  /\ Consistent(d) /\ Within(d, "novelty", "end")
           /\ Healthy(c, "novelty", "check") => Healthy(d, "novelty", "end")
<1>1. HasWinner(c) /\ (AllPass(c) => Passes(WinnerCode(c)))
  BY FirstCodes DEF Within, Behind, Consistent, AllPass
<1>2. AllPass(c) => Passes(code)
  BY <1>1 DEF Reverted
<1> QED BY <1>2 DEF Consistent, HasWinner, Within, Behind, UnitsOf, Product, Healthy, Sane, AllPass,
                    Fields, Last

\* Every unit but the last of its stage.
LEMMA EWork ==
    ASSUME TypeOK, DInv, EInv, overruns = 0, NEW w \in Workers, at[w] # "idle",
           Work(w), ~End(w), ~Raise(w)
    PROVE  EInv'
<1> DEFINE c == ckpt
           s == job[w]
<1>0. /\ ctx[w] = c /\ c \in Documents /\ Consistent(c) /\ s \in Stages /\ Within(c, s, at[w])
      /\ at[w] \in UnitsOf(s) /\ build # "failed" /\ (board # "none" => Shipped(c) /\ s \in Last)
      /\ crashes = 0 => Healthy(c, s, at[w])
      /\ c.passed => c.final # ""
      /\ ids \in Nat
  BY AtWork DEF TypeOK
<1>b. c \in Documents
  BY <1>0
<1>c. ASSUME NEW i \in Nat \ {0} PROVE ids + i \in Nat \ {0}
  <2>1. ids \in Nat
    BY DEF TypeOK
  <2> QED BY <2>1
<1> USE DEF Go
<1>1. CASE Build(w)
  <2>1. PICK made \in [1..2 * NumStacks -> Made] :
          LET pool == [i \in DOMAIN made |-> [id |-> ids + i, code |-> made[i].code,
                                              success |-> made[i].success]]
          IN Save(w, LAMBDA e : [e EXCEPT !.built = pool, !.attempts = pool])
    BY <1>1 DEF Build
  <2> DEFINE pool == [i \in DOMAIN made |-> [id |-> ids + i, code |-> made[i].code,
                                             success |-> made[i].success]]
             d == [c EXCEPT !.built = pool, !.attempts = pool]
  <2>2. \A i \in 1..2 * NumStacks : /\ ids + i \in Nat \ {0}
                                   /\ made[i].code \in Codes /\ made[i].success \in BOOLEAN
    <3>1. \A i \in 1..2 * NumStacks : made[i] \in Made /\ i \in Nat \ {0}
      BY StacksAssumption
    <3> QED BY <1>c, <3>1, MadeTyped
  <2>3. pool \in Seq(Named) /\ pool # <<>>
    <3>1. pool \in [1..2 * NumStacks -> Named]
      BY <2>2 DEF Attempts, Named
    <3>2. 2 * NumStacks \in Nat /\ 1 \in 1..2 * NumStacks
      BY StacksAssumption
    <3> HIDE DEF pool
    <3> QED BY <3>1, <3>2
  <2>4. ckpt' = d
    BY <2>1 DEF Save
  <2> HIDE DEF pool
  <2>5. d.built = pool /\ d.attempts = pool /\ \A k \in Fields \ {"built", "attempts"} : d[k] = c[k]
    BY <1>b DEF Documents, Fields
  <2> HIDE DEF d
  <2>6. s = "builder" /\ at[w] = "build" /\ at' = [at EXCEPT ![w] = "end"]
    BY <1>0, <1>1, StageOf DEF Build
  <2>7. Consistent(d) /\ Within(d, "builder", "end") /\ (crashes = 0 => Healthy(d, "builder", "end"))
    BY <1>0, <2>3, <2>5, <2>6, BuiltThere
  <2>8. UNCHANGED <<job, holder, build, board, overruns, crashes>>
    BY <1>1 DEF Build
  <2> QED BY <1>0, <2>4, <2>6, <2>7, <2>8, Continue DEF Units, Last
<1>2. CASE Fallbacks(w)
  <2> DEFINE pool == [i \in DOMAIN c.built |->
                       LET a == c.built[i] IN IF a.success THEN a ELSE Replacement(a, i)]
             d == [c EXCEPT !.attempts = pool, !.fallbacks = TRUE]
  <2>1. s = "repair" /\ at[w] = "fallbacks" /\ at' = [at EXCEPT ![w] = "validate"]
    BY <1>0, <1>2, StageOf DEF Fallbacks
  <2>2. c.built \in Seq(Named) /\ c.built # <<>>
    BY <1>0, <2>1 DEF Consistent, Within, Behind
  <2>3. \A i \in DOMAIN c.built : c.built[i] \in Named /\ c.built[i] \in Attempts /\ i \in Nat \ {0}
    BY <2>2 DEF Named
  <2>4. pool \in Seq(Named) /\ pool # <<>>
    <3>1. ASSUME NEW i \in DOMAIN c.built PROVE Replacement(c.built[i], i) \in Named
      <4>1. Replacement(c.built[i], i) \in Attempts /\ Replacement(c.built[i], i).id = ids + i
        BY <2>3, Repairs
      <4> QED BY <1>c, <2>3, <4>1 DEF Named
    <3>2. pool \in [1..Len(c.built) -> Named]
      BY <2>2, <2>3, <3>1
    <3>3. Len(c.built) \in Nat /\ 1 \in 1..Len(c.built)
      BY <2>2
    <3> HIDE DEF pool
    <3> QED BY <3>2, <3>3
  <2>5. ckpt' = d
    BY <1>0, <1>2 DEF Fallbacks, Save
  <2> HIDE DEF pool
  <2>6. d.attempts = pool /\ \A k \in Fields \ {"attempts", "fallbacks"} : d[k] = c[k]
    BY <1>b DEF Documents, Fields
  <2> HIDE DEF d
  <2>7. Consistent(d) /\ Within(d, "repair", "validate")
    BY <1>0, <2>1, <2>4, <2>6, ReplacedThere
  <2>8. crashes = 0 => Healthy(d, "repair", "validate")
    BY <1>0, <2>1, <2>6 DEF Healthy, Sane, Within, Fields
  <2>9. UNCHANGED <<job, holder, build, board, overruns, crashes>>
    BY <1>2 DEF Fallbacks
  <2> QED BY <1>0, <2>1, <2>5, <2>7, <2>8, <2>9, Continue DEF Units, Last
<1>3. CASE Validate(w)
  <2>1. PICK rest \in [1..NumStacks -> {"good", "bad"}] :
          LET repaired == [i \in DOMAIN ctx[w].attempts |-> Repaired(ctx[w].attempts[i], i)]
              valid == Minimum(Validated(repaired), rest)
          IN /\ Save(w, LAMBDA e : [e EXCEPT !.attempts = IF valid # <<>> THEN valid ELSE repaired,
                                             !.validated = TRUE, !.passed = FALSE])
             /\ Go(w, IF valid # <<>> THEN "end" ELSE "raise")
    BY <1>3 DEF Validate
  <2> DEFINE repaired == [i \in DOMAIN c.attempts |-> Repaired(c.attempts[i], i)]
             valid == Minimum(Validated(repaired), rest)
             pool == IF valid # <<>> THEN valid ELSE repaired
             u == IF valid # <<>> THEN "end" ELSE "raise"
             d == [c EXCEPT !.attempts = pool, !.validated = TRUE, !.passed = FALSE]
  <2>2. s = "repair" /\ at[w] = "validate"
    BY <1>0, <1>3, StageOf DEF Validate
  <2>3. c.attempts \in Seq(Named) /\ c.attempts # <<>>
    BY <1>0, <2>2 DEF Consistent, Within, Behind
  <2>4. \A i \in DOMAIN c.attempts : c.attempts[i] \in Named /\ c.attempts[i] \in Attempts /\ i \in Nat \ {0}
    BY <2>3 DEF Named
  <2>5. repaired \in Seq(Named) /\ repaired # <<>>
    <3>1. \A i \in DOMAIN c.attempts : Repaired(c.attempts[i], i) \in Named
      BY <2>4, Repairs DEF Named
    <3>2. repaired \in [1..Len(c.attempts) -> Named]
      BY <2>3, <3>1
    <3>3. Len(c.attempts) \in Nat /\ 1 \in 1..Len(c.attempts)
      BY <2>3
    <3> HIDE DEF repaired
    <3> QED BY <3>2, <3>3
  <2>6. ckpt' = d /\ at' = [at EXCEPT ![w] = u]
    BY <1>0, <2>1 DEF Save
  <2> HIDE DEF repaired
  <2>7. valid \in Seq({a \in Named : Passes(a.code)})
    <3>1. ASSUME NEW i \in Nat \ {0}, NEW code \in Codes
          PROVE  [id |-> ids + i, success |-> TRUE, code |-> code] \in Named
      BY <1>c DEF Attempts, Named
    <3> QED BY <2>5, <3>1, Passing, MinimumPasses
  <2> HIDE DEF valid
  <2>8. pool \in Seq(Named) /\ pool # <<>> /\ u \in {"end", "raise"}
    BY <2>5, <2>7
  <2>9. u = "end" => \A i \in DOMAIN pool : Passes(pool[i].code)
    <3>1. u = "end" => pool \in Seq({a \in Named : Passes(a.code)})
      BY <2>7
    <3> HIDE DEF pool, u
    <3>2. ASSUME u = "end", NEW i \in DOMAIN pool PROVE pool[i] \in {a \in Named : Passes(a.code)}
      BY <3>1, <3>2
    <3> QED BY <3>2
  <2> HIDE DEF pool, u
  <2>10. /\ d.attempts = pool /\ d.validated = TRUE
         /\ \A k \in Fields \ {"attempts", "validated", "passed"} : d[k] = c[k]
    BY <1>b DEF Documents, Fields
  <2> HIDE DEF d
  <2>11. Consistent(d) /\ Within(d, "repair", u) /\ (crashes = 0 => Healthy(d, "repair", u))
    <3>1. Consistent(c) /\ Within(c, "repair", "validate") /\ (crashes = 0 => Healthy(c, "repair", "validate"))
      BY <1>0, <2>2
    <3> HIDE DEF c
    <3> QED BY <2>8, <2>9, <2>10, <3>1, ValidThere
  <2>12. UNCHANGED <<job, holder, build, board, overruns, crashes>>
    BY <1>3 DEF Validate
  <2> QED BY <1>0, <2>2, <2>6, <2>8, <2>11, <2>12, Continue DEF Units, Last
<1>4. CASE ScoreBuilders(w)
  <2>1. PICK scores \in {"sound", "odd"} : Save(w, LAMBDA e : [e EXCEPT !.scores = scores])
    BY <1>4 DEF ScoreBuilders
  <2> DEFINE d == [c EXCEPT !.scores = scores]
  <2>2. ckpt' = d
    BY <2>1 DEF Save
  <2>3. \A k \in Fields \ {"scores"} : d[k] = c[k]
    BY <1>b DEF Documents, Fields
  <2> HIDE DEF d
  <2>4. s = "reviewing" /\ at[w] = "score" /\ at' = [at EXCEPT ![w] = "review"]
    BY <1>0, <1>4, StageOf DEF ScoreBuilders
  <2>5. Consistent(d) /\ Within(d, s, "review") /\ (crashes = 0 => Healthy(d, s, "review"))
    BY <1>0, <2>3, <2>4, ScoresThere
  <2>6. UNCHANGED <<job, holder, build, board, overruns, crashes>>
    BY <1>4 DEF ScoreBuilders
  <2> QED BY <1>0, <2>2, <2>4, <2>5, <2>6, Continue DEF Units, Last
<1>5. CASE Review(w)
  <2> DEFINE d == [c EXCEPT !.reviews = Ids(c.attempts)]
  <2>1. Merged(CodeReviews(c), ProductReviews(c), CreativeReviews(c)) = Ids(c.attempts)
    BY DEF Merged, CodeReviews, ProductReviews, CreativeReviews, Ids
  <2>2. ckpt' = d
    BY <1>0, <1>5, <2>1 DEF Review, Save
  <2>3. d.reviews = Ids(c.attempts) /\ \A k \in Fields \ {"reviews"} : d[k] = c[k]
    BY <1>b DEF Documents, Fields
  <2> HIDE DEF d
  <2>4. s = "reviewing" /\ at[w] = "review" /\ at' = [at EXCEPT ![w] = "end"]
    BY <1>0, <1>5, StageOf DEF Review
  <2>5. Ids(c.attempts) # <<>>
    <3>1. c.attempts \in Seq(Named) /\ c.attempts # <<>>
      BY <1>0, <2>4 DEF Within, Behind, Consistent
    <3>2. 1 \in DOMAIN c.attempts
      BY <3>1
    <3>3. 1 \in DOMAIN Ids(c.attempts)
      BY <3>2 DEF Ids
    <3> QED BY <3>3
  <2>6. Consistent(d) /\ Within(d, s, "end") /\ (crashes = 0 => Healthy(d, s, "end"))
    BY <1>0, <2>3, <2>4, <2>5, ReviewsThere
  <2>7. UNCHANGED <<job, holder, build, board, overruns, crashes>>
    BY <1>5 DEF Review
  <2> QED BY <1>0, <2>2, <2>4, <2>6, <2>7, Continue DEF Units, Last
<1>6. CASE Rank(w)
  <2>0. PICK i \in DOMAIN ctx[w].attempts : Save(w, LAMBDA e : [e EXCEPT !.winner = ctx[w].attempts[i].id])
    BY <1>6 DEF Rank
  <2>1. i \in DOMAIN c.attempts
    BY <1>0
  <2> DEFINE d == [c EXCEPT !.winner = c.attempts[i].id]
  <2>2. ckpt' = d
    BY <1>0, <2>0 DEF Save
  <2>3. d.winner = c.attempts[i].id /\ \A k \in Fields \ {"winner"} : d[k] = c[k]
    BY <1>b DEF Documents, Fields
  <2> HIDE DEF d
  <2>4. s = "ranking" /\ at[w] = "rank" /\ at' = [at EXCEPT ![w] = "end"]
    BY <1>0, <1>6, StageOf DEF Rank
  <2>5. Consistent(d) /\ Within(d, s, "end") /\ (crashes = 0 => Healthy(d, s, "end"))
    BY <1>0, <2>1, <2>3, <2>4, WinnerThere
  <2>6. UNCHANGED <<job, holder, build, board, overruns, crashes>>
    BY <1>6 DEF Rank
  <2> QED BY <1>0, <2>2, <2>4, <2>5, <2>6, Continue DEF Units, Last
<1>7. at[w] \in {"iterate", "check"} => c.zip = ""
  BY <1>0, AtWork DEF Fits, Consistent
<1>8. CASE Iterate(w)
  <2>1. PICK best \in Iterations(ctx[w]) :
           Save(w, LAMBDA e : [e EXCEPT !.iterated = HasWinner(ctx[w]),
                                        !.final = IF best = "none" THEN Fallback(ctx[w]) ELSE best])
    BY <1>8 DEF Iterate
  <2> DEFINE x == HasWinner(ctx[w])
             y == IF best = "none" THEN Fallback(ctx[w]) ELSE best
             d == [c EXCEPT !.iterated = x, !.final = y]
  <2>2. ckpt' = d
    BY <2>1 DEF Save
  <2> HIDE DEF x, y
  <2>3. \A k \in Fields \ {"iterated", "final"} : d[k] = c[k]
    BY <1>b DEF Documents, Fields
  <2> HIDE DEF d
  <2>4. s = "novelty" /\ at[w] = "iterate" /\ at' = [at EXCEPT ![w] = "check"]
    BY <1>0, <1>8, StageOf DEF Iterate
  <2>5. Consistent(d) /\ Within(d, s, "check") /\ (crashes = 0 => Healthy(d, s, "check"))
    BY <1>0, <1>7, <2>3, <2>4, FinalThere
  <2>6. UNCHANGED <<job, holder, build, board, overruns, crashes>>
    BY <1>8 DEF Iterate
  <2> QED BY <1>0, <2>2, <2>4, <2>5, <2>6, Continue DEF Units, Last
<1>9. CASE Check(w)
  <2> DEFINE code == Reverted(c)
  <2>1. s = "novelty" /\ at[w] = "check" /\ at' = [at EXCEPT ![w] = "end"]
    BY <1>0, <1>9, StageOf DEF Check
  <2>2. UNCHANGED <<job, holder, build, board, overruns, crashes>>
    BY <1>9 DEF Check
  <2>3. c.attempts \in Seq(Attempts)
    BY <1>0, CodesTyped
  <2>4. CASE code # ""
    <3> DEFINE d == WithVerdict(c, code)
    <3>1. ckpt' = d
      BY <1>0, <1>9, <2>4 DEF Check, Save
    <3>2. /\ d.final = code /\ d.passed = Passes(code)
          /\ \A k \in Fields \ {"final", "passed"} : d[k] = c[k]
      BY <1>b DEF Documents, Fields, WithVerdict
    <3> HIDE DEF d, code
    <3>3. Consistent(d) /\ Within(d, s, "end") /\ (crashes = 0 => Healthy(d, s, "end"))
      BY <1>0, <1>7, <2>1, <2>3, <2>4, <3>2, VerdictThere DEF code
    <3> QED BY <1>0, <2>1, <2>2, <3>1, <3>3, Continue DEF Units, Last
  <2>5. CASE code = ""
    <3>1. ckpt' = c
      BY <1>0, <1>9, <2>5 DEF Check
    <3>2. crashes = 0 => FALSE
      <4> SUFFICES ASSUME crashes = 0 PROVE FALSE
        OBVIOUS
      <4>1. HasWinner(c) /\ AllPass(c)
        BY <1>0, <2>1 DEF Within, Behind, Consistent, Healthy, Sane
      <4>2. Passes(WinnerCode(c))
        BY <2>3, <4>1, FirstCodes DEF AllPass
      <4> QED BY <2>5, <4>1, <4>2 DEF Reverted, Passes
    <3>3. Within(c, s, "end")
      BY <1>0, <2>1 DEF Within, UnitsOf
    <3> QED BY <1>0, <2>1, <2>2, <3>1, <3>2, <3>3, Continue DEF Units, Last
  <2> QED BY <2>4, <2>5
<1>10. CASE Package(w)
  <2> DEFINE d == [c EXCEPT !.zip = c.final]
  <2>1. ckpt' = d
    BY <1>0, <1>10 DEF Package, Packaged, Save
  <2>2. d.zip = c.final /\ \A k \in Fields \ {"zip"} : d[k] = c[k]
    BY <1>b DEF Documents, Fields
  <2> HIDE DEF d
  <2>3. s = "packaging" /\ at[w] = "package" /\ at' = [at EXCEPT ![w] = "end"]
    BY <1>0, <1>10, StageOf DEF Package
  <2>4. c.passed
    BY <2>3, AtWork DEF Fits
  <2>5. Consistent(d) /\ Within(d, s, "end") /\ (crashes = 0 => Healthy(d, s, "end"))
    BY <1>0, <2>2, <2>3, <2>4, PackageThere
  <2>6. UNCHANGED <<job, holder, build, board, overruns, crashes>>
    BY <1>10 DEF Package
  <2> QED BY <1>0, <2>1, <2>3, <2>5, <2>6, Continue DEF Units, Last
<1>11. CASE NoteRecorded(w)
  <2> DEFINE d == [c EXCEPT !.recorded = TRUE]
  <2>1. ckpt' = d
    BY <1>0, <1>11 DEF NoteRecorded, Save
  <2>2. d.recorded = TRUE /\ \A k \in Fields \ {"recorded"} : d[k] = c[k]
    BY <1>b DEF Documents, Fields
  <2> HIDE DEF d
  <2>3. s = "leaderboard" /\ at[w] = "note" /\ at' = [at EXCEPT ![w] = "end"]
    BY <1>0, <1>11, StageOf DEF NoteRecorded
  <2>4. Consistent(d) /\ Within(d, s, "end") /\ Shipped(d) /\ (crashes = 0 => Healthy(d, s, "end"))
    BY <1>0, <2>2, <2>3, RecordThere
  <2>5. UNCHANGED <<job, holder, build, board, overruns, crashes>>
    BY <1>11 DEF NoteRecorded
  <2> QED BY <1>0, <2>1, <2>3, <2>4, <2>5, Continue DEF Units, Last
<1>12. CASE Record(w)
  <2>1. s = "leaderboard" /\ at[w] = "record" /\ at' = [at EXCEPT ![w] = "note"]
    BY <1>0, <1>12, StageOf DEF Record
  <2>2. Within(c, s, "note") /\ Shipped(c) /\ (crashes = 0 => Healthy(c, s, "note"))
    BY <1>0, <2>1 DEF Within, Behind, UnitsOf, Last, Healthy
  <2>3. UNCHANGED <<ckpt, job, holder, build, overruns, crashes>>
    BY <1>12 DEF Record
  <2> QED BY <1>0, <2>1, <2>2, <2>3, Continue DEF Units, Last
<1>13. CASE Publish(w) \/ SaveResults(w)
  <2>1. s = "finalize" /\ at[w] \in {"publish", "results"}
    BY <1>0, <1>13, StageOf DEF Publish, SaveResults
  <2>2. c.winner # 0 /\ Shipped(c)
    BY <1>0, <2>1 DEF Within, Behind, Last
  <2>3. PICK u \in {"results", "end"} : at' = [at EXCEPT ![w] = u]
    BY <1>0, <1>13, <2>2 DEF Publish, SaveResults
  <2>4. Within(c, s, u) /\ (crashes = 0 => Healthy(c, s, u))
    BY <1>0, <2>1 DEF Within, UnitsOf, Healthy, Product
  <2>5. UNCHANGED <<ckpt, job, holder, board, overruns, crashes>> /\ build' = "complete"
    BY <1>13 DEF Publish, SaveResults
  <2> QED BY <1>0, <2>1, <2>2, <2>3, <2>4, <2>5, Continue DEF Units, Last
<1> QED BY <1>1, <1>2, <1>3, <1>4, <1>5, <1>6, <1>8, <1>9, <1>10, <1>11, <1>12, <1>13 DEF Work

\* A stage begins behind the markers of those before it.
LEMMA EBegin ==
    ASSUME TypeOK, DInv, EInv, overruns = 0, NEW w \in Workers, Begin(w)
    PROVE  EInv'
<1> DEFINE c == ckpt
<1>1. PICK s \in Stages : /\ Runnable(s)
                          /\ job' = [job EXCEPT ![w] = s]
                          /\ at' = [at EXCEPT ![w] = FirstUnit(c, s)]
  BY DEF Begin
<1>2. /\ AllIdle /\ Consistent(c) /\ build = "active"
      /\ board # "none" => Shipped(c)
      /\ crashes = 0 => Sane(c) /\ (c.validated => AllPass(c))
      /\ UNCHANGED <<ckpt, build, board, overruns, crashes>>
  <2>1. AllIdle
    BY WorkersAssumption DEF Begin, DInv, Fits, AllIdle
  <2> QED BY <1>1, <2>1 DEF EInv, Begin, Runnable
<1>3. /\ ~DoneIn(c, s)
      /\ s # "builder" => c.attempts # <<>>
      /\ s \notin {"builder", "repair"} => "repair" \in c.marks
      /\ s \in {"novelty", "packaging", "leaderboard", "finalize"} => c.winner # 0
      /\ s \in {"packaging", "leaderboard", "finalize"} => "novelty" \in c.marks
      /\ s \in Last => Shipped(c)
  BY <1>1, NextStage, Done DEF Runnable, Product, Stages
<1> DEFINE u == FirstUnit(c, s)
<1>4. Behind(c, s)
  BY <1>3 DEF Behind, Last
<1>5. u \in UnitsOf(s)
  <2>1. CASE s \in {"builder", "repair", "novelty", "finalize"}
    BY <2>1 DEF FirstUnit, MayPackage, UnitsOf
  <2>2. CASE s = "reviewing"
    BY <1>3, <2>2 DEF FirstUnit, MayPackage, UnitsOf
  <2>3. CASE s = "ranking"
    BY <1>2, <2>3 DEF FirstUnit, MayPackage, UnitsOf, Consistent
  <2>4. CASE s = "packaging"
    BY <2>4 DEF FirstUnit, MayPackage, UnitsOf
  <2>5. CASE s = "leaderboard"
    BY <2>5 DEF FirstUnit, MayPackage, UnitsOf
  <2> QED BY <2>1, <2>2, <2>3, <2>4, <2>5 DEF Stages
<1>6. Within(c, s, u)
  <2>1. u = "build" => c.attempts = <<>>
    BY DEF FirstUnit, MayPackage, Stages
  <2>2. u = "fallbacks" => ~c.validated
    BY <1>3 DEF FirstUnit, MayPackage, Stages
  <2>3. s = "repair" /\ u # "end" => "repair" \notin c.marks
    BY <1>2, <1>3 DEF FirstUnit, MayPackage, Consistent
  <2>4. u = "end" /\ s # "novelty" => Product(c, s)
    BY <1>2, <1>3 DEF FirstUnit, MayPackage, Product, Consistent, Stages
  <2>5. s \in Last => c.passed /\ c.winner # 0
    <3>1. s \in Last => c.zip # ""
      BY <1>3 DEF Shipped, DoneIn, Stages, Last
    <3> QED BY <1>2, <3>1 DEF Consistent
  <2>6. u = "raise" => \/ s = "repair"
                       \/ s = "packaging" /\ ~c.passed
                       \/ s = "finalize" /\ c.scores = "odd"
    BY <1>2, <1>3, <2>5 DEF FirstUnit, MayPackage, Stages, Consistent, Last
  <2> QED BY <1>4, <1>5, <2>1, <2>2, <2>3, <2>4, <2>6 DEF Within
<1>7. board # "none" => s \in Last
  BY <1>2, <1>3 DEF Shipped, Last
<1>8. crashes = 0 => Healthy(c, s, u)
  <2>1. s = "novelty" => u # "end"
    BY DEF FirstUnit, MayPackage
  <2>2. s = "repair" /\ u = "end" => c.validated
    BY DEF FirstUnit, MayPackage
  <2> QED BY <1>2, <2>1, <2>2 DEF Healthy
<1>9. \A v \in Workers : at'[v] # "idle" => v = w /\ at'[v] = u /\ job'[v] = s
  BY <1>1, <1>2 DEF AllIdle, DInv
<1>10. at'[w] = u
  BY <1>1 DEF DInv
<1>11. u \in Units \ {"idle"}
  BY FirstUnits
<1> HIDE DEF u
<1> QED BY <1>2, <1>6, <1>7, <1>8, <1>9, <1>10, <1>11 DEF EInv, AllIdle

\* The marker is set for what is there.
LEMMA EEnd ==
    ASSUME TypeOK, DInv, EInv, overruns = 0, NEW w \in Workers, at[w] # "idle", End(w)
    PROVE  EInv'
<1> DEFINE c == ckpt
           s == job[w]
           d == [c EXCEPT !.marks = @ \cup {s}]
<1>0. /\ c \in Documents /\ Consistent(c) /\ s \in Stages /\ Within(c, s, "end")
      /\ build # "failed" /\ (board # "none" => Shipped(c) /\ s \in Last)
      /\ crashes = 0 => Healthy(c, s, "end")
  BY AtWork DEF End
<1>1. ckpt' = d /\ UNCHANGED <<board, overruns, crashes>>
  BY DEF End
<1>b. c \in Documents
  BY <1>0
<1>2. d.marks = c.marks \cup {s} /\ \A k \in Fields \ {"marks"} : d[k] = c[k]
  BY <1>b DEF Documents, Fields
<1> HIDE DEF d
<1>3. AllIdle'
  BY AtWork DEF DInv, Fits, AllIdle, End, Go
<1>4. DoneIn(d, s) \/ (s = "novelty" /\ d.final = "")
  <2>1. s # "novelty" => Product(c, s)
    BY <1>0 DEF Within
  <2>2. s # "novelty" => Product(d, s)
    BY <1>0, <1>2, <2>1 DEF Product, Stages, Fields
  <2>3. s = "novelty" => (Product(d, s) <=> d.final # "")
    BY DEF Product
  <2>4. s \in d.marks
    BY <1>2
  <2> QED BY <1>0, <2>2, <2>3, <2>4, Done
<1>5. Consistent(d)
  BY <1>0, <1>2 DEF Consistent, HasWinner, Within, Behind, Product, Fields
<1>6. board # "none" => Shipped(d)
  BY <1>0, <1>2 DEF Shipped, DoneIn, Stages, Fields
<1>7. crashes = 0 => DoneIn(d, s) /\ Sane(d) /\ (d.validated => AllPass(d))
  BY <1>0, <1>2, <1>4 DEF Healthy, Sane, AllPass, Fields
<1>8. build' = "failed" => ~DoneIn(d, s)
  BY <1>0, <1>1 DEF End
<1>9. board # "none" => build' # "failed"
  BY <1>0, <1>4, <1>8 DEF Last
<1> QED BY <1>1, <1>3, <1>5, <1>6, <1>7, <1>8, <1>9 DEF EInv, AllIdle

\* What fails is the repair, a package without verdict, or an odd score.
LEMMA ERaise ==
    ASSUME TypeOK, DInv, EInv, overruns = 0, NEW w \in Workers, at[w] # "idle", Raise(w)
    PROVE  EInv'
<1> DEFINE c == ckpt
           s == job[w]
<1>0. /\ Consistent(c) /\ s \in Stages /\ Within(c, s, "raise")
      /\ build # "failed" /\ (board # "none" => Shipped(c) /\ s \in Last)
      /\ crashes = 0 => Healthy(c, s, "raise")
  BY AtWork DEF Raise
<1>1. UNCHANGED <<ckpt, board, overruns, crashes>> /\ build' = "failed"
  BY DEF Raise
<1>2. AllIdle'
  BY AtWork DEF DInv, Fits, AllIdle, Raise, Go
<1>3. board # "none" => c.scores = "odd"
  BY <1>0 DEF Within, Last
<1>4. crashes = 0 /\ c.scores # "odd" => "repair" \notin c.marks
  BY <1>0 DEF Within, Behind, Healthy, Sane
<1> QED BY <1>0, <1>1, <1>2, <1>3, <1>4 DEF EInv, AllIdle

LEMMA EInvStep == TypeOK /\ DInv /\ EInv /\ [Next]_vars => EInv'
<1> SUFFICES ASSUME TypeOK, DInv, EInv, [Next]_vars, overruns' = 0 PROVE EInv'
  BY DEF EInv
<1>1. overruns = 0
  <2>1. ASSUME NEW w \in Workers, Begin(w) \/ Work(w) \/ Crash(w) PROVE overruns' = overruns
    BY <2>1 DEF Begin, Work, Build, Fallbacks, Validate, ScoreBuilders, Review, Rank, Iterate, Check,
                Package, Record, NoteRecorded, Publish, SaveResults, End, Raise, Crash
  <2>2. CASE RateEntry \/ UNCHANGED vars
    BY <2>2 DEF RateEntry, vars
  <2>3. CASE Overrun
    <3>1. overruns \in Nat /\ overruns' = overruns + 1
      BY <2>3 DEF Overrun, TypeOK
    <3> QED BY <3>1
  <2> QED BY <2>1, <2>2, <2>3 DEF Next
<1>2. ASSUME NEW w \in Workers, Work(w) PROVE EInv'
  <2>1. at[w] # "idle"
    BY <1>2 DEF Work, Build, Fallbacks, Validate, ScoreBuilders, Review, Rank, Iterate, Check,
                Package, Record, NoteRecorded, Publish, SaveResults, End, Raise
  <2> QED BY <1>1, <1>2, <2>1, EWork, EEnd, ERaise
<1>3. ASSUME NEW w \in Workers, Crash(w) PROVE EInv'
  <2>1. AllIdle' /\ crashes' # 0 /\ UNCHANGED <<ckpt, build, board>>
    BY <1>1, <1>3 DEF Crash, Go, DInv, Fits, AllIdle, TypeOK
  <2> QED BY <1>1, <2>1 DEF EInv, AllIdle
<1>4. CASE RateEntry \/ UNCHANGED vars
  BY <1>1, <1>4 DEF RateEntry, vars, EInv, AllIdle
<1>5. ~Overrun
  BY <1>1 DEF Overrun
<1> QED BY <1>1, <1>2, <1>3, <1>4, <1>5, EBegin DEF Next

LEMMA InitEInv == Init => EInv
<1> SUFFICES ASSUME Init PROVE EInv
  OBVIOUS
<1>1. <<>> \in Seq(Named)
  OBVIOUS
<1> QED BY <1>1 DEF Init, Empty, EInv, Consistent, AllIdle, Sane, AllPass

\* Reviews and winner are about the attempts beside them, in the stored
\* checkpoint and in the copy of whoever works, unless a worker outlived its
\* lease: behind the marker of the repair loop nothing writes attempts.
THEOREM ReviewsStay == Spec => []ReviewsFit
<1>1. Init => TypeOK /\ DInv /\ EInv
  BY InitTypes, InitDInv, InitEInv
<1>2. DInv /\ EInv => ReviewsFit
  BY DEF DInv, Fits, EInv, Consistent, ReviewsFit
<1> QED BY <1>1, <1>2, TypeStep, DInvStep, EInvStep, PTL DEF Spec

\* Once attempts have passed the gate the build does not fail for its code,
\* unless a worker died or outlived its lease: the winner passes, and takes
\* the place of an iteration that does not.
THEOREM LateSuccess == Spec => []NoLateFailure
<1>1. Init => TypeOK /\ DInv /\ EInv
  BY InitTypes, InitDInv, InitEInv
<1>2. EInv => NoLateFailure
  BY DEF EInv, NoLateFailure
<1> QED BY <1>1, <1>2, TypeStep, DInvStep, EInvStep, PTL DEF Spec

\* What is on the leaderboard is no failed build but for an odd score, with
\* any number of deaths, unless a worker outlived its lease.
THEOREM RecordedBuilds == Spec => []RecordedSucceeds
<1>1. Init => TypeOK /\ DInv /\ EInv
  BY InitTypes, InitDInv, InitEInv
<1>2. EInv => RecordedSucceeds
  BY DEF EInv, RecordedSucceeds
<1> QED BY <1>1, <1>2, TypeStep, DInvStep, EInvStep, PTL DEF Spec
=============================================================================
