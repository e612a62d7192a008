-------------------------- MODULE LLMClientProofs --------------------------
(* The stored keys, for any number of calls, keys, saves and deaths: while *)
(* the file is used by one process at a time, no key a user saved is lost; *)
(* the end of a call that has no stored key; the slots of a semaphore; and *)
(* the search for a key that does not cool.                                *)
EXTENDS LLMClient, FiniteSetTheorems, TLAPS

Fields == {"pc", "provider", "second", "patient", "why", "key", "seen", "tries", "retries",
           "fallback", "refused"}
IsCall(r) == DOMAIN r = Fields

\* A user of the file has read what is in it; nobody else uses it.
Owns(c) ==
    /\ call[c].seen = file /\ editor.pc \notin OnFile
    /\ \A d \in Calls : call[d].pc \in OnFile => d = c
    /\ file[BucketOf(file, call[c].provider)] # <<>>

KInv ==
    /\ DOMAIN call = Calls /\ \A c \in Calls : IsCall(call[c])
    /\ DOMAIN editor = {"pc", "bucket", "seen"} /\ editor.bucket \in Buckets
    /\ ~clash =>
         /\ file \in [Buckets -> Seq(Keys)] /\ DOMAIN wanted = Buckets
         /\ \A b \in Buckets : Range(file[b]) = wanted[b]
         /\ torn => FileInUse
         /\ \A c \in Calls : call[c].pc \in OnFile => Owns(c)
         /\ editor.pc \in OnFile => editor.seen = file

\* Rotation keeps the keys.
LEMMA RotationKeeps ==
    ASSUME NEW s \in Seq(Keys), s # <<>>
    PROVE  /\ Append(Tail(s), Head(s)) \in Seq(Keys)
           /\ Range(Append(Tail(s), Head(s))) = Range(s)
<1> DEFINE t == Append(Tail(s), Head(s))
<1>1. PICK n \in Nat \ {0} : n = Len(s) /\ DOMAIN s = 1..n
  OBVIOUS
<1>2. t \in Seq(Keys) /\ DOMAIN t = 1..n
  BY <1>1
<1>3. t[n] = s[1] /\ \A i \in 1..n - 1 : t[i] = s[i + 1]
  BY <1>1
<1> HIDE DEF t
<1>4. ASSUME NEW i \in 1..n, i # n PROVE i \in 1..n - 1 /\ i + 1 \in 1..n
  BY <1>4
<1>5. ASSUME NEW i \in 1..n, i # 1 PROVE i - 1 \in 1..n - 1 /\ i - 1 \in 1..n /\ (i - 1) + 1 = i
  BY <1>5
<1>6. \A i \in 1..n : \E k \in 1..n : s[k] = t[i]
  BY <1>3, <1>4
<1>7. ASSUME NEW i \in 1..n PROVE \E k \in 1..n : t[k] = s[i]
  <2>1. CASE i = 1
    BY <1>3, <2>1
  <2>2. CASE i # 1
    <3>1. t[i - 1] = s[(i - 1) + 1]
      BY <1>3, <1>5, <2>2
    <3> QED BY <1>5, <2>2, <3>1
  <2> QED BY <2>1, <2>2
<1>8. Range(t) = Range(s)
  <2>1. \A x : x \in Range(t) <=> \E i \in 1..n : x = t[i]
    BY <1>2 DEF Range
  <2>2. \A x : x \in Range(s) <=> \E i \in 1..n : x = s[i]
    BY <1>1 DEF Range
  <2>3. \A x : x \in Range(t) <=> x \in Range(s)
    BY <1>6, <1>7, <2>1, <2>2
  <2> QED BY <2>3
<1> QED BY <1>2, <1>8 DEF t

\* A call becomes a record that does not use the file.
Leaves(c) == \E q : call' = [call EXCEPT ![c] = q] /\ IsCall(q) /\ q.pc \notin OnFile

LEMMA ReturnLeaves ==
    ASSUME NEW c, NEW r, NEW ok, Return(c, r, ok)
    PROVE  Leaves(c)
<1> DEFINE q == [Fresh EXCEPT !.pc = "wait", !.provider = "openrouter", !.patient = r.patient]
           o == [Fresh EXCEPT !.pc = "done"]
<1>1. IsCall(q) /\ q.pc \notin OnFile /\ IsCall(o) /\ o.pc \notin OnFile
  BY DEF Fresh, IsCall, Fields, OnFile
<1>2. call' = [call EXCEPT ![c] = q] \/ call' = [call EXCEPT ![c] = o]
  BY DEF Return, Becomes, Over
<1> QED BY <1>1, <1>2 DEF Leaves

LEMMA AskLeaves ==
    ASSUME NEW c, NEW r, IsCall(r), Ask(c, r)
    PROVE  Leaves(c)
<1> DEFINE q == [r EXCEPT !.pc = "request", !.seen = Defaults, !.tries = 0]
<1>1. IsCall(q) /\ q.pc \notin OnFile
  BY DEF IsCall, Fields, OnFile
<1>2. call' = [call EXCEPT ![c] = q]
  BY DEF Ask, Becomes
<1> QED BY <1>1, <1>2 DEF Leaves

LEMMA AgainLeaves ==
    ASSUME NEW c, NEW r, IsCall(r), Again(c, r)
    PROVE  Leaves(c)
<1> DEFINE q == [r EXCEPT !.retries = IF @ < RetryCount THEN @ + 1 ELSE @]
<1>1. IsCall(q) /\ Ask(c, q)
  BY DEF IsCall, Again
<1> QED BY <1>1, AskLeaves

LEMMA ChooseLeaves ==
    ASSUME NEW c, NEW r, IsCall(r), NEW k, Choose(c, r, k)
    PROVE  Leaves(c)
<1>1. \A x : IsCall([r EXCEPT !.key = x]) /\ IsCall([r EXCEPT !.fallback = x])
  BY DEF IsCall
<1>2. \/ Return(c, r, FALSE) \/ Again(c, r)
      \/ \E x : Ask(c, [r EXCEPT !.key = x]) \/ Again(c, [r EXCEPT !.key = x])
      \/ Again(c, [r EXCEPT !.fallback = FALSE])
  BY DEF Choose
<1> QED BY <1>1, <1>2, ReturnLeaves, AskLeaves, AgainLeaves

\* A step of a call that does not use the file before or after it.
LEMMA Elsewhere ==
    ASSUME KInv, NEW c \in Calls, call[c].pc \notin OnFile, Leaves(c),
           UNCHANGED <<file, torn, editor, wanted>>, clash => clash'
    PROVE  KInv'
<1> USE DEF KInv
<1>1. ASSUME NEW d \in Calls
      PROVE  IsCall(call[d])' /\ (call'[d].pc \in OnFile => d # c /\ call'[d] = call[d])
  BY DEF Leaves
<1>2. DOMAIN call' = Calls /\ \A d \in Calls : d # c => call'[d] = call[d]
  BY DEF Leaves
<1>3. FileInUse => FileInUse'
  BY <1>2 DEF FileInUse, Users
<1>4. ASSUME ~clash', NEW d \in Calls, call'[d].pc \in OnFile PROVE Owns(d)'
  <2>1. ~clash /\ d # c /\ call'[d] = call[d] /\ Owns(d)
    BY <1>1, <1>4
  <2> QED BY <1>1, <2>1 DEF Owns
<1> QED BY <1>1, <1>2, <1>3, <1>4

LEMMA KInvStep == KInv /\ [Next]_vars => KInv'
<1> SUFFICES ASSUME KInv, [Next]_vars PROVE KInv'
  OBVIOUS
<1> USE DEF Becomes
<1>1. ASSUME NEW c \in Calls, Start(c) \/ Enter(c) \/ Answer(c) \/ Limited(c) \/ Missing(c) PROVE KInv'
  <2>1. IsCall(call[c])
    BY DEF KInv
  <2>2. call[c].pc \notin OnFile /\ UNCHANGED <<file, torn, editor, wanted, clash>>
    BY <1>1 DEF Start, Enter, Answer, Limited, Missing, OnFile
  <2>3. CASE Start(c)
    <3>1. PICK provider, second, patient :
              Becomes(c, [call[c] EXCEPT !.pc = "wait", !.provider = provider,
                                         !.second = second, !.patient = patient])
      BY <2>3 DEF Start
    <3> DEFINE q == [call[c] EXCEPT !.pc = "wait", !.provider = provider,
                                    !.second = second, !.patient = patient]
    <3>2. IsCall(q) /\ q.pc \notin OnFile
      BY <2>1 DEF IsCall, Fields, OnFile
    <3> HIDE DEF q
    <3>3. call' = [call EXCEPT ![c] = q]
      BY <3>1 DEF q
    <3> QED BY <2>2, <3>2, <3>3, Elsewhere DEF Leaves
  <2>4. CASE Enter(c)
    <3>1. PICK fallback : Becomes(c, [call[c] EXCEPT !.pc = "read", !.fallback = fallback])
      BY <2>4 DEF Enter
    <3> DEFINE q == [call[c] EXCEPT !.pc = "read", !.fallback = fallback]
    <3>2. IsCall(q) /\ q.pc \notin OnFile
      BY <2>1 DEF IsCall, Fields, OnFile
    <3> HIDE DEF q
    <3>3. call' = [call EXCEPT ![c] = q]
      BY <3>1 DEF q
    <3> QED BY <2>2, <3>2, <3>3, Elsewhere DEF Leaves
  <2>5. CASE Answer(c) \/ Limited(c) \/ Missing(c)
    <3>1. (\E ok : Return(c, call[c], ok))
          \/ \E why : Becomes(c, [Refused(c) EXCEPT !.pc = "read", !.why = why])
      BY <2>5 DEF Answer, Limited, Missing
    <3>2. IsCall(Refused(c))
      BY <2>1 DEF IsCall, Refused
    <3>3. ASSUME NEW why PROVE LET q == [Refused(c) EXCEPT !.pc = "read", !.why = why]
                               IN IsCall(q) /\ q.pc \notin OnFile
      BY <3>2 DEF IsCall, Fields, OnFile
    <3>4. Leaves(c)
      BY <3>1, <3>3, ReturnLeaves DEF Leaves
    <3> QED BY <2>2, <3>4, Elsewhere
  <2> QED BY <1>1, <2>3, <2>4, <2>5
<1>2. ASSUME NEW c \in Calls, Read(c) PROVE KInv'
  <2> DEFINE b == BucketOf(Stored, call[c].provider)
  <2>1. CASE Stored[b] = <<>>
    <3>1. Leaves(c)
      BY <1>2, <2>1, ChooseLeaves DEF Read, KInv
    <3>2. call[c].pc \notin OnFile /\ UNCHANGED <<file, torn, editor, wanted>> /\ (clash => clash')
      BY <1>2 DEF Read, OnFile
    <3> QED BY <3>1, <3>2, Elsewhere
  <2>2. CASE Stored[b] # <<>>
    <3>1. call' = [call EXCEPT ![c] = [call[c] EXCEPT !.pc = "truncate", !.seen = Stored]]
      BY <1>2, <2>2 DEF Read
    <3>2. IsCall(call[c])
      BY DEF KInv
    <3>3. /\ IsCall(call'[c]) /\ call'[c].pc = "truncate" /\ call'[c].seen = Stored
          /\ call'[c].provider = call[c].provider
      BY <3>1, <3>2 DEF KInv, IsCall, Fields
    <3>4. \A d \in Calls : d # c => call'[d] = call[d]
      BY <3>1 DEF KInv
    <3>5. ASSUME ~clash' PROVE ~clash /\ ~FileInUse /\ ~torn /\ Stored = file
      BY <1>2, <3>5 DEF Read, KInv, Stored
    <3>6. ~clash' => \A d \in Calls : call'[d].pc \in OnFile => d = c
      BY <3>4, <3>5 DEF FileInUse, Users
    <3>7. ~clash' => Owns(c)'
      BY <1>2, <2>2, <3>3, <3>5, <3>6 DEF Read, Owns, FileInUse
    <3> QED BY <1>2, <3>1, <3>3, <3>4, <3>5, <3>6, <3>7 DEF Read, KInv, FileInUse
  <2> QED BY <2>1, <2>2
<1>3. ASSUME NEW c \in Calls, Truncate(c) PROVE KInv'
  <2>1. /\ call' = [call EXCEPT ![c] = [call[c] EXCEPT !.pc = "fill"]]
        /\ UNCHANGED <<file, editor, wanted, clash>> /\ call[c].pc = "truncate"
    BY <1>3 DEF Truncate
  <2>2. IsCall(call[c])
    BY DEF KInv
  <2>3. /\ IsCall(call'[c]) /\ call'[c].pc = "fill" /\ call'[c].seen = call[c].seen
        /\ call'[c].provider = call[c].provider
    BY <2>1, <2>2 DEF KInv, IsCall, Fields
  <2>4. \A d \in Calls : d # c => call'[d] = call[d]
    BY <2>1 DEF KInv
  <2>5. c \in Users'
    BY <2>3 DEF Users, OnFile
  <2>6. ~clash => \A d \in Calls : call'[d].pc \in OnFile => Owns(d)'
    BY <2>1, <2>3, <2>4 DEF KInv, Owns, OnFile
  <2> QED BY <2>1, <2>3, <2>4, <2>5, <2>6 DEF KInv, FileInUse
<1>4. ASSUME NEW c \in Calls, Fill(c) PROVE KInv'
  <2> DEFINE r == call[c]
             b == BucketOf(r.seen, r.provider)
  <2>1. /\ file' = Rotated(r.seen, b) /\ torn' = FALSE /\ UNCHANGED <<editor, wanted, clash>>
        /\ r.pc = "fill"
    BY <1>4 DEF Fill
  <2>2. Leaves(c)
    <3>1. IsCall(r)
      BY DEF KInv
    <3> DEFINE q == [r EXCEPT !.pc = "read", !.seen = Defaults, !.tries = @ + 1]
    <3>3. IsCall(q) /\ q.pc \notin OnFile
      BY <3>1 DEF IsCall, Fields, OnFile
    <3>4. call' = [call EXCEPT ![c] = q] \/ \E k : Choose(c, r, k)
      BY <1>4 DEF Fill
    <3> HIDE DEF q
    <3> QED BY <3>1, <3>3, <3>4, ChooseLeaves DEF Leaves
  <2>3. \A d \in Calls : IsCall(call'[d]) /\ (d # c => call'[d] = call[d])
    BY <2>2 DEF KInv, Leaves
  <2>4. call'[c].pc \notin OnFile
    BY <2>2 DEF KInv, Leaves
  <2>5. ASSUME ~clash
        PROVE  /\ \A d \in Calls : call'[d].pc \notin OnFile
               /\ editor.pc \notin OnFile
               /\ file' \in [Buckets -> Seq(Keys)]
               /\ \A e \in Buckets : Range(file'[e]) = Range(file[e])
    <3>1. Owns(c)
      BY <2>1, <2>5 DEF KInv, OnFile
    <3>2. file \in [Buckets -> Seq(Keys)] /\ file[b] # <<>>
      BY <2>5, <3>1 DEF KInv, Owns
    <3>3. file' = [file EXCEPT ![b] = Append(Tail(file[b]), Head(file[b]))]
      BY <2>1, <3>1 DEF Owns, Rotated
    <3>4. b \in Buckets => /\ Append(Tail(file[b]), Head(file[b])) \in Seq(Keys)
                           /\ Range(Append(Tail(file[b]), Head(file[b]))) = Range(file[b])
      BY <3>2, RotationKeeps
    <3> HIDE DEF b
    <3>5. file' \in [Buckets -> Seq(Keys)] /\ \A e \in Buckets : Range(file'[e]) = Range(file[e])
      BY <3>2, <3>3, <3>4
    <3> QED BY <2>3, <2>4, <3>1, <3>5 DEF Owns
  <2> QED BY <2>1, <2>2, <2>3, <2>5 DEF KInv, Leaves, FileInUse, Users
<1>5. ASSUME NEW p \in Processes, Die(p) PROVE KInv'
  <2>1. /\ DOMAIN call' = Calls /\ UNCHANGED <<file, torn, editor, wanted>>
        /\ \A c \in Calls : IsCall(call'[c]) /\ (call'[c].pc = "dead" \/ call'[c] = call[c])
    BY <1>5 DEF Die, Over, Fresh, KInv, IsCall, Fields
  <2>2. ASSUME ~clash' PROVE ~clash /\ \A c \in Users : call'[c] = call[c]
    BY <1>5, <2>2 DEF Die, Users, KInv
  <2>3. ~clash' /\ FileInUse => FileInUse'
    BY <2>1, <2>2 DEF FileInUse, Users
  <2> QED BY <2>1, <2>2, <2>3 DEF KInv, Owns, OnFile
<1>6. ASSUME NEW p \in Processes, CoolDown(p) PROVE KInv'
  BY <1>6 DEF CoolDown, KInv, Owns, FileInUse, Users
<1>7. CASE SaveRead
  <2>1. ASSUME ~clash' PROVE ~clash /\ ~FileInUse /\ ~torn /\ Stored = file
    BY <1>7, <2>1 DEF SaveRead, KInv, Stored
  <2>2. /\ UNCHANGED <<file, torn, call, wanted>>
        /\ \E b \in Buckets : editor' = [pc |-> "truncate", bucket |-> b, seen |-> Stored]
    BY <1>7 DEF SaveRead
  <2> QED BY <2>1, <2>2 DEF KInv, Owns, FileInUse, Users
<1>8. CASE SaveTruncate
  <2>1. /\ UNCHANGED <<file, call, wanted, clash>> /\ editor.pc = "truncate"
        /\ editor' = [editor EXCEPT !.pc = "fill"]
    BY <1>8 DEF SaveTruncate
  <2>2. DOMAIN editor' = DOMAIN editor /\ editor'.pc = "fill" /\ editor'.bucket = editor.bucket
        /\ editor'.seen = editor.seen
    BY <2>1 DEF KInv
  <2> QED BY <2>1, <2>2 DEF KInv, Owns, FileInUse, Users, OnFile
<1>9. CASE SaveFill
  <2>1. /\ file' = [editor.seen EXCEPT ![editor.bucket] = <<SavedKey>>]
        /\ wanted' = [wanted EXCEPT ![editor.bucket] = {SavedKey}]
        /\ torn' = FALSE /\ editor' = Idle /\ UNCHANGED <<call, clash>> /\ editor.pc = "fill"
    BY <1>9 DEF SaveFill
  <2>2. editor'.pc = "idle" /\ editor'.bucket \in Buckets /\ DOMAIN editor' = {"pc", "bucket", "seen"}
    BY <2>1 DEF Idle, Buckets
  <2>3. <<SavedKey>> \in Seq(Keys) /\ Range(<<SavedKey>>) = {SavedKey}
    BY KeysAssumption DEF Range
  <2>4. ASSUME ~clash
        PROVE  /\ file' \in [Buckets -> Seq(Keys)] /\ DOMAIN wanted' = Buckets
               /\ \A b \in Buckets : Range(file'[b]) = wanted'[b]
               /\ \A c \in Calls : call[c].pc \notin OnFile
    BY <2>1, <2>3, <2>4 DEF KInv, Owns, OnFile
  <2> QED BY <2>1, <2>2, <2>4 DEF KInv, OnFile
<1>10. CASE UNCHANGED vars
  BY <1>10 DEF vars, KInv, Owns, FileInUse, Users
<1> QED BY <1>1, <1>2, <1>3, <1>4, <1>5, <1>6, <1>7, <1>8, <1>9, <1>10 DEF Next, OnItsOwn

LEMMA SomeOrderStored == SomeOrder \in Seq(Keys)
<1>1. PICK n \in Nat : ExistsBijection(1..n, Keys)
  BY KeysAssumption, FS_NatBijection
<1>2. Cardinality(Keys) = n
  BY <1>1, FS_CountingElements
<1>3. \E f \in [1..n -> Keys] : IsInjective(f)
  BY <1>1 DEF ExistsBijection, Bijection, Injection
<1>4. SomeOrder \in [1..n -> Keys]
  BY <1>2, <1>3 DEF SomeOrder
<1> QED BY <1>4

LEMMA InitKInv == Init => KInv
<1> SUFFICES ASSUME Init PROVE KInv
  OBVIOUS
<1>1. PICK b \in Buckets, s \in {<<>>, SomeOrder} : file = [Defaults EXCEPT ![b] = s]
  BY DEF Init
<1>2. SomeOrder \in Seq(Keys)
  BY SomeOrderStored
<1>3. file \in [Buckets -> Seq(Keys)]
  <2>1. <<>> \in Seq(Keys)
    OBVIOUS
  <2>2. s \in Seq(Keys)
    BY <1>2, <2>1
  <2> QED BY <1>1, <2>1, <2>2 DEF Defaults
<1> QED BY <1>3 DEF Init, KInv, Idle, Buckets, IsCall, Fields, Fresh, FileInUse, Users, OnFile

\* Every key a user saved stays stored, for any number of calls, as long as
\* no two processes use the file at once and none dies over it.
THEOREM KeysStay == Spec => []KeysKept
<1>1. Init => KInv
  BY InitKInv
<1>2. KInv => KeysKept
  BY DEF KInv, KeysKept
<1> QED BY <1>1, <1>2, KInvStep, PTL DEF Spec
-----------------------------------------------------------------------------
(* With no key but the one of the environment.                             *)

\* What a call has gone through fits its retries; the other model is tried
\* while none is used up, so that it takes none beyond RetryCount.
Counted(r) ==
    /\ IsCall(r) /\ r.retries \in 0..RetryCount /\ r.refused \in Nat /\ r.pc \notin OnFile
    /\ r.provider \in {"nvidia", "openrouter"}
    /\ r.provider = "openrouter" /\ r.fallback => r.retries = 0
    /\ r.pc \in {"idle", "wait"} => r.retries = 0 /\ r.refused = 0 /\ r.why = "first"
    /\ r.pc = "read" =>
         IF r.why = "first" THEN r.retries = 0 /\ r.refused = 0
         ELSE r.refused <= r.retries + 1 /\ r.key = EnvKey
    /\ r.pc = "request" => r.refused <= r.retries /\ r.key = EnvKey

NoKeys == saves = 0 /\ \A b \in Buckets : wanted[b] = {}

GInv ==
    /\ saves \in Nat
    /\ saves = 0 => editor.pc = "idle"
    /\ NoKeys => file = Defaults /\ \A c \in Calls : Counted(call[c])

LEMMA FreshCounted ==
    ASSUME NEW x
    PROVE  /\ Counted(Fresh) /\ Counted(Over("done")) /\ Counted(Over("dead"))
           /\ Counted([Fresh EXCEPT !.pc = "wait", !.provider = "openrouter", !.patient = x])
  BY BoundsAssumption DEF Counted, Fresh, Over, IsCall, Fields, OnFile

LEMMA StartCounted ==
    ASSUME NEW r, Counted(r), r.pc = "idle", NEW x \in {"nvidia", "openrouter"}, NEW y, NEW z
    PROVE  Counted([r EXCEPT !.pc = "wait", !.provider = x, !.second = y, !.patient = z])
  BY DEF Counted, IsCall, Fields, OnFile

LEMMA EnterCounted ==
    ASSUME NEW r, Counted(r), r.pc = "wait", NEW x
    PROVE  Counted([r EXCEPT !.pc = "read", !.fallback = x])
  BY DEF Counted, IsCall, Fields, OnFile

\* A refusal.
LEMMA RefusalCounted ==
    ASSUME NEW r, Counted(r), r.pc = "request", NEW why \in {"limited", "missing"}
    PROVE  LET q == [r EXCEPT !.refused = IF @ <= RetryCount THEN @ + 1 ELSE @]
           IN Counted([q EXCEPT !.pc = "read", !.why = why])
<1> DEFINE q == [r EXCEPT !.refused = IF @ <= RetryCount THEN @ + 1 ELSE @]
           p == [q EXCEPT !.pc = "read", !.why = why]
<1>1. r.refused \in Nat /\ r.refused <= RetryCount /\ r.retries \in 0..RetryCount
  BY BoundsAssumption DEF Counted
<1>2. IsCall(q) /\ q.refused = r.refused + 1 /\ q.retries = r.retries /\ q.key = r.key
      /\ q.provider = r.provider /\ q.fallback = r.fallback
  BY <1>1 DEF Counted, IsCall, Fields
<1> HIDE DEF q
<1>3. IsCall(p) /\ p.pc = "read" /\ p.why = why /\ p.refused = r.refused + 1 /\ p.retries = r.retries
      /\ p.key = r.key /\ p.provider = r.provider /\ p.fallback = r.fallback
  BY <1>2 DEF IsCall, Fields
<1> HIDE DEF p
<1>4. Counted(p)
  BY <1>1, <1>3 DEF Counted, OnFile
<1> QED BY <1>4 DEF p, q

\* The first request, and one more.
LEMMA AskCounted ==
    ASSUME NEW r, Counted(r), r.pc = "read", r.why = "first"
    PROVE  Counted([[r EXCEPT !.key = EnvKey] EXCEPT !.pc = "request", !.seen = Defaults, !.tries = 0])
<1> DEFINE q == [r EXCEPT !.key = EnvKey]
           p == [q EXCEPT !.pc = "request", !.seen = Defaults, !.tries = 0]
<1>1. IsCall(q) /\ q.key = EnvKey /\ q.retries = r.retries /\ q.refused = r.refused
      /\ q.provider = r.provider /\ q.fallback = r.fallback
  BY DEF Counted, IsCall, Fields
<1> HIDE DEF q
<1>2. IsCall(p) /\ p.pc = "request" /\ p.key = EnvKey /\ p.retries = r.retries /\ p.refused = r.refused
      /\ p.provider = r.provider /\ p.fallback = r.fallback
  BY <1>1 DEF IsCall, Fields
<1> HIDE DEF p
<1>3. Counted(p)
  BY <1>2 DEF Counted, OnFile
<1> QED BY <1>3 DEF p, q

LEMMA AgainCounted ==
    ASSUME NEW r, IsCall(r), r.retries \in 0..RetryCount, r.retries < RetryCount, r.refused \in Nat,
           r.refused <= r.retries + 1, r.key = EnvKey, ~(r.provider = "openrouter" /\ r.fallback),
           r.provider \in {"nvidia", "openrouter"}
    PROVE  LET q == [r EXCEPT !.retries = IF @ < RetryCount THEN @ + 1 ELSE @]
           IN Counted([q EXCEPT !.pc = "request", !.seen = Defaults, !.tries = 0])
<1> DEFINE q == [r EXCEPT !.retries = IF @ < RetryCount THEN @ + 1 ELSE @]
           p == [q EXCEPT !.pc = "request", !.seen = Defaults, !.tries = 0]
<1>1. IsCall(q) /\ q.key = EnvKey /\ q.retries = r.retries + 1 /\ q.refused = r.refused
      /\ q.provider = r.provider /\ q.fallback = r.fallback
  BY DEF IsCall, Fields
<1> HIDE DEF q
<1>2. IsCall(p) /\ p.pc = "request" /\ p.key = EnvKey /\ p.retries = r.retries + 1
      /\ p.refused = r.refused /\ p.provider = r.provider /\ p.fallback = r.fallback
  BY <1>1 DEF IsCall, Fields
<1> HIDE DEF p
<1>3. Counted(p)
  BY <1>2, BoundsAssumption DEF Counted, OnFile
<1> QED BY <1>3 DEF p, q

\* Without a stored key, a call that reads the file asks with the key of the
\* environment once more or returns.
LEMMA ChooseCounted ==
    ASSUME DOMAIN call = Calls, NEW c \in Calls, Counted(call[c]), call[c].pc = "read",
           Choose(c, call[c], NoKey)
    PROVE  \E q : call' = [call EXCEPT ![c] = q] /\ Counted(q)
<1> DEFINE r == call[c]
<1>0. ASSUME NEW ok, Return(c, r, ok) PROVE \E q : call' = [call EXCEPT ![c] = q] /\ Counted(q)
  BY <1>0, FreshCounted DEF Return, Becomes
<1>1. CASE r.why = "first"
  <2>1. Return(c, r, FALSE) \/ Ask(c, [r EXCEPT !.key = EnvKey])
    BY <1>1 DEF Choose
  <2>2. CASE Ask(c, [r EXCEPT !.key = EnvKey])
    BY <1>1, <2>2, AskCounted DEF Ask, Becomes
  <2> QED BY <1>0, <2>1, <2>2
<1>2. CASE r.why # "first"
  <2>1. /\ IsCall(r) /\ r.retries \in 0..RetryCount /\ r.refused \in Nat
        /\ r.refused <= r.retries + 1 /\ r.key = EnvKey /\ r.provider \in {"nvidia", "openrouter"}
        /\ (r.provider = "openrouter" /\ r.fallback) => r.retries = 0
    BY <1>2 DEF Counted
  <2>2. \/ Return(c, r, FALSE)
        \/ Again(c, r) /\ ~Exhausted(r) /\ ~(r.provider = "openrouter" /\ r.fallback)
        \/ Again(c, [r EXCEPT !.fallback = FALSE]) /\ r.provider = "openrouter" /\ r.fallback
    BY <1>2, <2>1 DEF Choose
  <2>3. CASE Again(c, r) /\ ~Exhausted(r) /\ ~(r.provider = "openrouter" /\ r.fallback)
    <3>1. r.retries < RetryCount
      BY <2>1, <2>3, BoundsAssumption DEF Exhausted
    <3> QED BY <2>1, <2>3, <3>1, AgainCounted DEF Again, Ask, Becomes
  <2>4. CASE Again(c, [r EXCEPT !.fallback = FALSE]) /\ r.provider = "openrouter" /\ r.fallback
    <3> DEFINE q == [r EXCEPT !.fallback = FALSE]
    <3>1. IsCall(q) /\ q.retries = 0 /\ q.refused = r.refused /\ q.key = EnvKey /\ q.fallback = FALSE
          /\ q.provider = "openrouter"
      BY <2>1, <2>4 DEF IsCall, Fields
    <3>2. Again(c, q)
      BY <2>4
    <3> HIDE DEF q
    <3>3. 0 < RetryCount /\ q.retries \in 0..RetryCount
      BY <3>1, BoundsAssumption
    <3> QED BY <2>1, <2>4, <3>1, <3>2, <3>3, AgainCounted DEF Again, Ask, Becomes
  <2> QED BY <1>0, <2>2, <2>3, <2>4
<1> QED BY <1>1, <1>2

LEMMA GInvStep == KInv /\ GInv /\ [Next]_vars => GInv'
<1> SUFFICES ASSUME KInv, GInv, [Next]_vars PROVE GInv'
  OBVIOUS
<1>0. DOMAIN call = Calls
  BY DEF KInv
<1>1. ASSUME NEW c \in Calls, NoKeys,
             Start(c) \/ Enter(c) \/ Read(c) \/ Truncate(c) \/ Fill(c) \/ Answer(c) \/ Limited(c) \/ Missing(c)
      PROVE  file' = file /\ \E q : call' = [call EXCEPT ![c] = q] /\ Counted(q)
  <2>1. Counted(call[c]) /\ file = Defaults
    BY <1>1 DEF GInv
  <2>2. ~Truncate(c) /\ ~Fill(c)
    BY <2>1 DEF Truncate, Fill, Counted, OnFile
  <2>3. ASSUME NEW ok, Return(c, call[c], ok) PROVE \E q : call' = [call EXCEPT ![c] = q] /\ Counted(q)
    BY <2>3, FreshCounted DEF Return, Becomes
  <2>4. CASE Start(c)
    <3>1. PICK x \in {"nvidia", "openrouter"} : \E y, z :
              call' = [call EXCEPT ![c] = [call[c] EXCEPT !.pc = "wait", !.provider = x,
                                                          !.second = y, !.patient = z]]
      BY <2>4 DEF Start, Becomes
    <3>2. PICK y, z :
              call' = [call EXCEPT ![c] = [call[c] EXCEPT !.pc = "wait", !.provider = x,
                                                          !.second = y, !.patient = z]]
      BY <3>1
    <3>3. call[c].pc = "idle" /\ file' = file
      BY <2>4 DEF Start
    <3> QED BY <2>1, <3>2, <3>3, StartCounted
  <2>5. CASE Enter(c)
    BY <2>1, <2>5, EnterCounted DEF Enter, Becomes
  <2>6. CASE Read(c)
    <3>0. Stored = Defaults /\ call[c].provider \in {"nvidia", "openrouter"}
      BY <2>1 DEF Stored, Counted
    <3>1. Stored[BucketOf(Stored, call[c].provider)] = <<>>
      BY <3>0 DEF Defaults, BucketOf, Buckets
    <3>2. Choose(c, call[c], NoKey) /\ call[c].pc = "read" /\ file' = file
      BY <2>6, <3>1 DEF Read
    <3> QED BY <1>0, <2>1, <3>2, ChooseCounted
  <2>7. CASE Answer(c) \/ Limited(c) \/ Missing(c)
    <3>1. file' = file /\ call[c].pc = "request"
      BY <2>7 DEF Answer, Limited, Missing
    <3>2. (\E ok : Return(c, call[c], ok))
          \/ \E why \in {"limited", "missing"} : Becomes(c, [Refused(c) EXCEPT !.pc = "read", !.why = why])
      BY <2>7 DEF Answer, Limited, Missing
    <3> QED BY <2>1, <2>3, <3>1, <3>2, RefusalCounted DEF Refused, Becomes
  <2> QED BY <1>1, <2>2, <2>4, <2>5, <2>6, <2>7
<1>2. CASE \E c \in Calls : Start(c) \/ Enter(c) \/ Read(c) \/ Truncate(c) \/ Fill(c)
                            \/ Answer(c) \/ Limited(c) \/ Missing(c)
  <2>1. UNCHANGED <<editor, wanted, saves>>
    BY <1>2 DEF Start, Enter, Read, Truncate, Fill, Answer, Limited, Missing
  <2> QED BY <1>0, <1>1, <1>2, <2>1 DEF GInv, NoKeys
<1>3. CASE \E p \in Processes : CoolDown(p) \/ Die(p)
  <2>1. /\ UNCHANGED <<file, editor, wanted, saves>>
        /\ \A c \in Calls : call'[c] = call[c] \/ call'[c] = Over("dead")
    BY <1>3 DEF CoolDown, Die
  <2> QED BY <2>1, FreshCounted DEF GInv, NoKeys
<1>4. CASE SaveRead \/ SaveTruncate \/ SaveFill
  <2>1. saves' \in Nat /\ saves' # 0
    BY <1>4 DEF SaveRead, SaveTruncate, SaveFill, GInv
  <2> QED BY <2>1 DEF GInv, NoKeys
<1>5. CASE UNCHANGED vars
  BY <1>5 DEF vars, GInv, NoKeys
<1> QED BY <1>2, <1>3, <1>4, <1>5 DEF Next, OnItsOwn

\* With no stored key, a call that was refused more than RetryCount times asks
\* no more, whichever way its retries went.
THEOREM CallsGiveUp == Spec => []GivesUp
<1>1. Init => KInv /\ GInv
  <2> SUFFICES ASSUME Init PROVE GInv
    BY InitKInv
  <2>1. PICK b \in Buckets, s \in {<<>>, SomeOrder} : file = [Defaults EXCEPT ![b] = s]
    BY DEF Init
  <2>2. wanted[b] = {} => s = <<>>
    <3>1. wanted[b] = Range(s)
      BY <2>1 DEF Init, Defaults
    <3>0. <<>> \in Seq(Keys)
      OBVIOUS
    <3>2. s \in Seq(Keys)
      BY <2>1, <3>0, SomeOrderStored
    <3>3. s # <<>> => s[1] \in Range(s)
      BY <3>2 DEF Range
    <3> QED BY <3>1, <3>3
  <2>3. NoKeys => file = Defaults
    BY <2>1, <2>2 DEF NoKeys, Defaults
  <2> QED BY <2>3, FreshCounted DEF Init, GInv, Idle
<1>2. GInv => GivesUp
  <2> SUFFICES ASSUME GInv, NoKeys, NEW c \in Calls, call[c].pc = "request"
               PROVE  call[c].refused <= RetryCount
    BY DEF GivesUp, NoKeys
  <2>1. call[c].refused \in Nat /\ call[c].retries \in 0..RetryCount /\ call[c].refused <= call[c].retries
    BY DEF GInv, Counted
  <2> QED BY <2>1, BoundsAssumption
<1> QED BY <1>1, <1>2, KInvStep, GInvStep, PTL DEF Spec
-----------------------------------------------------------------------------
(* The values of the variables: a rotation makes lists of stored keys of   *)
(* stored lists, a call that asks has a key, and no semaphore is given     *)
(* more than it had, because whoever gives a slot back holds one.          *)
Holding == {"read", "truncate", "fill", "request"}
Holders(p) == {c \in Calls : Home(c) = p /\ call[c].pc \in Holding}
Slack == \A p \in Processes : free[p] + Cardinality(Holders(p)) <= Slots

\* A call that asks, or asked before, has a key; one that uses the file has
\* read one there.
Sensible(r) ==
    /\ r \in CallRecords
    /\ r.pc = "request" \/ r.why # "first" => r.key # NoKey
    /\ r.pc \in OnFile => r.seen[BucketOf(r.seen, r.provider)] # <<>>
    /\ r.pc \notin Running => r.tries = 0
    /\ r.second => r.provider = "nvidia"

TInv == TypeOK /\ Slack /\ \A c \in Calls : Sensible(call[c])

Lists == UNION {[1..n -> Keys] : n \in 0..Cardinality(Keys)}

LEMMA KeysCount == Cardinality(Keys) \in Nat /\ 1 <= Cardinality(Keys)
<1>1. Cardinality(Keys) \in Nat /\ (Cardinality(Keys) = 0 <=> Keys = {})
  BY KeysAssumption, FS_CardinalityType, FS_EmptySet
<1> QED BY <1>1, KeysAssumption

\* Lists of keys: none, the one that is saved, and what a rotation makes.
LEMMA ListOf ==
    ASSUME NEW n \in Nat, n <= Cardinality(Keys), NEW s \in [1..n -> Keys]
    PROVE  s \in Lists
<1>1. n \in 0..Cardinality(Keys)
  BY KeysCount
<1> QED BY <1>1 DEF Lists

LEMMA ListsHold ==
    /\ <<>> \in Lists /\ <<SavedKey>> \in Lists
    /\ \A s \in Lists : s \in Seq(Keys)
    /\ \A s \in Lists : s # <<>> => Head(s) \in Keys /\ Append(Tail(s), Head(s)) \in Lists
<1>1. <<>> \in Lists
  <2>1. <<>> \in [1..0 -> Keys]
    OBVIOUS
  <2>2. 0 \in Nat /\ 0 <= Cardinality(Keys)
    BY KeysCount
  <2> HIDE DEF Lists
  <2>3. \A n \in Nat : n <= Cardinality(Keys) => \A s \in [1..n -> Keys] : s \in Lists
    BY ListOf
  <2> QED BY <2>1, <2>2, <2>3
<1>2. <<SavedKey>> \in Lists
  <2>1. <<SavedKey>> \in [1..1 -> Keys]
    BY KeysAssumption
  <2> QED BY <2>1, KeysCount, ListOf
<1>3. ASSUME NEW s \in Lists
      PROVE  s \in Seq(Keys) /\ (s # <<>> => Head(s) \in Keys /\ Append(Tail(s), Head(s)) \in Lists)
  <2>1. PICK n \in 0..Cardinality(Keys) : s \in [1..n -> Keys]
    BY DEF Lists
  <2>2. n \in Nat /\ n <= Cardinality(Keys)
    BY <2>1, KeysCount
  <2>3. s \in Seq(Keys) /\ Len(s) = n
    BY <2>1, <2>2
  <2>4. ASSUME s # <<>> PROVE Head(s) \in Keys /\ Append(Tail(s), Head(s)) \in [1..n -> Keys]
    <3>1. Append(Tail(s), Head(s)) \in Seq(Keys) /\ Len(Append(Tail(s), Head(s))) = n /\ Head(s) \in Keys
      BY <2>3, <2>4
    <3> DEFINE t == Append(Tail(s), Head(s))
    <3> HIDE DEF t
    <3>2. t \in Seq(Keys) /\ Len(t) = n
      BY <3>1 DEF t
    <3>3. t \in [1..n -> Keys]
      BY <3>2
    <3> QED BY <3>1, <3>3 DEF t
  <2> QED BY <2>2, <2>3, <2>4, ListOf
<1> QED BY <1>1, <1>2, <1>3

LEMMA ContentsAre == Contents = [Buckets -> Lists] /\ Defaults \in Contents
  BY ListsHold DEF Contents, Lists, Defaults

LEMMA RotatedTyped ==
    ASSUME NEW s \in Contents, NEW b \in Buckets, s[b] # <<>>
    PROVE  Rotated(s, b) \in Contents /\ Head(s[b]) \in Keys
  BY ContentsAre, ListsHold DEF Rotated

LEMMA BucketTyped ==
    ASSUME NEW s, NEW p \in {"nvidia", "openrouter"}
    PROVE  BucketOf(s, p) \in Buckets
  BY DEF BucketOf, Buckets

-----------------------------------------------------------------------------
(* One call of a process becomes another record and takes, keeps or gives  *)
(* back a slot.                                                            *)
LEMMA HoldersFinite ==
    ASSUME NEW p
    PROVE  IsFiniteSet(Holders(p)) /\ Cardinality(Holders(p)) \in Nat
<1>1. Holders(p) \subseteq Calls
  BY DEF Holders
<1> QED BY <1>1, CallsAssumption, FS_Subset, FS_CardinalityType

Takes(c, q) == call[c].pc \notin Holding /\ q.pc \in Holding /\ free[Home(c)] > 0
               /\ free' = [free EXCEPT ![Home(c)] = @ - 1]
Keeps(c, q) == (call[c].pc \in Holding <=> q.pc \in Holding) /\ free' = free
Gives(c, q) == call[c].pc \in Holding /\ q.pc \notin Holding
               /\ free' = [free EXCEPT ![Home(c)] = @ + 1]

LEMMA SlotStep ==
    ASSUME TInv, NEW c \in Calls, NEW q, Sensible(q), call' = [call EXCEPT ![c] = q],
           Takes(c, q) \/ Keeps(c, q) \/ Gives(c, q)
    PROVE  /\ call' \in [Calls -> CallRecords] /\ free' \in [Processes -> 0..Slots] /\ Slack'
           /\ \A d \in Calls : Sensible(call'[d])
<1> DEFINE h == Home(c)
<1>1. h \in Processes
  BY DEF Processes
<1>2. call \in [Calls -> CallRecords] /\ free \in [Processes -> 0..Slots] /\ Slack
      /\ \A d \in Calls : Sensible(call[d])
  BY DEF TInv, TypeOK
<1>3. call' \in [Calls -> CallRecords] /\ call'[c] = q /\ (\A d \in Calls : Sensible(call'[d]))
      /\ \A d \in Calls \ {c} : call'[d] = call[d]
  BY <1>2 DEF Sensible
<1>4. ASSUME NEW p \in Processes, p # h PROVE Holders(p)' = Holders(p)
  BY <1>3, <1>4 DEF Holders
<1>5. /\ q.pc \in Holding => Holders(h)' = Holders(h) \cup {c}
      /\ q.pc \notin Holding => Holders(h)' = Holders(h) \ {c}
      /\ c \in Holders(h) <=> call[c].pc \in Holding
  BY <1>3 DEF Holders
<1>6. IsFiniteSet(Holders(h)) /\ Cardinality(Holders(h)) \in Nat
  BY HoldersFinite
<1>7. /\ Takes(c, q) => Cardinality(Holders(h)') = Cardinality(Holders(h)) + 1
      /\ Keeps(c, q) => Cardinality(Holders(h)') = Cardinality(Holders(h))
      /\ Gives(c, q) => Cardinality(Holders(h)') = Cardinality(Holders(h)) - 1 /\ Cardinality(Holders(h)) # 0
  <2>1. CASE Takes(c, q)
    BY <1>5, <1>6, <2>1, FS_AddElement DEF Takes, Keeps, Gives
  <2>2. CASE Keeps(c, q)
    <3>1. Holders(h)' = Holders(h)
      BY <1>5, <2>2 DEF Keeps
    <3> QED BY <2>2, <3>1 DEF Takes, Keeps, Gives
  <2>3. CASE Gives(c, q)
    BY <1>5, <1>6, <2>3, FS_RemoveElement, FS_EmptySet DEF Takes, Keeps, Gives
  <2> QED BY <2>1, <2>2, <2>3
<1>8. DOMAIN free' = Processes /\ (\A p \in Processes : p # h => free'[p] = free[p])
      /\ (Takes(c, q) => free'[h] = free[h] - 1 /\ free[h] > 0)
      /\ (Keeps(c, q) => free'[h] = free[h]) /\ (Gives(c, q) => free'[h] = free[h] + 1)
      /\ free' = [p \in Processes |-> free'[p]]
  BY <1>1, <1>2 DEF Takes, Keeps, Gives
<1>9. free[h] \in 0..Slots /\ free[h] + Cardinality(Holders(h)) <= Slots /\ Slots \in Nat
  BY <1>1, <1>2, BoundsAssumption DEF Slack
<1> HIDE DEF h
<1>10. free'[h] \in 0..Slots /\ free'[h] + Cardinality(Holders(h)') <= Slots
  <2>1. CASE Takes(c, q)
    <3>1. Cardinality(Holders(h)') = Cardinality(Holders(h)) + 1 /\ free'[h] = free[h] - 1 /\ free[h] > 0
      BY <1>7, <1>8, <2>1
    <3> QED BY <1>6, <1>9, <3>1
  <2>2. CASE Keeps(c, q)
    <3>1. Cardinality(Holders(h)') = Cardinality(Holders(h)) /\ free'[h] = free[h]
      BY <1>7, <1>8, <2>2
    <3> QED BY <1>6, <1>9, <3>1
  <2>3. CASE Gives(c, q)
    <3>1. Cardinality(Holders(h)') = Cardinality(Holders(h)) - 1 /\ free'[h] = free[h] + 1
          /\ Cardinality(Holders(h)) # 0
      BY <1>7, <1>8, <2>3
    <3> QED BY <1>6, <1>9, <3>1
  <2> QED BY <2>1, <2>2, <2>3
<1>11. \A p \in Processes : free'[p] \in 0..Slots /\ free'[p] + Cardinality(Holders(p)') <= Slots
  BY <1>2, <1>4, <1>8, <1>10 DEF Slack
<1> QED BY <1>3, <1>8, <1>11 DEF Slack

\* A call that does not use the keys of OpenRouter, and has not so far.
Far(r) == r.pc \in {"idle", "wait"} \/ (r.pc \in Holding /\ r.provider = "nvidia")

\* A call that holds a slot asks, or gives the slot back; r is what it came to.
Moves(c) == \E q : /\ Sensible(q) /\ call' = [call EXCEPT ![c] = q]
                   /\ Keeps(c, q) \/ Gives(c, q)
                   /\ q.pc \notin Running /\ (Far(q) => Far(call[c]))

CameTo(c, r) ==
    /\ call[c].pc \in Holding /\ Sensible(call[c]) /\ r \in CallRecords
    /\ r.provider = call[c].provider /\ r.second = call[c].second

LEMMA FreshSensible ==
    /\ Sensible(Fresh) /\ Sensible(Over("done")) /\ Sensible(Over("dead"))
    /\ \A x \in BOOLEAN : Sensible([Fresh EXCEPT !.pc = "wait", !.provider = "openrouter", !.patient = x])
<1>1. Fresh \in CallRecords
  BY ContentsAre, BoundsAssumption DEF Fresh, CallRecords
<1>2. Fresh.pc = "idle" /\ Fresh.why = "first" /\ Fresh.tries = 0 /\ ~Fresh.second
  BY DEF Fresh
<1> QED BY <1>1, <1>2 DEF Sensible, Over, CallRecords, OnFile, Running

LEMMA ReturnMoves ==
    ASSUME NEW c \in Calls, NEW r, CameTo(c, r), NEW ok, Return(c, r, ok)
    PROVE  Moves(c)
<1> DEFINE q == [Fresh EXCEPT !.pc = "wait", !.provider = "openrouter", !.patient = r.patient]
           o == Over("done")
<1>0. r.patient \in BOOLEAN
  BY DEF CameTo, CallRecords
<1>1. Sensible(q) /\ Sensible(o) /\ q.pc = "wait" /\ o.pc = "done"
  BY <1>0, FreshSensible DEF Over, Fresh
<1> HIDE DEF q
<1>2. free' = [free EXCEPT ![Home(c)] = @ + 1]
      /\ \/ r.second /\ call' = [call EXCEPT ![c] = q]
         \/ call' = [call EXCEPT ![c] = o]
  BY DEF Return, Becomes, Release, q
<1> HIDE DEF o
<1>3. r.second => Far(call[c])
  BY DEF CameTo, Sensible, Far
<1> QED BY <1>1, <1>2, <1>3 DEF CameTo, Moves, Gives, Holding, Running, Far

LEMMA AskMoves ==
    ASSUME NEW c \in Calls, NEW r, CameTo(c, r), r.key # NoKey, Ask(c, r)
    PROVE  Moves(c)
<1> DEFINE q == [r EXCEPT !.pc = "request", !.seen = Defaults, !.tries = 0]
<1>1. q \in CallRecords /\ q.pc = "request" /\ q.key # NoKey /\ q.tries = 0
      /\ q.provider = r.provider /\ q.second = r.second
  <2>1. 0 \in 0..Tries
    BY BoundsAssumption
  <2> QED BY <2>1, ContentsAre DEF CameTo, CallRecords
<1>2. call' = [call EXCEPT ![c] = q] /\ free' = free
  BY DEF Ask, Becomes
<1> HIDE DEF q
<1>3. Sensible(q)
  BY <1>1 DEF CameTo, Sensible, OnFile
<1>4. Keeps(c, q) /\ q.pc \notin Running /\ (Far(q) => Far(call[c]))
  BY <1>1, <1>2 DEF CameTo, Keeps, Holding, Running, Far
<1> QED BY <1>2, <1>3, <1>4 DEF Moves

LEMMA AgainMoves ==
    ASSUME NEW c \in Calls, NEW r, CameTo(c, r), r.key # NoKey, Again(c, r)
    PROVE  Moves(c)
<1> DEFINE q == [r EXCEPT !.retries = IF @ < RetryCount THEN @ + 1 ELSE @]
<1>1. r.retries \in 0..RetryCount /\ RetryCount \in Nat
  BY BoundsAssumption DEF CameTo, CallRecords
<1>2. (IF r.retries < RetryCount THEN r.retries + 1 ELSE r.retries) \in 0..RetryCount
  BY <1>1
<1>3. CameTo(c, q) /\ q.key = r.key
  BY <1>2 DEF CameTo, CallRecords
<1>4. Ask(c, q)
  BY DEF Again
<1> QED BY <1>3, <1>4, AskMoves

LEMMA ChooseMoves ==
    ASSUME NEW c \in Calls, NEW r, CameTo(c, r), r.why # "first" => r.key # NoKey,
           NEW k \in Keys \cup {NoKey}, Choose(c, r, k)
    PROVE  Moves(c)
<1>1. \A x \in Keys \cup {EnvKey} : CameTo(c, [r EXCEPT !.key = x]) /\ [r EXCEPT !.key = x].key = x
  BY DEF CameTo, CallRecords
<1>2. CameTo(c, [r EXCEPT !.fallback = FALSE]) /\ [r EXCEPT !.fallback = FALSE].key = r.key
  BY DEF CameTo, CallRecords
<1>3. CASE r.why = "first"
  <2>1. Return(c, r, FALSE) \/ \E x \in Keys \cup {EnvKey} : x # NoKey /\ Ask(c, [r EXCEPT !.key = x])
    BY <1>3 DEF Choose
  <2>2. CASE Return(c, r, FALSE)
    <3>1. \E ok : Return(c, r, ok)
      BY <2>2
    <3> QED BY <1>2, <3>1, ReturnMoves
  <2>3. ASSUME NEW x \in Keys \cup {EnvKey}, x # NoKey, Ask(c, [r EXCEPT !.key = x]) PROVE Moves(c)
    <3> DEFINE q == [r EXCEPT !.key = x]
    <3>1. CameTo(c, q) /\ q.key # NoKey /\ Ask(c, q)
      BY <1>1, <2>3
    <3> HIDE DEF q
    <3> QED BY <3>1, AskMoves
  <2> QED BY <2>1, <2>2, <2>3
<1>4. CASE r.why # "first"
  <2>1. \/ Return(c, r, FALSE) \/ Again(c, r) \/ Again(c, [r EXCEPT !.fallback = FALSE])
        \/ \E x \in Keys \cup {EnvKey} : x # NoKey /\ Again(c, [r EXCEPT !.key = x])
    BY <1>4 DEF Choose
  <2>2. CASE Return(c, r, FALSE)
    <3>1. \E ok : Return(c, r, ok)
      BY <2>2
    <3> QED BY <1>2, <3>1, ReturnMoves
  <2>3. CASE Again(c, r)
    BY <1>4, <2>3, AgainMoves
  <2>4. CASE Again(c, [r EXCEPT !.fallback = FALSE])
    <3> DEFINE q == [r EXCEPT !.fallback = FALSE]
    <3>1. CameTo(c, q) /\ q.key # NoKey /\ Again(c, q)
      BY <1>2, <1>4, <2>4
    <3> HIDE DEF q
    <3> QED BY <3>1, AgainMoves
  <2>5. ASSUME NEW x \in Keys \cup {EnvKey}, x # NoKey, Again(c, [r EXCEPT !.key = x]) PROVE Moves(c)
    <3> DEFINE q == [r EXCEPT !.key = x]
    <3>1. CameTo(c, q) /\ q.key # NoKey /\ Again(c, q)
      BY <1>1, <2>5
    <3> HIDE DEF q
    <3> QED BY <3>1, AgainMoves
  <2> QED BY <2>1, <2>2, <2>3, <2>4, <2>5
<1> QED BY <1>3, <1>4

-----------------------------------------------------------------------------
\* What a call takes from the file, and the key it passes over.
Found(r) == Head(r.seen[BucketOf(r.seen, r.provider)])
Same(c, q) == q.tries = call[c].tries /\ q.provider = call[c].provider

\* A call that searches goes on, has passed over one more key, or begins.
Trail(c, q) ==
    \/ q.tries = 0
    \/ (Read(c) \/ Truncate(c)) /\ Same(c, q)
    \/ /\ Fill(c) /\ PassedOver(call[c], Home(c), Found(call[c]))
       /\ q.tries = call[c].tries + 1 /\ q.provider = call[c].provider

Step(c, q) ==
    /\ Sensible(q) /\ call' = [call EXCEPT ![c] = q]
    /\ Takes(c, q) \/ Keeps(c, q) \/ Gives(c, q)
    /\ Far(q) => Far(call[c])
    /\ q.pc \in Running => Trail(c, q)

\* Each step of a call.
LEMMA CallStep ==
    ASSUME TInv, NEW c \in Calls,
           Start(c) \/ Enter(c) \/ Read(c) \/ Truncate(c) \/ Fill(c)
           \/ Answer(c) \/ Limited(c) \/ Missing(c)
    PROVE  \E q : Step(c, q)
<1> DEFINE r == call[c]
<1>0. r \in CallRecords /\ Sensible(r)
  BY DEF TInv, TypeOK
<1>m. Moves(c) => \E q : Step(c, q)
  BY DEF Moves, Step
<1>h. r.pc \in Holding => CameTo(c, r)
  BY <1>0 DEF CameTo
<1>1. CASE Start(c)
  <2>1. PICK x \in {"nvidia", "openrouter"}, y \in BOOLEAN, z \in BOOLEAN :
            /\ y => x = "nvidia"
            /\ call' = [call EXCEPT ![c] = [r EXCEPT !.pc = "wait", !.provider = x, !.second = y, !.patient = z]]
    BY <1>1 DEF Start, Becomes
  <2> DEFINE q == [r EXCEPT !.pc = "wait", !.provider = x, !.second = y, !.patient = z]
  <2>2. q \in CallRecords /\ q.pc = "wait" /\ q.why = r.why /\ q.key = r.key /\ q.tries = r.tries
        /\ (q.second => q.provider = "nvidia")
    BY <1>0, <2>1 DEF CallRecords
  <2>3. r.pc = "idle" /\ free' = free
    BY <1>1 DEF Start
  <2>4. call' = [call EXCEPT ![c] = q]
    BY <2>1
  <2> HIDE DEF q
  <2>5. Sensible(q)
    BY <1>0, <2>2, <2>3 DEF Sensible, Running, OnFile
  <2>6. Keeps(c, q) /\ Far(r)
    BY <2>2, <2>3 DEF Keeps, Holding, Far
  <2> QED BY <2>2, <2>4, <2>5, <2>6 DEF Step, Running
<1>2. CASE Enter(c)
  <2>1. PICK x \in {FALSE, r.patient /\ r.provider = "openrouter"} :
            call' = [call EXCEPT ![c] = [r EXCEPT !.pc = "read", !.fallback = x]]
    BY <1>2 DEF Enter, Becomes
  <2>2. x \in BOOLEAN
    BY <2>1
  <2> DEFINE q == [r EXCEPT !.pc = "read", !.fallback = x]
  <2>3. q \in CallRecords /\ q.pc = "read" /\ q.why = r.why /\ q.key = r.key /\ q.tries = r.tries
        /\ q.second = r.second /\ q.provider = r.provider
    BY <1>0, <2>2 DEF CallRecords
  <2>4. r.pc = "wait" /\ free[Home(c)] > 0 /\ free' = [free EXCEPT ![Home(c)] = @ - 1]
    BY <1>2 DEF Enter
  <2>5. call' = [call EXCEPT ![c] = q]
    BY <2>1
  <2> HIDE DEF q
  <2>6. Sensible(q)
    BY <1>0, <2>3, <2>4 DEF Sensible, Running, OnFile
  <2>7. Takes(c, q) /\ Far(r) /\ Trail(c, q)
    BY <1>0, <2>3, <2>4 DEF Takes, Holding, Far, Trail, Sensible, Running
  <2> QED BY <2>5, <2>6, <2>7 DEF Step
<1>3. CASE Read(c)
  <2> DEFINE b == BucketOf(Stored, r.provider)
  <2>0. r.pc = "read" /\ r.pc \in Holding /\ r.pc \in Running
    BY <1>3 DEF Read, Holding, Running
  <2>1. CASE Stored[b] = <<>>
    <3>1. Choose(c, r, NoKey)
      BY <1>3, <2>1 DEF Read
    <3>2. CameTo(c, r) /\ (r.why # "first" => r.key # NoKey)
      BY <1>0, <1>h, <2>0 DEF Sensible
    <3> HIDE DEF r
    <3> QED BY <1>m, <3>1, <3>2, ChooseMoves
  <2>2. CASE Stored[b] # <<>>
    <3> DEFINE q == [r EXCEPT !.pc = "truncate", !.seen = Stored]
    <3>1. call' = [call EXCEPT ![c] = q] /\ free' = free
      BY <1>3, <2>2 DEF Read, Becomes
    <3>2. Stored \in Contents
      BY ContentsAre DEF Stored, TInv, TypeOK
    <3>3. q \in CallRecords /\ q.pc = "truncate" /\ q.why = r.why /\ q.key = r.key
          /\ q.seen = Stored /\ q.tries = r.tries /\ q.second = r.second /\ q.provider = r.provider
      BY <1>0, <3>2 DEF CallRecords
    <3> HIDE DEF q
    <3>4. Sensible(q)
      BY <1>0, <2>0, <2>2, <3>3 DEF Sensible, Running
    <3>5. Keeps(c, q) /\ (Far(q) => Far(r)) /\ Trail(c, q)
      BY <1>3, <2>0, <3>1, <3>3 DEF Keeps, Holding, Far, Trail, Same
    <3> QED BY <3>1, <3>4, <3>5 DEF Step
  <2> QED BY <2>1, <2>2
<1>4. CASE Truncate(c)
  <2> DEFINE q == [r EXCEPT !.pc = "fill"]
  <2>1. call' = [call EXCEPT ![c] = q] /\ free' = free /\ r.pc = "truncate"
    BY <1>4 DEF Truncate, Becomes
  <2>2. q \in CallRecords /\ q.pc = "fill" /\ q.why = r.why /\ q.key = r.key
        /\ q.seen = r.seen /\ q.tries = r.tries /\ q.second = r.second /\ q.provider = r.provider
    BY <1>0 DEF CallRecords
  <2> HIDE DEF q
  <2>3. Sensible(q)
    BY <1>0, <2>1, <2>2 DEF Sensible, OnFile, Running
  <2>4. Keeps(c, q) /\ (Far(q) => Far(r)) /\ Trail(c, q)
    BY <1>4, <2>1, <2>2 DEF Keeps, Holding, Far, Trail, Same
  <2> QED BY <2>1, <2>3, <2>4 DEF Step
<1>5. CASE Fill(c)
  <2> DEFINE b == BucketOf(r.seen, r.provider)
             k == Head(r.seen[b])
  <2>0. r.pc = "fill" /\ r.pc \in Holding /\ r.tries \in 0..Tries /\ Tries \in Nat
    BY <1>0, <1>5, BoundsAssumption DEF Fill, Holding, CallRecords
  <2>1. r.seen \in Contents /\ b \in Buckets /\ r.seen[b] # <<>>
    BY <1>0, <2>0, BucketTyped DEF CallRecords, Sensible, OnFile
  <2>2. k \in Keys
    BY <2>1, RotatedTyped
  <2>3. CASE PassedOver(r, Home(c), k)
    <3> DEFINE q == [r EXCEPT !.pc = "read", !.seen = Defaults, !.tries = @ + 1]
    <3>1. call' = [call EXCEPT ![c] = q] /\ free' = free
      BY <1>5, <2>3 DEF Fill, Becomes
    <3>2. r.tries + 1 \in 0..Tries
      BY <2>0, <2>3 DEF PassedOver
    <3>3. q \in CallRecords /\ q.pc = "read" /\ q.why = r.why /\ q.key = r.key
          /\ q.tries = r.tries + 1 /\ q.second = r.second /\ q.provider = r.provider
      BY <1>0, <3>2, ContentsAre DEF CallRecords
    <3> HIDE DEF q
    <3>4. Sensible(q)
      BY <1>0, <3>3 DEF Sensible, OnFile, Running
    <3>5. Keeps(c, q) /\ (Far(q) => Far(r)) /\ Trail(c, q)
      BY <1>5, <2>0, <2>3, <3>1, <3>3 DEF Keeps, Holding, Far, Trail, Found
    <3> QED BY <3>1, <3>4, <3>5 DEF Step
  <2>4. CASE ~PassedOver(r, Home(c), k)
    <3>1. Choose(c, r, k)
      BY <1>5, <2>4 DEF Fill
    <3>2. CameTo(c, r) /\ (r.why # "first" => r.key # NoKey)
      BY <1>0, <1>h, <2>0 DEF Sensible
    <3> HIDE DEF r, k
    <3> QED BY <1>m, <2>2, <3>1, <3>2, ChooseMoves
  <2> QED BY <2>3, <2>4
<1>6. CASE Answer(c) \/ Limited(c) \/ Missing(c)
  <2>0. r.pc = "request" /\ r.pc \in Holding /\ r.key # NoKey /\ r.tries = 0
    BY <1>0, <1>6 DEF Answer, Limited, Missing, Holding, Sensible, Running
  <2>1. \/ \E ok : Return(c, r, ok)
        \/ /\ \E why \in {"limited", "missing"} : Becomes(c, [Refused(c) EXCEPT !.pc = "read", !.why = why])
           /\ free' = free
    BY <1>6 DEF Answer, Limited, Missing
  <2>2. ASSUME NEW why \in {"limited", "missing"}, free' = free,
               Becomes(c, [Refused(c) EXCEPT !.pc = "read", !.why = why])
        PROVE  \E q : Step(c, q)
    <3> DEFINE q == [Refused(c) EXCEPT !.pc = "read", !.why = why]
    <3>1. r.refused \in 0..(RetryCount + 1) /\ RetryCount \in Nat
      BY <1>0, BoundsAssumption DEF CallRecords
    <3>2. (IF r.refused <= RetryCount THEN r.refused + 1 ELSE r.refused) \in 0..(RetryCount + 1)
      BY <3>1
    <3>3. Refused(c) \in CallRecords /\ Refused(c).key = r.key /\ Refused(c).tries = r.tries
          /\ Refused(c).second = r.second /\ Refused(c).provider = r.provider
      BY <1>0, <3>2 DEF Refused, CallRecords
    <3>4. q \in CallRecords /\ q.pc = "read" /\ q.key = r.key /\ q.tries = r.tries
          /\ q.second = r.second /\ q.provider = r.provider
      BY <3>3 DEF CallRecords
    <3>5. call' = [call EXCEPT ![c] = q]
      BY <2>2 DEF Becomes
    <3> HIDE DEF q
    <3>6. Sensible(q)
      BY <1>0, <2>0, <3>4 DEF Sensible, OnFile
    <3>7. Keeps(c, q) /\ (Far(q) => Far(r)) /\ Trail(c, q)
      BY <2>0, <2>2, <3>4 DEF Keeps, Holding, Far, Trail
    <3> QED BY <3>5, <3>6, <3>7 DEF Step
  <2>3. CASE \E ok : Return(c, r, ok)
    <3>1. CameTo(c, r)
      BY <1>h, <2>0
    <3> HIDE DEF r
    <3> QED BY <1>m, <2>3, <3>1, ReturnMoves
  <2> QED BY <2>1, <2>2, <2>3
<1> QED BY <1>1, <1>2, <1>3, <1>4, <1>5, <1>6

\* Every key a call asks with is of one group.
LEMMA HashTyped == ASSUME NEW k \in (Keys \cup {EnvKey}) \ {NoKey} PROVE KeyHash(k) \in Prefixes
<1>1. \E g \in Prefixes : k \in g
  BY PrefixesAssumption
<1> QED BY <1>1 DEF KeyHash

LEMMA TInvStep == TInv /\ [Next]_vars => TInv'
<1> SUFFICES ASSUME TInv, [Next]_vars PROVE TInv'
  OBVIOUS
<1>0. /\ file \in Contents /\ torn \in BOOLEAN /\ clash \in BOOLEAN
      /\ cool \in [Processes -> SUBSET Prefixes]
      /\ editor \in [pc : {"idle"} \cup OnFile, bucket : Buckets, seen : Contents]
      /\ wanted \in [Buckets -> SUBSET Keys]
      /\ saves \in 0..MaxSaves /\ deaths \in 0..MaxDeaths
      /\ call \in [Calls -> CallRecords] /\ free \in [Processes -> 0..Slots] /\ Slack
      /\ \A c \in Calls : Sensible(call[c])
  BY DEF TInv, TypeOK
<1>1. ASSUME NEW c \in Calls,
             Start(c) \/ Enter(c) \/ Read(c) \/ Truncate(c) \/ Fill(c)
             \/ Answer(c) \/ Limited(c) \/ Missing(c)
      PROVE  TInv'
  <2>1. /\ call' \in [Calls -> CallRecords] /\ free' \in [Processes -> 0..Slots] /\ Slack'
        /\ \A d \in Calls : Sensible(call'[d])
    BY <1>1, CallStep, SlotStep DEF Step
  <2>2. UNCHANGED <<editor, wanted, saves, deaths>>
    BY <1>1 DEF Start, Enter, Read, Truncate, Fill, Answer, Limited, Missing
  <2>3. torn' \in BOOLEAN /\ clash' \in BOOLEAN
    BY <1>0, <1>1 DEF Start, Enter, Read, Truncate, Fill, Answer, Limited, Missing
  <2>4. file' \in Contents
    <3>1. CASE Fill(c)
      <4> DEFINE r == call[c]
                 b == BucketOf(r.seen, r.provider)
      <4>1. r.seen \in Contents /\ r.provider \in {"nvidia", "openrouter"} /\ r.pc = "fill"
        BY <1>0, <3>1 DEF CallRecords, Fill
      <4>2. b \in Buckets /\ r.seen[b] # <<>>
        BY <1>0, <4>1, BucketTyped DEF Sensible, OnFile
      <4>3. file' = Rotated(r.seen, b)
        BY <3>1 DEF Fill
      <4> QED BY <4>1, <4>2, <4>3, RotatedTyped
    <3>2. CASE ~Fill(c)
      BY <1>0, <1>1, <3>2 DEF Start, Enter, Read, Truncate, Answer, Limited, Missing
    <3> QED BY <3>1, <3>2
  <2>5. cool' \in [Processes -> SUBSET Prefixes]
    <3>1. CASE Limited(c)
      <4>1. call[c].pc = "request" /\ call[c].key \in (Keys \cup {EnvKey}) \ {NoKey}
        BY <1>0, <3>1 DEF Limited, CallRecords, Sensible
      <4>2. KeyHash(call[c].key) \in Prefixes
        BY <4>1, HashTyped
      <4>3. cool' = cool \/ cool' = [cool EXCEPT ![Home(c)] = @ \cup {KeyHash(call[c].key)}]
        BY <3>1 DEF Limited
      <4> QED BY <1>0, <4>2, <4>3
    <3>2. CASE ~Limited(c)
      BY <1>0, <1>1, <3>2 DEF Start, Enter, Read, Truncate, Fill, Answer, Missing
    <3> QED BY <3>1, <3>2
  <2> QED BY <1>0, <2>1, <2>2, <2>3, <2>4, <2>5 DEF TInv, TypeOK
<1>2. ASSUME NEW p \in Processes, Die(p) PROVE TInv'
  <2>1. /\ UNCHANGED <<file, torn, free, editor, wanted, saves>>
        /\ deaths < MaxDeaths /\ deaths' = deaths + 1 /\ cool' = [cool EXCEPT ![p] = {}]
        /\ clash' \in BOOLEAN
        /\ call' = [c \in Calls |-> IF Home(c) = p THEN Over("dead") ELSE call[c]]
    BY <1>0, <1>2 DEF Die
  <2>2. deaths' \in 0..MaxDeaths
    BY <1>0, <2>1, BoundsAssumption
  <2>3. \A c \in Calls : Sensible(call'[c])
    BY <1>0, <2>1, FreshSensible
  <2>4. call' \in [Calls -> CallRecords]
    BY <2>1, <2>3 DEF Sensible
  <2>5. ASSUME NEW o \in Processes PROVE free'[o] + Cardinality(Holders(o)') <= Slots
    <3>1. CASE o = p
      <4>1. Holders(o)' = {}
        BY <2>1, <3>1 DEF Holders, Holding, Over, Fresh
      <4>2. Cardinality(Holders(o)') = 0 /\ free'[o] \in 0..Slots
        BY <1>0, <2>1, <4>1, FS_EmptySet
      <4> QED BY <4>2, BoundsAssumption
    <3>2. CASE o # p
      <4>1. Holders(o)' = Holders(o)
        BY <2>1, <3>2 DEF Holders
      <4> QED BY <1>0, <2>1, <4>1 DEF Slack
    <3> QED BY <3>1, <3>2
  <2> QED BY <1>0, <2>1, <2>2, <2>3, <2>4, <2>5 DEF TInv, TypeOK, Slack
<1>3. ASSUME NEW p \in Processes, CoolDown(p) PROVE TInv'
  <2>1. /\ UNCHANGED <<file, torn, free, call, editor, wanted, clash, saves, deaths>>
        /\ \E k \in cool[p] : cool' = [cool EXCEPT ![p] = @ \ {k}]
    BY <1>3 DEF CoolDown
  <2>2. cool' \in [Processes -> SUBSET Prefixes]
    BY <1>0, <2>1
  <2> QED BY <1>0, <2>1, <2>2 DEF TInv, TypeOK, Slack, Holders
<1>4. CASE SaveRead \/ SaveTruncate \/ SaveFill
  <2>1. UNCHANGED <<cool, free, call, deaths>>
    BY <1>4 DEF SaveRead, SaveTruncate, SaveFill
  <2>2. CASE SaveRead
    <3>1. Stored \in Contents
      BY <1>0, ContentsAre DEF Stored
    <3>2. saves' \in 0..MaxSaves
      BY <1>0, <2>2, BoundsAssumption DEF SaveRead
    <3>3. /\ \E b \in Buckets : editor' = [pc |-> "truncate", bucket |-> b, seen |-> Stored]
          /\ clash' \in BOOLEAN /\ UNCHANGED <<file, torn, wanted>>
      BY <1>0, <2>2 DEF SaveRead
    <3>4. editor' \in [pc : {"idle"} \cup OnFile, bucket : Buckets, seen : Contents]
      BY <3>1, <3>3 DEF OnFile
    <3> QED BY <1>0, <2>1, <3>2, <3>3, <3>4 DEF TInv, TypeOK, Slack, Holders
  <2>3. CASE SaveTruncate
    <3>1. editor' \in [pc : {"idle"} \cup OnFile, bucket : Buckets, seen : Contents]
      BY <1>0, <2>3 DEF SaveTruncate, OnFile
    <3>2. torn' \in BOOLEAN /\ UNCHANGED <<file, wanted, clash, saves>>
      BY <2>3 DEF SaveTruncate
    <3> QED BY <1>0, <2>1, <3>1, <3>2 DEF TInv, TypeOK, Slack, Holders
  <2>4. CASE SaveFill
    <3>1. file' \in Contents
      BY <1>0, <2>4, ContentsAre, ListsHold DEF SaveFill
    <3>2. wanted' \in [Buckets -> SUBSET Keys] /\ torn' \in BOOLEAN /\ UNCHANGED <<clash, saves>>
      BY <1>0, <2>4, KeysAssumption DEF SaveFill
    <3>3. editor' \in [pc : {"idle"} \cup OnFile, bucket : Buckets, seen : Contents]
      BY <2>4, ContentsAre DEF SaveFill, Idle, Buckets
    <3> QED BY <1>0, <2>1, <3>1, <3>2, <3>3 DEF TInv, TypeOK, Slack, Holders
  <2> QED BY <1>4, <2>2, <2>3, <2>4
<1>5. CASE UNCHANGED vars
  BY <1>0, <1>5 DEF vars, TInv, TypeOK, Slack, Holders
<1> QED BY <1>1, <1>2, <1>3, <1>4, <1>5 DEF Next, OnItsOwn

LEMMA InitTInv == Init => TInv
<1> SUFFICES ASSUME Init PROVE TInv
  OBVIOUS
<1>1. SomeOrder \in Lists
  <2>1. PICK n \in Nat : ExistsBijection(1..n, Keys)
    BY KeysAssumption, FS_NatBijection
  <2>2. Cardinality(Keys) = n
    BY <2>1, FS_CountingElements
  <2>3. \E f \in [1..n -> Keys] : IsInjective(f)
    BY <2>1 DEF ExistsBijection, Bijection, Injection
  <2>4. SomeOrder \in [1..n -> Keys]
    BY <2>2, <2>3 DEF SomeOrder
  <2> QED BY <2>2, <2>4, ListOf
<1>2. file \in Contents
  <2>1. PICK b \in Buckets, s \in {<<>>, SomeOrder} : file = [Defaults EXCEPT ![b] = s]
    BY DEF Init
  <2>2. s \in Lists /\ Defaults \in [Buckets -> Lists]
    BY <1>1, ContentsAre, ListsHold
  <2> QED BY <2>1, <2>2, ContentsAre
<1>3. wanted \in [Buckets -> SUBSET Keys]
  <2>1. \A b \in Buckets : file[b] \in Seq(Keys)
    BY <1>2, ContentsAre, ListsHold
  <2>2. \A s \in Seq(Keys) : Range(s) \subseteq Keys
    BY DEF Range
  <2> QED BY <2>1, <2>2 DEF Init
<1>4. \A c \in Calls : Sensible(call[c])
  BY FreshSensible DEF Init
<1>5. call \in [Calls -> CallRecords]
  BY <1>4 DEF Init, Sensible
<1>6. Slack
  <2>1. \A p : Holders(p) = {}
    BY DEF Init, Holders, Holding, Fresh
  <2>2. \A p \in Processes : free[p] = Slots /\ Cardinality(Holders(p)) = 0
    BY <2>1, FS_EmptySet DEF Init
  <2> QED BY <2>2, BoundsAssumption DEF Slack
<1>7. editor \in [pc : {"idle"} \cup OnFile, bucket : Buckets, seen : Contents]
  BY ContentsAre DEF Init, Idle, Buckets
<1>8. free \in [Processes -> 0..Slots] /\ saves \in 0..MaxSaves /\ deaths \in 0..MaxDeaths
  BY BoundsAssumption DEF Init
<1> QED BY <1>2, <1>3, <1>4, <1>5, <1>6, <1>7, <1>8 DEF Init, TInv, TypeOK

\* The variables keep to their values: no semaphore is given more than it
\* has slots, a rotation stores as many keys as it read, and only prefixes of
\* keys a call asked with cool down.
THEOREM Types == Spec => []TypeOK
<1>1. TInv => TypeOK
  BY DEF TInv
<1> QED BY <1>1, InitTInv, TInvStep, PTL DEF Spec
-----------------------------------------------------------------------------
(* Cooling keys are passed over.                                           *)

\* No call of the other process uses the keys of OpenRouter, or has used them
\* and may be started again.
Afar(c) == \A d \in Calls : Home(d) # Home(c) => Far(call[d])

Searched == file[BucketOf(file, "openrouter")]

\* The keys that were passed over are the last ones by now, and cool still.
Passed(c) ==
    \A i \in 1..Len(Searched) :
        i + call[c].tries > Len(Searched) => Cooling(Home(c), Searched[i])

CInv ==
    /\ \A c, d \in Calls :
          c # d /\ Home(c) = Home(d) /\ call[c].pc \in Running => call[d].pc \notin Running
    /\ saves = 0 => editor.pc = "idle"
    /\ saves = 0 /\ ~clash =>
          \A c \in Calls :
             call[c].pc \in Running /\ call[c].provider = "openrouter" /\ Afar(c) => Passed(c)

\* A rotation of one bucket.
LEMMA RotatedBucket ==
    ASSUME NEW s \in Contents, NEW p \in {"nvidia", "openrouter"}, s[BucketOf(s, p)] # <<>>
    PROVE  LET b == BucketOf(s, p)
               t == Rotated(s, b)
           IN /\ p = "nvidia" => t[BucketOf(t, "openrouter")] = s[BucketOf(s, "openrouter")]
              /\ BucketOf(t, p) = b /\ t[b] = Append(Tail(s[b]), Head(s[b]))
<1> DEFINE b == BucketOf(s, p)
           t == Rotated(s, b)
<1>1. b \in Buckets /\ s \in [Buckets -> Lists]
  BY BucketTyped, ContentsAre
<1>2. s[b] \in Seq(Keys)
  BY <1>1, ListsHold
<1>3. Append(Tail(s[b]), Head(s[b])) # <<>>
  <2> DEFINE u == s[b]
  <2>1. u \in Seq(Keys) /\ u # <<>>
    BY <1>2
  <2> HIDE DEF u
  <2>2. Append(Tail(u), Head(u)) # <<>>
    BY <2>1
  <2> QED BY <2>2 DEF u
<1>4. t[b] = Append(Tail(s[b]), Head(s[b])) /\ \A e \in Buckets : e # b => t[e] = s[e]
  BY <1>1 DEF Rotated
<1>5. b \in {"nvidia", "openrouter", "openrouter_paid"} /\ (p = "nvidia" => b = "nvidia")
  BY DEF BucketOf
<1>6. BucketOf(t, p) = b
  BY <1>1, <1>3, <1>4 DEF BucketOf, Buckets
<1>7. p = "nvidia" => t[BucketOf(t, "openrouter")] = s[BucketOf(s, "openrouter")]
  BY <1>1, <1>4, <1>5 DEF BucketOf, Buckets
<1> QED BY <1>4, <1>6, <1>7

\* One more key is passed over.
LEMMA OneMore ==
    ASSUME NEW s \in Seq(Keys), s # <<>>, NEW n \in Nat, NEW S, Head(s) \in S,
           \A i \in 1..Len(s) : i + n > Len(s) => s[i] \in S
    PROVE  LET t == Append(Tail(s), Head(s))
           IN \A i \in 1..Len(t) : i + (n + 1) > Len(t) => t[i] \in S
<1> DEFINE t == Append(Tail(s), Head(s))
<1>1. PICK m \in Nat \ {0} : m = Len(s)
  OBVIOUS
<1>2. Len(t) = m /\ t[m] = Head(s) /\ \A i \in 1..m - 1 : t[i] = s[i + 1]
  BY <1>1
<1> HIDE DEF t
<1>3. ASSUME NEW i \in 1..m, i + (n + 1) > m PROVE t[i] \in S
  <2>1. CASE i = m
    BY <1>2, <2>1
  <2>2. CASE i # m
    <3>1. i \in 1..m - 1 /\ i + 1 \in 1..m /\ (i + 1) + n > m
      BY <1>3, <2>2
    <3>2. s[i + 1] \in S
      BY <1>1, <3>1
    <3> QED BY <1>2, <3>1, <3>2
  <2> QED BY <2>1, <2>2
<1> QED BY <1>2, <1>3 DEF t

\* Whoever takes a step in a process is alone there with the file.
LEMMA AtStep ==
    ASSUME CInv, NEW c \in Calls,
           Start(c) \/ Enter(c) \/ Read(c) \/ Truncate(c) \/ Fill(c)
           \/ Answer(c) \/ Limited(c) \/ Missing(c)
    PROVE  Alone(c)
<1>1. CASE Read(c) \/ Truncate(c) \/ Fill(c)
  <2>1. call[c].pc \in Running
    BY <1>1 DEF Read, Truncate, Fill, Running
  <2> QED BY <2>1 DEF CInv, Alone
<1> QED BY <1>1 DEF Start, Enter, Answer, Limited, Missing

\* What a step of c does to the search of e.
LEMMA OwnSearch ==
    ASSUME TInv, TInv', KInv, CInv, NEW c \in Calls, saves = 0, ~clash, ~clash',
           Start(c) \/ Enter(c) \/ Read(c) \/ Truncate(c) \/ Fill(c)
           \/ Answer(c) \/ Limited(c) \/ Missing(c),
           NEW q, Step(c, q), q.pc \in Running, q.provider = "openrouter", Afar(c)'
    PROVE  Passed(c)'
<1>1. call'[c] = q /\ \A d \in Calls : Home(d) # Home(c) => call'[d] = call[d]
  BY DEF Step, TInv, TypeOK
<1>2. Afar(c)
  BY <1>1 DEF Afar
<1>3. Trail(c, q)
  BY DEF Step
<1>4. CASE q.tries = 0
  <2>1. ASSUME NEW i \in 1..Len(Searched'), i + q.tries > Len(Searched') PROVE FALSE
    <3>1. file' \in [Buckets -> Seq(Keys)]
      BY ContentsAre, ListsHold DEF TInv, TypeOK
    <3>2. Searched' \in Seq(Keys)
      BY <3>1, BucketTyped DEF Searched
    <3>3. Len(Searched') \in Nat
      BY <3>2
    <3> QED BY <1>4, <2>1, <3>3
  <2> QED BY <1>1, <2>1 DEF Passed
<1>5. CASE (Read(c) \/ Truncate(c)) /\ Same(c, q)
  <2>1. file' = file /\ cool' = cool /\ call[c].pc \in Running
    BY <1>5 DEF Read, Truncate, Running
  <2>2. call[c].provider = "openrouter" /\ q.tries = call[c].tries
    BY <1>5 DEF Same
  <2>3. Passed(c)
    BY <1>2, <2>1, <2>2 DEF CInv
  <2> QED BY <1>1, <2>1, <2>2, <2>3 DEF Passed, Searched, Cooling
<1>6. CASE /\ Fill(c) /\ PassedOver(call[c], Home(c), Found(call[c]))
           /\ q.tries = call[c].tries + 1 /\ q.provider = call[c].provider
  <2> DEFINE s == Searched
             b == BucketOf(file, "openrouter")
             S == {k \in Keys : Cooling(Home(c), k)}
  <2>1. call[c].pc = "fill" /\ call[c].provider = "openrouter" /\ cool' = cool
    BY <1>6 DEF Fill
  <2>2. Passed(c)
    BY <1>2, <2>1 DEF CInv, Running
  <2>3. call[c].seen = file /\ file[b] # <<>>
    BY <2>1 DEF KInv, Owns, OnFile
  <2>4. file' = Rotated(file, b) /\ Cooling(Home(c), Head(s))
    BY <1>6, <2>1, <2>3 DEF Fill, PassedOver, Found, Searched
  <2>5. s \in Seq(Keys) /\ s # <<>> /\ call[c].tries \in Nat
    <3>1. b \in Buckets /\ file \in [Buckets -> Lists] /\ call[c] \in CallRecords
      BY ContentsAre, BucketTyped DEF TInv, TypeOK
    <3> QED BY <2>3, <3>1, ListsHold, BoundsAssumption DEF Searched, CallRecords
  <2>6. Searched' = Append(Tail(s), Head(s))
    <3>1. file \in Contents
      BY DEF TInv, TypeOK
    <3> QED BY <2>3, <2>4, <3>1, RotatedBucket DEF Searched
  <2>7. \A i \in 1..Len(s) : i + call[c].tries > Len(s) => Cooling(Home(c), s[i])
    BY <2>2 DEF Passed
  <2>8. Head(s) \in S /\ \A i \in 1..Len(s) : i + call[c].tries > Len(s) => s[i] \in S
    BY <2>4, <2>5, <2>7
  <2> HIDE DEF s, S
  <2>9. \A i \in 1..Len(Searched') : i + (call[c].tries + 1) > Len(Searched') => Searched'[i] \in S
    BY <2>5, <2>6, <2>8, OneMore
  <2> QED BY <1>1, <1>6, <2>1, <2>9 DEF Passed, Cooling, S
<1> QED BY <1>3, <1>4, <1>5, <1>6 DEF Trail

LEMMA OthersSearch ==
    ASSUME TInv, KInv, CInv, NEW c \in Calls, saves = 0, ~clash, ~clash',
           Start(c) \/ Enter(c) \/ Read(c) \/ Truncate(c) \/ Fill(c)
           \/ Answer(c) \/ Limited(c) \/ Missing(c),
           NEW q, Step(c, q), NEW e \in Calls, e # c,
           (call[e].pc \in Running /\ call[e].provider = "openrouter" /\ Afar(e))'
    PROVE  Passed(e)'
<1>1. call'[c] = q /\ \A d \in Calls : d # c => call'[d] = call[d]
  BY DEF Step, TInv, TypeOK
<1>2. Home(e) # Home(c)
  BY <1>1, AtStep DEF Alone
<1>3. Far(q) /\ Far(call[c])
  BY <1>1, <1>2 DEF Afar, Step
<1>4. Afar(e)
  BY <1>1, <1>3 DEF Afar
<1>5. Passed(e)
  BY <1>1, <1>4 DEF CInv
<1>6. cool'[Home(e)] = cool[Home(e)]
  <2>1. cool' = cool \/ cool' = [cool EXCEPT ![Home(c)] = @ \cup {KeyHash(call[c].key)}]
    BY DEF Start, Enter, Read, Truncate, Fill, Answer, Limited, Missing
  <2>2. Home(e) \in Processes /\ cool \in [Processes -> SUBSET Prefixes]
    BY DEF Processes, TInv, TypeOK
  <2> QED BY <1>2, <2>1, <2>2
<1>7. Searched' = Searched
  <2>1. CASE Fill(c)
    <3>1. call[c].pc = "fill" /\ call[c].provider = "nvidia"
      BY <1>3, <2>1 DEF Far, Fill
    <3>2. call[c].seen = file /\ file[BucketOf(file, "nvidia")] # <<>>
      BY <3>1 DEF KInv, Owns, OnFile
    <3>3. file' = Rotated(file, BucketOf(file, "nvidia")) /\ file \in Contents
      BY <2>1, <3>1, <3>2 DEF Fill, TInv, TypeOK
    <3> QED BY <3>2, <3>3, RotatedBucket DEF Searched
  <2>2. CASE ~Fill(c)
    BY <2>2 DEF Start, Enter, Read, Truncate, Answer, Limited, Missing, Searched
  <2> QED BY <2>1, <2>2
<1> QED BY <1>1, <1>5, <1>6, <1>7 DEF Passed, Cooling

LEMMA CInvStep == TInv /\ KInv /\ CInv /\ [Next]_vars => CInv'
<1> SUFFICES ASSUME TInv, KInv, CInv, [Next]_vars PROVE CInv'
  OBVIOUS
<1>1. ASSUME NEW c \in Calls,
             Start(c) \/ Enter(c) \/ Read(c) \/ Truncate(c) \/ Fill(c)
             \/ Answer(c) \/ Limited(c) \/ Missing(c)
      PROVE  CInv'
  <2>1. PICK q : Step(c, q)
    BY <1>1, CallStep
  <2>2. call'[c] = q /\ \A d \in Calls : d # c => call'[d] = call[d]
    BY <2>1 DEF Step, TInv, TypeOK
  <2>3. UNCHANGED <<editor, saves>> /\ (clash => clash')
    <3>1. UNCHANGED <<editor, saves>>
      BY <1>1 DEF Start, Enter, Read, Truncate, Fill, Answer, Limited, Missing
    <3>2. CASE Read(c)
      BY <3>1, <3>2 DEF Read
    <3>3. CASE ~Read(c)
      <4>1. clash' = clash
        BY <1>1, <3>3 DEF Start, Enter, Truncate, Fill, Answer, Limited, Missing
      <4> QED BY <3>1, <4>1
    <3> QED BY <3>2, <3>3
  <2>4. ASSUME NEW e \in Calls, NEW d \in Calls, e # d, Home(e) = Home(d), call'[e].pc \in Running
        PROVE  call'[d].pc \notin Running
    BY <1>1, <2>2, <2>4, AtStep DEF CInv, Alone
  <2>5. ASSUME saves' = 0, ~clash', NEW e \in Calls,
               (call[e].pc \in Running /\ call[e].provider = "openrouter" /\ Afar(e))'
        PROVE  Passed(e)'
    <3>1. saves = 0 /\ ~clash
      BY <2>3, <2>5
    <3>2. CASE e = c
      BY <1>1, <2>1, <2>2, <2>5, <3>1, <3>2, OwnSearch, TInvStep
    <3>3. CASE e # c
      BY <1>1, <2>1, <2>5, <3>1, <3>3, OthersSearch
    <3> QED BY <3>2, <3>3
  <2> QED BY <2>3, <2>4, <2>5 DEF CInv
<1>2. ASSUME NEW p \in Processes, CoolDown(p) PROVE CInv'
  <2>1. /\ UNCHANGED <<file, torn, free, call, editor, wanted, clash, saves, deaths>>
        /\ \A c \in Calls : Home(c) = p => call[c].pc \notin Running
        /\ \A o \in Processes : o # p => cool'[o] = cool[o]
    BY <1>2 DEF CoolDown, TInv, TypeOK
  <2>2. \A c \in Calls : Home(c) \in Processes
    BY DEF Processes
  <2> QED BY <2>1, <2>2 DEF CInv, Afar, Passed, Searched, Cooling
<1>3. ASSUME NEW p \in Processes, Die(p) PROVE CInv'
  <2>1. /\ UNCHANGED <<file, editor, saves>> /\ (clash => clash')
        /\ \A c \in Calls : call'[c] = IF Home(c) = p THEN Over("dead") ELSE call[c]
        /\ \A o \in Processes : o # p => cool'[o] = cool[o]
    BY <1>3 DEF Die, TInv, TypeOK
  <2>2. Over("dead").pc = "dead"
    BY DEF Over, Fresh
  <2>3. \A c \in Calls : Home(c) \in Processes
    BY DEF Processes
  <2>4. \A c \in Calls : call'[c].pc \in Running => Home(c) # p /\ call'[c] = call[c]
    BY <2>1, <2>2 DEF Running
  <2>5. ASSUME NEW c \in Calls, Afar(c)' PROVE Afar(c)
    BY <2>1, <2>2, <2>5 DEF Afar, Far, Holding
  <2>6. ASSUME saves' = 0, ~clash', NEW c \in Calls,
               (call[c].pc \in Running /\ call[c].provider = "openrouter" /\ Afar(c))'
        PROVE  Passed(c)'
    <3>1. Passed(c)
      BY <2>1, <2>4, <2>5, <2>6 DEF CInv
    <3> QED BY <2>1, <2>3, <2>4, <2>6, <3>1 DEF Passed, Searched, Cooling
  <2> QED BY <2>1, <2>4, <2>6 DEF CInv
<1>4. CASE SaveRead \/ SaveTruncate \/ SaveFill
  <2>1. UNCHANGED call /\ saves' # 0
    BY <1>4 DEF SaveRead, SaveTruncate, SaveFill, CInv, TInv, TypeOK, OnFile
  <2> QED BY <2>1 DEF CInv
<1>5. CASE UNCHANGED vars
  BY <1>5 DEF vars, CInv, Afar, Passed, Searched, Cooling
<1> QED BY <1>1, <1>2, <1>3, <1>4, <1>5 DEF Next, OnItsOwn

LEMMA InitCInv == Init => CInv
  BY DEF Init, CInv, Idle, Fresh, Running

\* What a call asks with.
LEMMA KeyTaken ==
    ASSUME TInv, NEW c \in Calls, NEW r \in CallRecords, NEW k, Choose(c, r, k),
           call'[c].pc = "request", call'[c].key \notin {r.key, EnvKey}
    PROVE  call'[c].key = k
<1>1. ASSUME NEW ok, Return(c, r, ok) PROVE FALSE
  <2>1. call'[c].pc \in {"wait", "done"}
    BY <1>1 DEF Return, Becomes, Over, Fresh, TInv, TypeOK
  <2> QED BY <2>1
<1>2. ASSUME NEW q, DOMAIN q = Fields, Ask(c, q) PROVE call'[c].key = q.key
  BY <1>2 DEF Ask, Becomes, TInv, TypeOK, Fields
<1>3. ASSUME NEW q, DOMAIN q = Fields, Again(c, q) PROVE call'[c].key = q.key
  <2> DEFINE p == [q EXCEPT !.retries = IF @ < RetryCount THEN @ + 1 ELSE @]
  <2>1. DOMAIN p = Fields /\ p.key = q.key
    BY <1>3 DEF Fields
  <2>2. Ask(c, p)
    BY <1>3 DEF Again
  <2> HIDE DEF p
  <2> QED BY <1>2, <2>1, <2>2
<1>4. /\ DOMAIN r = Fields
      /\ \A x : DOMAIN [r EXCEPT !.key = x] = Fields /\ [r EXCEPT !.key = x].key = x
      /\ DOMAIN [r EXCEPT !.fallback = FALSE] = Fields /\ [r EXCEPT !.fallback = FALSE].key = r.key
  BY DEF CallRecords, Fields
<1>5. \/ \E ok : Return(c, r, ok)
      \/ \E x \in {k, EnvKey} : Ask(c, [r EXCEPT !.key = x]) \/ Again(c, [r EXCEPT !.key = x])
      \/ Again(c, r) \/ Again(c, [r EXCEPT !.fallback = FALSE])
  BY DEF Choose
<1> QED BY <1>1, <1>2, <1>3, <1>4, <1>5

\* A process alone with the file takes a cooling key only at the end of its
\* search, after Tries keys that cool as well.  That none is ready then would
\* need that no bucket holds more keys than one search looks at, and that no
\* key which nobody refused shares the prefix of one that cools.
THEOREM CoolingSkipped == Spec => SkipsCooling
<1> DEFINE Searches(c) ==
        /\ call[c].pc = "fill" /\ call'[c].pc = "request" /\ call[c].provider = "openrouter"
        /\ call'[c].key \notin {call[c].key, EnvKey}
        /\ saves = 0 /\ ~clash
        /\ \A d \in Calls : Home(d) # Home(c) => call[d].pc \in {"idle", "wait"}
        /\ Cooling(Home(c), call'[c].key)
<1>1. Init => TInv /\ KInv /\ CInv
  BY InitTInv, InitKInv, InitCInv
<1>2. ASSUME TInv, KInv, CInv, Next, NEW c \in Calls, Searches(c)
      PROVE  LET s == file'[BucketOf(file', "openrouter")]
             IN \A i \in 1..Len(s) : i + Tries >= Len(s) => Cooling(Home(c), s[i])
  <2> DEFINE r == call[c]
             b == BucketOf(file, "openrouter")
             k == Head(file[b])
             S == {x \in Keys : Cooling(Home(c), x)}
  <2>1. Fill(c)
    <3>1. ASSUME NEW d \in Calls, d # c,
                 Start(d) \/ Enter(d) \/ Read(d) \/ Truncate(d) \/ Fill(d)
                 \/ Answer(d) \/ Limited(d) \/ Missing(d)
          PROVE  FALSE
      BY <1>2, <3>1, CallStep DEF Step, TInv, TypeOK
    <3>2. ~(Start(c) \/ Enter(c) \/ Read(c) \/ Truncate(c) \/ Answer(c) \/ Limited(c) \/ Missing(c))
      BY <1>2 DEF Start, Enter, Read, Truncate, Answer, Limited, Missing
    <3>3. ASSUME NEW p \in Processes, CoolDown(p) \/ Die(p) PROVE FALSE
      BY <1>2, <3>3 DEF CoolDown, Die, Over, Fresh
    <3>4. ~(SaveRead \/ SaveTruncate \/ SaveFill)
      BY <1>2 DEF SaveRead, SaveTruncate, SaveFill
    <3> QED BY <1>2, <3>1, <3>2, <3>3, <3>4 DEF Next, OnItsOwn
  <2>2. r.seen = file /\ file[b] # <<>> /\ r.provider = "openrouter" /\ r \in CallRecords
    BY <1>2 DEF KInv, Owns, OnFile, TInv, TypeOK
  <2>3. ~PassedOver(r, Home(c), k)
    <3>1. ASSUME PassedOver(r, Home(c), k) PROVE call'[c].pc = "read"
      <4> DEFINE q == [r EXCEPT !.pc = "read", !.seen = Defaults, !.tries = @ + 1]
      <4>1. call' = [call EXCEPT ![c] = q]
        BY <2>1, <2>2, <3>1 DEF Fill, Becomes
      <4>2. q.pc = "read"
        BY <2>2 DEF CallRecords
      <4> HIDE DEF q
      <4> QED BY <1>2, <4>1, <4>2 DEF TInv, TypeOK
    <3> QED BY <1>2, <3>1
  <2>4. call'[c].key = k
    <3>1. Choose(c, r, k)
      BY <2>1, <2>2, <2>3 DEF Fill
    <3> HIDE DEF k
    <3> QED BY <1>2, <2>2, <3>1, KeyTaken
  <2>5. r.tries = Tries
    BY <1>2, <2>2, <2>3, <2>4, BoundsAssumption DEF PassedOver, CallRecords
  <2>6. \A i \in 1..Len(file[b]) : i + Tries > Len(file[b]) => Cooling(Home(c), file[b][i])
    <3>1. Passed(c)
      BY <1>2 DEF CInv, Running, Afar, Far
    <3> QED BY <2>5, <3>1 DEF Passed, Searched
  <2>7. file[b] \in Seq(Keys)
    <3>1. file \in [Buckets -> Lists] /\ b \in Buckets
      BY ContentsAre, BucketTyped, <1>2 DEF TInv, TypeOK
    <3> QED BY <3>1, ListsHold
  <2>8. Head(file[b]) \in S /\ \A i \in 1..Len(file[b]) : i + Tries > Len(file[b]) => file[b][i] \in S
    BY <1>2, <2>2, <2>4, <2>6, <2>7
  <2> DEFINE t == file'[BucketOf(file', "openrouter")]
  <2>9. t = Append(Tail(file[b]), Head(file[b]))
    <3>1. file' = Rotated(file, b) /\ file \in Contents
      BY <1>2, <2>1, <2>2 DEF Fill, TInv, TypeOK
    <3> QED BY <2>2, <3>1, RotatedBucket
  <2> HIDE DEF S, r, k, b
  <2>10. \A i \in 1..Len(t) : i + (Tries + 1) > Len(t) => t[i] \in S
    BY <2>2, <2>7, <2>8, <2>9, OneMore, BoundsAssumption
  <2>11. Len(t) \in Nat
    BY <2>2, <2>7, <2>9
  <2> HIDE DEF t
  <2>12. \A i \in 1..Len(t) : i + Tries >= Len(t) => t[i] \in S
    BY <2>10, <2>11, BoundsAssumption
  <2> QED BY <2>12 DEF S, t
<1>3. TInv /\ KInv /\ CInv /\ [Next]_vars =>
        [\A c \in Calls : Searches(c) =>
              LET s == file'[BucketOf(file', "openrouter")]
              IN \A i \in 1..Len(s) : i + Tries >= Len(s) => Cooling(Home(c), s[i])]_vars
  BY <1>2
<1> QED BY <1>1, <1>3, TInvStep, KInvStep, CInvStep, PTL DEF Spec, SkipsCooling
=============================================================================
