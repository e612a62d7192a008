----------------------------- MODULE LLMClient -----------------------------
(* Calls of language models: core/pipeline_domain LLMClient and            *)
(* core/api_keys.                                                          *)
(*                                                                         *)
(* A process has one client: a semaphore for all its calls, and cooldowns  *)
(* of keys.  All processes, and the settings page of the API, share the    *)
(* file of keys, which is read, rotated in memory and written in place.    *)
(* Within a process that is one step of the event loop; between processes  *)
(* nothing orders it, and a file that is being written reads as empty.     *)
EXTENDS Naturals, Sequences, FiniteSets, Functions

CONSTANTS
    Here, There,    \* calls of two processes
    Slots,          \* of the semaphore, 3 in the code
    Tries,          \* rotations that look for a key, 10 in the code
    RetryCount,     \* Config.OPENROUTER_RETRY_COUNT
    Keys,           \* keys that may be stored
    SavedKey,       \* the one a user saves in a bucket
    EnvKey,         \* the key of the environment, or NoKey
    Prefixes,       \* keys that begin with the same eight characters
    MaxSaves,       \* bound on saves of the settings
    MaxDeaths       \* bound on deaths of processes

NoKey == "none"
Calls == Here \cup There
Home(c) == IF c \in Here THEN "here" ELSE "there"
Processes == {Home(c) : c \in Calls}

ASSUME CallsAssumption == IsFiniteSet(Calls) /\ Here \cap There = {}
ASSUME KeysAssumption == IsFiniteSet(Keys) /\ NoKey \notin Keys /\ SavedKey \in Keys
ASSUME PrefixesAssumption ==
    /\ UNION Prefixes = (Keys \cup {EnvKey}) \ {NoKey}
    /\ \A g, h \in Prefixes : g # h => g \cap h = {}
ASSUME BoundsAssumption ==
    /\ Slots \in Nat \ {0} /\ Tries \in Nat /\ RetryCount \in Nat \ {0}
    /\ MaxSaves \in Nat /\ MaxDeaths \in Nat

VARIABLES
    file,       \* data/api_keys.json: the keys of each bucket
    torn,       \* it is truncated and not written yet
    cool,       \* key_cooldowns of each process, by prefix
    free,       \* what the semaphore of each process has left
    call,       \* the state of each call
    editor,     \* the request that saves settings
    wanted,     \* the keys the user saved last
    clash,      \* two processes used the file at once, or one died over it
    saves, deaths

vars == <<file, torn, cool, free, call, editor, wanted, clash, saves, deaths>>

Buckets == {"openrouter", "openrouter_paid", "nvidia"}
Contents == [Buckets -> UNION {[1..n -> Keys] : n \in 0..Cardinality(Keys)}]
Defaults == [b \in Buckets |-> <<>>]

\* pc: idle, wait (for the semaphore), read, truncate, fill (of the file),
\* request, done or dead.  second: nvidia first and then openrouter.
Fresh == [pc |-> "idle", provider |-> "nvidia", second |-> FALSE, patient |-> FALSE,
          why |-> "first", key |-> NoKey, seen |-> Defaults, tries |-> 0,
          retries |-> 0, fallback |-> FALSE, refused |-> 0]

Over(pc) == [Fresh EXCEPT !.pc = pc]

Idle == [pc |-> "idle", bucket |-> "nvidia", seen |-> Defaults]

\* At first one bucket holds all keys, in some order, or none does.
SomeOrder == CHOOSE s \in [1..Cardinality(Keys) -> Keys] : IsInjective(s)

Init ==
    /\ file \in {[Defaults EXCEPT ![b] = s] : b \in Buckets, s \in {<<>>, SomeOrder}}
    /\ torn = FALSE
    /\ cool = [p \in Processes |-> {}] /\ free = [p \in Processes |-> Slots]
    /\ call = [c \in Calls |-> Fresh] /\ editor = Idle
    /\ wanted = [b \in Buckets |-> Range(file[b])]
    /\ clash = FALSE /\ saves = 0 /\ deaths = 0

-----------------------------------------------------------------------------
(* The file of keys.                                                       *)
OnFile == {"truncate", "fill"}
Users == {c \in Calls : call[c].pc \in OnFile}
FileInUse == Users # {} \/ editor.pc \in OnFile

\* read_keys: what cannot be parsed is taken for empty.
Stored == IF torn THEN Defaults ELSE file

\* get_next_key: the bucket it takes a key from.
BucketOf(data, provider) ==
    IF data[provider] # <<>> THEN provider
    ELSE IF provider = "openrouter" THEN "openrouter_paid" ELSE provider

\* Variant: the key is taken and not put back at the end.
Popped(data, b) == [data EXCEPT ![b] = Tail(@)]

Rotated(data, b) == [data EXCEPT ![b] = Append(Tail(@), Head(@))]

-----------------------------------------------------------------------------
(* A call.  Nothing else happens in its process between its reading of the *)
(* file and what it does with the key.                                     *)
Running == {"read", "truncate", "fill"}
Alone(c) == \A d \in Calls \ {c} : Home(d) = Home(c) => call[d].pc \notin Running

Becomes(c, r) == call' = [call EXCEPT ![c] = r]
Release(c) == free' = [free EXCEPT ![Home(c)] = @ + 1]

\* generate_code: builders call with retries, reviewers without; a model of no known provider is tried with both.
Start(c) ==
    /\ call[c].pc = "idle" /\ Alone(c)
    /\ \E provider \in {"nvidia", "openrouter"}, second, patient \in BOOLEAN :
          /\ second => provider = "nvidia" /\ EnvKey # NoKey
          /\ Becomes(c, [call[c] EXCEPT !.pc = "wait", !.provider = provider,
                                        !.second = second, !.patient = patient])
    /\ UNCHANGED <<file, torn, cool, free, editor, wanted, clash, saves, deaths>>

\* Variant: the semaphore is not waited for.
EnterAhead(c) ==
    /\ call[c].pc = "wait" /\ Alone(c)
    /\ free' = [free EXCEPT ![Home(c)] = @ - 1]
    /\ Becomes(c, [call[c] EXCEPT !.pc = "read"])
    /\ UNCHANGED <<file, torn, cool, editor, wanted, clash, saves, deaths>>

\* With a semaphore; a model may have another one to fall back to.
Enter(c) ==
    /\ call[c].pc = "wait" /\ Alone(c) /\ free[Home(c)] > 0
    /\ free' = [free EXCEPT ![Home(c)] = @ - 1]
    /\ \E fallback \in {FALSE, call[c].patient /\ call[c].provider = "openrouter"} :
          Becomes(c, [call[c] EXCEPT !.pc = "read", !.fallback = fallback])
    /\ UNCHANGED <<file, torn, cool, editor, wanted, clash, saves, deaths>>

\* The call returns; an error of the first provider leads to the second one.
\* Variant: an error keeps the slot.
ReturnKept(c, r, ok) ==
    /\ IF ok THEN Release(c) ELSE UNCHANGED free
    /\ Becomes(c, Over("done"))

Return(c, r, ok) ==
    /\ Release(c)
    /\ Becomes(c, IF ~ok /\ r.second
                  THEN [Fresh EXCEPT !.pc = "wait", !.provider = "openrouter",
                                     !.patient = r.patient]
                  ELSE Over("done"))

Ask(c, r) ==
    /\ Becomes(c, [r EXCEPT !.pc = "request", !.seen = Defaults, !.tries = 0])
    /\ UNCHANGED free

\* The next request, and whether a retry is left.
Again(c, r) ==
    Ask(c, [r EXCEPT !.retries = IF @ < RetryCount THEN @ + 1 ELSE @])

\* Variant: the retries are not counted.
ExhaustedNever(r) == FALSE

Exhausted(r) == r.retries >= RetryCount

\* What becomes of the call with the key k that was found, or without one.
Choose(c, r, k) ==
    \/ /\ r.why = "first"
       /\ LET key == IF k # NoKey THEN k ELSE EnvKey
          IN IF key = NoKey THEN Return(c, r, FALSE) ELSE Ask(c, [r EXCEPT !.key = key])
    \/ /\ r.why # "first" /\ r.provider = "nvidia"
       /\ IF k # NoKey THEN Again(c, [r EXCEPT !.key = k])
          ELSE IF Exhausted(r) THEN Return(c, r, FALSE) ELSE Again(c, r)
    \/ /\ r.why # "first" /\ r.provider = "openrouter"
       /\ IF k \notin {NoKey, r.key} THEN Again(c, [r EXCEPT !.key = k])
          ELSE IF EnvKey \notin {NoKey, r.key} THEN Again(c, [r EXCEPT !.key = EnvKey])
          ELSE IF r.fallback THEN Again(c, [r EXCEPT !.fallback = FALSE])
          ELSE IF r.why = "missing" \/ Exhausted(r) THEN Return(c, r, FALSE)
          ELSE Again(c, r)

\* get_next_key, up to its write; without a key there is none.
Read(c) ==
    /\ call[c].pc = "read"
    /\ clash' = (clash \/ FileInUse)
    /\ LET b == BucketOf(Stored, call[c].provider)
       IN IF Stored[b] = <<>> THEN Choose(c, call[c], NoKey)
          ELSE /\ Becomes(c, [call[c] EXCEPT !.pc = "truncate", !.seen = Stored])
               /\ UNCHANGED free
    /\ UNCHANGED <<file, torn, cool, editor, wanted, saves, deaths>>

Truncate(c) ==
    /\ call[c].pc = "truncate"
    /\ torn' = TRUE
    /\ Becomes(c, [call[c] EXCEPT !.pc = "fill"])
    /\ UNCHANGED <<file, cool, free, editor, wanted, clash, saves, deaths>>

\* _key_hash: the first eight characters of a key, so a key cools with all
\* that share them, as those do which one provider hands out.
KeyHash(k) == CHOOSE g \in Prefixes : k \in g

Cooling(p, k) == KeyHash(k) \in cool[p]

\* Variant: one key less is looked at.
PassedLess(r, p, k) == r.provider = "openrouter" /\ r.tries + 1 < Tries /\ Cooling(p, k)

\* _get_next_openrouter_key: a key in cooldown is passed over, Tries times.
PassedOver(r, p, k) == r.provider = "openrouter" /\ r.tries < Tries /\ Cooling(p, k)

Fill(c) ==
    /\ call[c].pc = "fill"
    /\ LET r == call[c]
           b == BucketOf(r.seen, r.provider)
           k == Head(r.seen[b])
       IN /\ file' = Rotated(r.seen, b) /\ torn' = FALSE
          /\ IF PassedOver(r, Home(c), k)
             THEN Becomes(c, [r EXCEPT !.pc = "read", !.seen = Defaults, !.tries = @ + 1])
                  /\ UNCHANGED free
             ELSE Choose(c, r, k)
    /\ UNCHANGED <<cool, editor, wanted, clash, saves, deaths>>

-----------------------------------------------------------------------------
(* What the provider says.                                                 *)
Refused(c) == [call[c] EXCEPT !.refused = IF @ <= RetryCount THEN @ + 1 ELSE @]

\* An answer, or an error that ends the call.
Answer(c) ==
    /\ call[c].pc = "request" /\ Alone(c)
    /\ \E ok \in BOOLEAN : Return(c, call[c], ok)
    /\ UNCHANGED <<file, torn, cool, editor, wanted, clash, saves, deaths>>

\* 429, and 402 of OpenRouter: the key cools down, with those that share its
\* prefix, and another one is looked for.
Limited(c) ==
    /\ call[c].pc = "request" /\ Alone(c)
    /\ IF call[c].patient
       THEN /\ Becomes(c, [Refused(c) EXCEPT !.pc = "read", !.why = "limited"])
            /\ cool' = IF call[c].provider = "openrouter"
                       THEN [cool EXCEPT ![Home(c)] = @ \cup {KeyHash(call[c].key)}] ELSE cool
            /\ UNCHANGED free
       ELSE Return(c, call[c], FALSE) /\ UNCHANGED cool
    /\ UNCHANGED <<file, torn, editor, wanted, clash, saves, deaths>>

\* 404: the model is not there.
Missing(c) ==
    /\ call[c].pc = "request" /\ Alone(c)
    /\ IF call[c].patient /\ call[c].provider = "openrouter"
       THEN Becomes(c, [Refused(c) EXCEPT !.pc = "read", !.why = "missing"]) /\ UNCHANGED free
       ELSE Return(c, call[c], FALSE)
    /\ UNCHANGED <<file, torn, cool, editor, wanted, clash, saves, deaths>>

CoolDown(p) ==
    /\ \A c \in Calls : Home(c) = p => call[c].pc \notin Running
    /\ \E g \in cool[p] : cool' = [cool EXCEPT ![p] = @ \ {g}]
    /\ UNCHANGED <<file, torn, free, call, editor, wanted, clash, saves, deaths>>

-----------------------------------------------------------------------------
(* update_config: one bucket is replaced in what was read.                 *)
SaveRead ==
    /\ editor.pc = "idle" /\ saves < MaxSaves
    /\ \E b \in Buckets : editor' = [pc |-> "truncate", bucket |-> b, seen |-> Stored]
    /\ clash' = (clash \/ FileInUse) /\ saves' = saves + 1
    /\ UNCHANGED <<file, torn, cool, free, call, wanted, deaths>>

SaveTruncate ==
    /\ editor.pc = "truncate"
    /\ torn' = TRUE /\ editor' = [editor EXCEPT !.pc = "fill"]
    /\ UNCHANGED <<file, cool, free, call, wanted, clash, saves, deaths>>

SaveFill ==
    /\ editor.pc = "fill"
    /\ file' = [editor.seen EXCEPT ![editor.bucket] = <<SavedKey>>]
    /\ wanted' = [wanted EXCEPT ![editor.bucket] = {SavedKey}]
    /\ torn' = FALSE /\ editor' = Idle
    /\ UNCHANGED <<cool, free, call, clash, saves, deaths>>

Die(p) ==
    /\ deaths < MaxDeaths /\ deaths' = deaths + 1
    /\ cool' = [cool EXCEPT ![p] = {}]
    /\ call' = [c \in Calls |-> IF Home(c) = p THEN Over("dead") ELSE call[c]]
    /\ clash' = (clash \/ \E c \in Users : Home(c) = p)
    /\ UNCHANGED <<file, torn, free, editor, wanted, saves>>

OnItsOwn(c) == Start(c) \/ Enter(c) \/ Read(c) \/ Truncate(c) \/ Fill(c)

Next ==
    \/ \E c \in Calls : OnItsOwn(c) \/ Answer(c) \/ Limited(c) \/ Missing(c)
    \/ \E p \in Processes : CoolDown(p) \/ Die(p)
    \/ SaveRead \/ SaveTruncate \/ SaveFill

Spec == Init /\ [][Next]_vars

\* Processes run, and a provider that is asked again and again answers.
Fairness ==
    \A c \in Calls : WF_vars(OnItsOwn(c)) /\ SF_vars(Answer(c))

FairSpec == Spec /\ Fairness

-----------------------------------------------------------------------------
CallRecords ==
    [pc : {"idle", "wait", "read", "truncate", "fill", "request", "done", "dead"},
     provider : {"nvidia", "openrouter"}, second : BOOLEAN, patient : BOOLEAN,
     why : {"first", "limited", "missing"}, key : Keys \cup {EnvKey, NoKey}, seen : Contents,
     tries : 0..Tries, retries : 0..RetryCount, fallback : BOOLEAN, refused : 0..(RetryCount + 1)]

(* The values of the variables; a semaphore lacks what its calls hold.     *)
TypeOK ==
    /\ file \in Contents /\ torn \in BOOLEAN /\ clash \in BOOLEAN
    /\ cool \in [Processes -> SUBSET Prefixes]
    /\ free \in [Processes -> 0..Slots]
    /\ call \in [Calls -> CallRecords]
    /\ editor \in [pc : {"idle"} \cup OnFile, bucket : Buckets, seen : Contents]
    /\ wanted \in [Buckets -> SUBSET Keys]
    /\ saves \in 0..MaxSaves /\ deaths \in 0..MaxDeaths

(* The keys a user saved stay stored, however they are rotated, as long as *)
(* no two processes use the file at once and none dies over it.            *)
KeysKept == ~clash /\ ~FileInUse => \A b \in Buckets : Range(file[b]) = wanted[b]

(* "rate limit exceeded after {retry_count} retries": with no key but the  *)
(* one of the environment, a call that was refused more than               *)
(* OPENROUTER_RETRY_COUNT times asks no more, whichever way its retries    *)
(* went (another key, another model, the same again).                      *)
GivesUp ==
    saves = 0 /\ (\A b \in Buckets : wanted[b] = {}) =>
        \A c \in Calls : call[c].pc = "request" => call[c].refused <= RetryCount

(* "Rotate OpenRouter keys, skipping any in cooldown": a process alone     *)
(* with the file takes a cooling key only at the end of its search.  The   *)
(* last Tries + 1 keys in the order of rotation, or all that are stored,   *)
(* cool then.                                                              *)
SkipsCooling ==
    [][\A c \in Calls :
          /\ call[c].pc = "fill" /\ call'[c].pc = "request" /\ call[c].provider = "openrouter"
          /\ call'[c].key \notin {call[c].key, EnvKey}
          /\ saves = 0 /\ ~clash
          /\ \A d \in Calls : Home(d) # Home(c) => call[d].pc \in {"idle", "wait"}
          /\ Cooling(Home(c), call'[c].key)
          => LET s == file'[BucketOf(file', "openrouter")]
             IN \A i \in 1..Len(s) : i + Tries >= Len(s) => Cooling(Home(c), s[i])]_vars

(* Every call returns, with whatever others in its process go through, if  *)
(* the provider does not refuse forever.                                   *)
CallsReturn ==
    \A c \in Calls : (call[c].pc = "wait") ~> (call[c].pc \in {"done", "dead"})
=============================================================================
