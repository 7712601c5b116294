----------------------------- MODULE ModelCalls -----------------------------
(***************************************************************************)
(* Calls of a model outside the agent: CloudClient.translate with its      *)
(* module-wide rate limiters (cloud_client.py), OllamaClient.translate     *)
(* (ollama_client.py) and call_llm_chat, which tries a cloud client and    *)
(* then an Ollama client (argument/llm_client.py).  Callers are threads or *)
(* tasks that run side by side.  Time is discrete and relative: a limiter  *)
(* remembers how long ago it let a request pass, up to the interval.       *)
(***************************************************************************)
EXTENDS Naturals, Sequences, FiniteSets

CONSTANTS Threads,     \* the callers
          KindsOf,     \* the kinds of call a caller may make
          LimiterKeys, \* base_url and key of a cloud client
          KeyOf,       \* [Threads -> LimiterKeys]
          Nobody,
          MaxEntries,  \* _RL_MAX_ENTRIES
          MaxRetries,  \* MAX_RETRIES
          Interval     \* _RATE_LIMIT_INTERVAL, in ticks

ASSUME CallsAssumption ==
    /\ KindsOf \in [Threads -> SUBSET {"cloud", "ollama", "chat", "chat cloud"}]
    /\ KeyOf \in [Threads -> LimiterKeys]
    /\ Nobody \notin Threads
    /\ MaxEntries \in Nat \ {0} /\ MaxRetries \in Nat /\ Interval \in Nat

VARIABLES kind,      \* what each caller calls: CloudClient.translate,
                     \* OllamaClient.translate, or call_llm_chat with or
                     \* without an Ollama client to fall back on
          step,      \* where each caller stands
          tries,     \* its attempts so far
          mine,      \* the limiter it fetched, 0 if none
          registry,  \* _rate_limiters: limiters in the order of their keys' insertion
          madeFor,   \* the keys of all limiters made, in the order of their making
          age,       \* ticks since a limiter let a request pass
          holder,    \* who holds a limiter's lock
          wait       \* ticks a caller still sleeps before its request may go

callVars == <<kind, step, tries, mine, registry, madeFor, age, holder, wait>>
limiterVars == <<mine, registry, madeFor, age, holder, wait>>

Limiters == DOMAIN madeFor

Steps == {"idle", "look", "fetch", "make", "lock", "sleep", "request", "generate", "backoff",
          "direct", "direct again", "returned", "raised"}

CallsTypeOK ==
    /\ kind \in [Threads -> {"none", "cloud", "ollama", "chat", "chat cloud"}]
    /\ step \in [Threads -> Steps]
    /\ tries \in [Threads -> 0..MaxRetries]
    /\ madeFor \in Seq(LimiterKeys)
    /\ \A n \in DOMAIN registry : registry[n] \in Limiters
    /\ mine \in [Threads -> 0..Len(madeFor)]
    /\ age \in [Limiters -> 0..Interval]
    /\ holder \in [Limiters -> Threads \cup {Nobody}]
    /\ wait \in [Threads -> 0..Interval]

CallsInit ==
    /\ kind = [t \in Threads |-> "none"]
    /\ step = [t \in Threads |-> "idle"] /\ tries = [t \in Threads |-> 0]
    /\ mine = [t \in Threads |-> 0]
    /\ registry = <<>> /\ madeFor = <<>> /\ age = <<>> /\ holder = <<>>
    /\ wait = [t \in Threads |-> 0]

From(t, a, b) == step[t] = a /\ step' = [step EXCEPT ![t] = b]

----------------------------------------------------------------------------
(* _get_limiter and _rate_limit_wait.                                      *)

Registered(t) == {n \in DOMAIN registry : madeFor[registry[n]] = KeyOf[t]}

\* Whether the key is there is asked without the lock of the registry ...
Look(t) ==
    /\ From(t, "look", IF Registered(t) # {} THEN "fetch" ELSE "make")
    /\ UNCHANGED <<kind, tries, limiterVars>>

\* ... and the limiter is taken in a second step: an eviction in between is a
\* KeyError, which translate does not catch.
Fetch(t) ==
    /\ step[t] = "fetch"
    /\ IF Registered(t) = {}
       THEN step' = [step EXCEPT ![t] = "raised"] /\ UNCHANGED mine
       ELSE /\ step' = [step EXCEPT ![t] = "lock"]
            /\ mine' = [mine EXCEPT ![t] = registry[CHOOSE n \in Registered(t) : TRUE]]
    /\ UNCHANGED <<kind, tries, registry, madeFor, age, holder, wait>>

\* Under the registry's lock: the key is looked up again, and the oldest entry
\* makes room for a new one.
Make(t) ==
    /\ From(t, "make", "lock")
    /\ IF Registered(t) # {}
       THEN /\ mine' = [mine EXCEPT ![t] = registry[CHOOSE n \in Registered(t) : TRUE]]
            /\ UNCHANGED <<registry, madeFor, age, holder>>
       ELSE LET new == Len(madeFor) + 1
                room == IF Len(registry) >= MaxEntries THEN Tail(registry) ELSE registry
            IN  /\ mine' = [mine EXCEPT ![t] = new]
                /\ registry' = Append(room, new)
                /\ madeFor' = Append(madeFor, KeyOf[t])
                /\ age' = Append(age, Interval)
                /\ holder' = Append(holder, Nobody)
    /\ UNCHANGED <<kind, tries, wait>>

(* Mutant: callers of one key do not wait for each other.                  *)
FreeForAll(l) == TRUE

Free(l) == holder[l] = Nobody

Lock(t) ==
    /\ step[t] = "lock" /\ Free(mine[t])
    /\ step' = [step EXCEPT ![t] = "sleep"]
    /\ holder' = [holder EXCEPT ![mine[t]] = t]
    /\ wait' = [wait EXCEPT ![t] = Interval - age[mine[t]]]
    /\ UNCHANGED <<kind, tries, mine, registry, madeFor, age>>

(* Mutant: the lock is still held while the request is under way, and      *)
(* after it.                                                               *)
PassHolding(t) ==
    /\ step[t] = "sleep" /\ wait[t] = 0
    /\ step' = [step EXCEPT ![t] = "request"]
    /\ age' = [age EXCEPT ![mine[t]] = 0]
    /\ UNCHANGED <<kind, tries, mine, registry, madeFor, holder, wait>>

\* The lock is held through the sleep; then the request may go.
Pass(t) ==
    /\ step[t] = "sleep" /\ wait[t] = 0
    /\ step' = [step EXCEPT ![t] = "request"]
    /\ age' = [age EXCEPT ![mine[t]] = 0]
    /\ holder' = [holder EXCEPT ![mine[t]] = Nobody]
    /\ UNCHANGED <<kind, tries, mine, registry, madeFor, wait>>

----------------------------------------------------------------------------
(* The attempts of translate.                                              *)

Begin(t, k) ==
    /\ From(t, "idle", CASE k = "cloud" -> "look"
                         [] k = "ollama" -> "request"
                         [] OTHER -> "direct")
    /\ kind' = [kind EXCEPT ![t] = k]
    /\ UNCHANGED <<tries, limiterVars>>

\* A translation that passes the validation, or the last one, is returned.
Translated(t) ==
    /\ step[t] \in {"request", "generate"}
    /\ step' = [step EXCEPT ![t] = "returned"]
    /\ UNCHANGED <<kind, tries, limiterVars>>

\* Ollama refuses /api/chat: /api/generate is asked in the same attempt.
ChatRefused(t) ==
    /\ kind[t] # "cloud"
    /\ From(t, "request", "generate")
    /\ UNCHANGED <<kind, tries, limiterVars>>

(* Mutant: the attempts are not counted.                                   *)
Forget(t) == tries' = tries

Count(t) == tries' = [tries EXCEPT ![t] = @ + 1]

\* Too short, or an error: back off and try again while attempts are left.
TryAgain(t) ==
    /\ step[t] \in {"request", "generate"} /\ tries[t] < MaxRetries
    /\ step' = [step EXCEPT ![t] = "backoff"]
    /\ Count(t)
    /\ UNCHANGED <<kind, limiterVars>>

BackedOff(t) ==
    /\ From(t, "backoff", IF kind[t] = "cloud" THEN "look" ELSE "request")
    /\ UNCHANGED <<kind, tries, limiterVars>>

\* The last attempt fails.  call_llm_chat then raises what the cloud raised.
GiveUp(t) ==
    /\ step[t] \in {"request", "generate"} /\ tries[t] = MaxRetries
    /\ step' = [step EXCEPT ![t] = "raised"]
    /\ UNCHANGED <<kind, tries, limiterVars>>

----------------------------------------------------------------------------
(* call_llm_chat: the cloud, and Ollama when it fails.                     *)

DirectAnswers(t) ==
    /\ step[t] \in {"direct", "direct again"}
    /\ step' = [step EXCEPT ![t] = "returned"]
    /\ UNCHANGED <<kind, tries, limiterVars>>

\* The budget went into reasoning: one more request, with more tokens.
DirectExhausted(t) ==
    /\ From(t, "direct", "direct again")
    /\ UNCHANGED <<kind, tries, limiterVars>>

DirectFails(t) ==
    /\ step[t] \in {"direct", "direct again"}
    /\ step' = [step EXCEPT ![t] = IF kind[t] = "chat" THEN "request" ELSE "raised"]
    /\ UNCHANGED <<kind, tries, limiterVars>>

----------------------------------------------------------------------------

CallTick ==
    /\ (\E l \in Limiters : age[l] < Interval) \/ (\E t \in Threads : wait[t] > 0)
    /\ age' = [l \in Limiters |-> IF age[l] < Interval THEN age[l] + 1 ELSE Interval]
    /\ wait' = [t \in Threads |-> IF wait[t] > 0 THEN wait[t] - 1 ELSE 0]
    /\ UNCHANGED <<kind, step, tries, mine, registry, madeFor, holder>>

CallStep(t) ==
    \/ (\E k \in KindsOf[t] : Begin(t, k))
    \/ Look(t) \/ Fetch(t) \/ Make(t) \/ Lock(t) \/ Pass(t)
    \/ Translated(t) \/ ChatRefused(t) \/ TryAgain(t) \/ BackedOff(t) \/ GiveUp(t)
    \/ DirectAnswers(t) \/ DirectExhausted(t) \/ DirectFails(t)

CallsNext == CallTick \/ \E t \in Threads : CallStep(t)

CallsSpec == /\ CallsInit /\ [][CallsNext]_callVars
             /\ WF_callVars(CallTick) /\ \A t \in Threads : WF_callVars(CallStep(t))

----------------------------------------------------------------------------

\* A request goes out only when the last one its limiter let pass is an
\* interval old, however many callers share the limiter.
RequestsSpaced ==
    \A t \in Threads :
        step[t] = "sleep" /\ wait[t] = 0 => age[mine[t]] = Interval

\* Every call comes to an end, however its requests fail: the waits for one
\* another in the limiters, the attempts and the fall-backs are all bounded.
CallsEnd == \A t \in Threads : <>(step[t] \in {"returned", "raised"})
=============================================================================
