----------------------------- MODULE ScoringApi -----------------------------
(***************************************************************************)
(* The scoring API (src/logfilter/api/app.py): worker processes, each with *)
(* an event loop, a pool of threads that score, an _AppState of its own    *)
(* and a rate limiter that is shared through Redis until Redis fails once. *)
(*                                                                         *)
(* The event loop runs one handler at a time, up to its await: admitting a *)
(* request, in which it waits for Redis however long that takes; answering *)
(* it; and the whole of /admin/reload, which replaces the configuration,   *)
(* the scorer and the enricher one after the other while pool threads read *)
(* them.  A scorer fills its table of features when it is first used, in   *)
(* two assignments and without a lock.                                     *)
(*                                                                         *)
(* Scorers and enrichers are known by the reload they come from, 0 for the *)
(* start of the process.  Requests are of one client with a valid token;   *)
(* another client has windows of its own.                                  *)
(***************************************************************************)
EXTENDS RateWindow, FiniteSets

CONSTANTS Workers,            (* processes (uvicorn --workers)             *)
          Pool,               (* threads of the request pools: pairs of a
                                 worker and a number; a worker without
                                 threads only admits and refuses           *)
          MaxReloads,         (* bound: reloads of a worker                *)
          MaxFaults           (* bound: crashes, errors and lost data of
                                 Redis, and reloads that fail              *)

ASSUME ApiAssumption ==
    /\ \A t \in Pool : t = <<t[1], t[2]>> /\ t[1] \in Workers
    /\ MaxReloads \in Nat
    /\ MaxFaults \in Nat

VARIABLES up,                 (* live workers                              *)
          shared,             (* workers whose rate_limiter is Redis       *)
          asking,             (* workers whose loop waits for Redis        *)
          redis,              (* the window in Redis                       *)
          memory,             (* each worker's rate_limit_windows          *)
          opened,             (* history: windows that were begun afresh   *)
          recent,             (* history: ages of the requests admitted    *)
          reload,             (* where reload_models is in each worker     *)
          config, scorer, enricher, (* each worker's _state                *)
          named, filled,      (* scorers whose table has names, tokens     *)
          pc,                 (* where each pool thread is                 *)
          since,              (* generation when its request came          *)
          scoredBy, formattedBy, (* generations that it used               *)
          faults              (* faults so far                             *)

limiter == <<shared, asking, redis, memory, opened, recent>>
state == <<reload, config, scorer, enricher>>
table == <<named, filled>>
request == <<pc, since, scoredBy, formattedBy>>
vars == <<up, limiter, state, table, request, faults>>

Generations == 0..MaxReloads
ThreadsOf(w) == {t \in Pool : t[1] = w}

Init ==
    /\ up = {}
    /\ shared = {} /\ asking = {} /\ redis = <<>>
    /\ memory = [w \in Workers |-> <<>>]
    /\ opened = 0 /\ recent = <<>>
    /\ reload = [w \in Workers |-> "none"]
    /\ config = [w \in Workers |-> 0]
    /\ scorer = [w \in Workers |-> 0]
    /\ enricher = [w \in Workers |-> 0]
    /\ named = {} /\ filled = {}
    /\ pc = [t \in Pool |-> "idle"]
    /\ since = [t \in Pool |-> 0]
    /\ scoredBy = [t \in Pool |-> 0]
    /\ formattedBy = [t \in Pool |-> 0]
    /\ faults = 0

Fault == faults < MaxFaults /\ faults' = faults + 1
Put(f, x, value) == [f EXCEPT ![x] = value]

\* No reload has the event loop of w; nor has a handler that waits for Redis.
Loop(w) == w \in up /\ reload[w] = "none"
LoopIdle(w) == Loop(w) /\ w \notin asking
-----------------------------------------------------------------------------
(* Processes. *)

\* lifespan: models loaded, Redis asked once; without it the worker counts in a
\* window of its own from the start.
Start(w) ==
    /\ w \notin up
    /\ up' = up \cup {w}
    /\ \/ /\ shared' = shared \cup {w}
          /\ UNCHANGED <<opened, faults>>
       \/ /\ Fault
          /\ opened' = opened + 1
          /\ UNCHANGED shared
    /\ UNCHANGED <<asking, redis, memory, recent, state, table, request>>

Crash(w) ==
    /\ w \in up
    /\ Fault
    /\ up' = up \ {w}
    /\ shared' = shared \ {w}
    /\ asking' = asking \ {w}
    /\ memory' = Put(memory, w, <<>>)
    /\ reload' = Put(reload, w, "none")
    /\ config' = Put(config, w, 0)
    /\ scorer' = Put(scorer, w, 0)
    /\ enricher' = Put(enricher, w, 0)
    /\ named' = {s \in named : s[1] # w}
    /\ filled' = {s \in filled : s[1] # w}
    /\ pc' = [t \in Pool |-> IF t \in ThreadsOf(w) THEN "idle" ELSE pc[t]]
    /\ UNCHANGED <<redis, opened, recent, since, scoredBy, formattedBy>>

\* Redis is restarted without its data, or a replica that lags behind takes
\* over: what was counted last is lost.  The client connects again and loads the
\* script again by itself, so no worker notices.
RedisForgets ==
    /\ Fault
    /\ \E n \in 0 .. Len(redis) - 1 : redis' = SubSeq(redis, 1, n)
    /\ opened' = opened + 1
    /\ UNCHANGED <<up, shared, asking, memory, recent, state, table, request>>
-----------------------------------------------------------------------------
(* Admission: _require_scoring_access, on the event loop. *)

Admit == recent' = Append(recent, 0)

\* Lines 619-626: the call is synchronous and the client has no time-out (line
\* 132), so the event loop does nothing else until Redis answers, or its
\* connection breaks.
AskRedis(w) ==
    /\ LoopIdle(w) /\ w \in shared
    /\ asking' = asking \cup {w}
    /\ UNCHANGED <<up, shared, redis, memory, opened, recent, state, table,
                   request, faults>>

\* Line 640, after which the handler goes on or answers 429.
EnforceInMemory(w, admitted) ==
    LET window == MemoryPruned(memory[w])
    IN  /\ memory' = Put(memory, w, Counted(window))
        /\ admitted = HasRoom(window)

\* Lines 621-629: Redis runs the script and answers.
EnforceInRedis(admitted) ==
    LET window == RedisPruned(redis)
    IN  /\ redis' = Counted(window)
        /\ admitted = HasRoom(window)

\* Mutated form: a request that Redis could not count is let in uncounted.
FallBackUncounted(w, admitted) ==
    /\ Fault
    /\ redis' = redis
    /\ shared' = shared \ {w}
    /\ opened' = opened + 1
    /\ admitted /\ UNCHANGED memory

\* Lines 630-640: Redis raises, before the script has run or after, and the
\* worker turns to its own window for good.
FallBack(w, admitted) ==
    /\ Fault
    /\ redis' \in {redis, Counted(RedisPruned(redis))}
    /\ shared' = shared \ {w}
    /\ opened' = opened + 1
    /\ EnforceInMemory(w, admitted)

EnforceRateLimit(w, admitted) ==
    \/ /\ w \in asking /\ asking' = asking \ {w}
       /\ EnforceInRedis(admitted)
       /\ UNCHANGED <<shared, memory, opened, faults>>
    \/ /\ w \in asking /\ asking' = asking \ {w}
       /\ FallBack(w, admitted)
    \/ /\ w \notin shared
       /\ EnforceInMemory(w, admitted)
       /\ UNCHANGED <<shared, asking, redis, opened, faults>>

\* Admitted, and the body is in order: the pool gets the request.
Accept(t) ==
    /\ pc[t] = "idle" /\ Loop(t[1])
    /\ EnforceRateLimit(t[1], TRUE)
    /\ Admit
    /\ pc' = Put(pc, t, "read")
    /\ since' = Put(since, t, scorer[t[1]])
    /\ UNCHANGED <<up, state, table, scoredBy, formattedBy>>

\* Lines 745-754 and the schema: too many events, none, or one too long.  The
\* limiter has counted the request.
RefuseBody(w) ==
    /\ Loop(w)
    /\ EnforceRateLimit(w, TRUE)
    /\ Admit
    /\ UNCHANGED <<up, state, table, request>>

RefuseRate(w) ==
    /\ Loop(w)
    /\ EnforceRateLimit(w, FALSE)
    /\ UNCHANGED <<up, recent, state, table, request>>
-----------------------------------------------------------------------------
(* Scoring: _do_score_batch_sync, on a pool thread. *)

Own(t) == <<t[1], scoredBy[t]>>
Step(t, from, to) == pc[t] = from /\ pc' = Put(pc, t, to)

\* Line 479, after the best-effort archiving of lines 475-478.
ReadScorer(t) ==
    /\ Step(t, "read", "names")
    /\ scoredBy' = Put(scoredBy, t, scorer[t[1]])
    /\ UNCHANGED <<up, limiter, state, table, since, formattedBy,
                   faults>>

\* Mutated form: the table is an attribute of the class.
HasNamesOfAny(t) == \E g \in Generations : <<t[1], g>> \in named

\* scorer.py:1022 and 1043.
HasNames(t) == Own(t) \in named

CompareNames(t) ==
    /\ pc[t] = "names"
    /\ pc' = Put(pc, t, IF HasNames(t) THEN "tokens" ELSE "fill")
    /\ UNCHANGED <<up, limiter, state, table, since, scoredBy, formattedBy,
                   faults>>

\* scorer.py:1023 and 1044: a table without tokens gives vectors of zeros.
ReadTokens(t) ==
    /\ Step(t, "tokens", "enrich")
    /\ UNCHANGED <<up, limiter, state, table, since, scoredBy, formattedBy,
                   faults>>

\* scorer.py:1036 and 1057.
SetNames(t) ==
    /\ Step(t, "fill", "named")
    /\ named' = named \cup {Own(t)}
    /\ UNCHANGED <<up, limiter, state, filled, since, scoredBy, formattedBy,
                   faults>>

\* scorer.py:1037 and 1058: this thread uses the table it has built.
SetTokens(t) ==
    /\ Step(t, "named", "enrich")
    /\ filled' = filled \cup {Own(t)}
    /\ UNCHANGED <<up, limiter, state, named, since, scoredBy, formattedBy,
                   faults>>

\* Line 480.
Enrich(t) ==
    /\ Step(t, "enrich", "respond")
    /\ formattedBy' = Put(formattedBy, t, enricher[t[1]])
    /\ UNCHANGED <<up, limiter, state, table, since, scoredBy,
                   faults>>

\* Normalizing or scoring raises: 400 or 500.
Raise(t) ==
    /\ \/ Step(t, "read", "failed")
       \/ Step(t, "enrich", "failed")
    /\ since' = Put(since, t, 0)
    /\ scoredBy' = Put(scoredBy, t, 0)
    /\ UNCHANGED <<up, limiter, state, table, formattedBy, faults>>

\* Lines 766-797, on the event loop.
Respond(t) ==
    /\ LoopIdle(t[1])
    /\ \/ Step(t, "respond", "idle")
       \/ Step(t, "failed", "idle")
    /\ since' = Put(since, t, 0)
    /\ scoredBy' = Put(scoredBy, t, 0)
    /\ formattedBy' = Put(formattedBy, t, 0)
    /\ UNCHANGED <<up, limiter, state, table, faults>>
-----------------------------------------------------------------------------
(* /admin/reload, on the event loop and under _RELOAD_LOCK. *)

ReloadStep(w, from, to) ==
    /\ w \in up
    /\ reload[w] = from
    /\ reload' = Put(reload, w, to)
    /\ UNCHANGED <<up, limiter, table, request>>

\* Lines 884-900: the configuration is read and the models are loaded.
ReloadBegin(w) ==
    /\ LoopIdle(w) /\ scorer[w] < MaxReloads /\ ThreadsOf(w) # {}
    /\ ReloadStep(w, "none", "build")
    /\ UNCHANGED <<config, scorer, enricher, faults>>

\* Lines 901-903.
ReloadFails(w) ==
    /\ Fault
    /\ ReloadStep(w, "build", "none")
    /\ UNCHANGED <<config, scorer, enricher>>

\* Mutated form: the reload waits for the requests in flight.
SetConfigWhenIdle(w) ==
    /\ \A t \in ThreadsOf(w) : pc[t] = "idle"
    /\ ReloadStep(w, "build", "config")
    /\ config' = Put(config, w, config[w] + 1)
    /\ UNCHANGED <<scorer, enricher, faults>>

\* Line 905.
SetConfig(w) ==
    /\ ReloadStep(w, "build", "config")
    /\ config' = Put(config, w, config[w] + 1)
    /\ UNCHANGED <<scorer, enricher, faults>>

\* Line 906.
SetScorer(w) ==
    /\ ReloadStep(w, "config", "scorer")
    /\ scorer' = Put(scorer, w, config[w])
    /\ UNCHANGED <<config, enricher, faults>>

\* Mutated form: the enricher of the start is kept.
KeepEnricher(w) ==
    /\ ReloadStep(w, "scorer", "none")
    /\ UNCHANGED <<config, scorer, enricher, faults>>

\* Lines 907-909.
SetEnricher(w) ==
    /\ ReloadStep(w, "scorer", "none")
    /\ enricher' = Put(enricher, w, config[w])
    /\ UNCHANGED <<config, scorer, faults>>

Tick ==
    /\ redis' = Aged(redis)
    /\ memory' = [w \in Workers |-> Aged(memory[w])]
    /\ recent' = Aged(recent)
    /\ UNCHANGED <<up, shared, asking, opened, state, table, request, faults>>

Score(t) ==
    \/ ReadScorer(t) \/ CompareNames(t) \/ ReadTokens(t) \/ SetNames(t)
    \/ SetTokens(t)  \/ Enrich(t)       \/ Raise(t)      \/ Respond(t)

Reloading(w) ==
    ReloadFails(w) \/ SetConfig(w) \/ SetScorer(w) \/ SetEnricher(w)

Next ==
    \/ \E w \in Workers : \/ Start(w) \/ Crash(w) \/ AskRedis(w)
                          \/ RefuseBody(w) \/ RefuseRate(w)
                          \/ ReloadBegin(w) \/ Reloading(w)
    \/ \E t \in Pool : Accept(t) \/ Score(t)
    \/ RedisForgets
    \/ Tick

Spec == Init /\ [][Next]_vars

\* Pool threads are scheduled, inference and the loading of models end (reloads
\* that fail are among the faults, so they do not keep the event loop for ever),
\* and the loop runs its callbacks in the order in which they became ready, so
\* that other requests do not keep one from its answer.  Redis need not answer.
Fairness ==
    /\ \A t \in Pool : WF_vars(Score(t)) /\ SF_vars(Respond(t))
    /\ \A w \in Workers : WF_vars(Reloading(w))

FairSpec == Spec /\ Fairness
-----------------------------------------------------------------------------
(* Properties. *)

TypeOK ==
    /\ up \subseteq Workers /\ shared \subseteq up /\ asking \subseteq shared
    /\ recent \in Seq(Ages)
    /\ redis \in Seq(Ages) /\ Len(redis) <= Limit
    /\ memory \in [Workers -> Seq(Ages)]
    /\ \A w \in Workers : Len(memory[w]) <= Limit
    /\ opened \in Nat
    /\ reload \in [Workers -> {"none", "build", "config", "scorer"}]
    /\ config \in [Workers -> Generations]
    /\ scorer \in [Workers -> Generations]
    /\ enricher \in [Workers -> Generations]
    /\ filled \subseteq named /\ named \subseteq Workers \X Generations
    /\ pc \in [Pool -> {"idle", "read", "names", "tokens", "fill", "named",
                           "enrich", "respond", "failed"}]
    /\ since \in [Pool -> Generations]
    /\ scoredBy \in [Pool -> Generations]
    /\ formattedBy \in [Pool -> Generations]
    /\ faults \in 0..MaxFaults

LastMinute == {i \in DOMAIN recent : recent[i] < Window}

\* Within any minute all workers together admit at most Limit requests of a
\* client while Redis counts for them, and at most Limit more for each time a
\* worker had to start a window of its own or Redis lost what it had counted.
\* Conversely a window is full, so that requests are refused, only when so many
\* were admitted in the last minute: those that were refused, or counted by a
\* Redis that then failed, do not keep a client out.
RateBounded ==
    /\ Cardinality(LastMinute) <= Limit * (opened + 1)
    /\ ~HasRoom(RedisPruned(redis)) => Cardinality(LastMinute) >= Limit
    /\ \A w \in Workers : ~HasRoom(MemoryPruned(memory[w])) => Len(recent) >= Limit

\* Between reloads the configuration, the scorer and the enricher belong
\* together, whatever failed; and a request is served by what was in place at
\* some moment while it ran, so that one no reload overlapped is served by one
\* generation.
ReloadIsWhole ==
    /\ \A w \in Workers :
          reload[w] \in {"none", "build"} =>
              config[w] = scorer[w] /\ scorer[w] = enricher[w]
    /\ \A t \in Pool :
          pc[t] = "respond" =>
              /\ scoredBy[t] \in since[t] .. scorer[t[1]]
              /\ formattedBy[t] \in since[t] .. enricher[t[1]]

\* A thread finds names without tokens only while another thread of the pool
\* is between its two assignments.
GapIsOneThread ==
    \A t \in Pool :
        pc[t] = "tokens" /\ Own(t) \notin filled =>
            \E u \in ThreadsOf(t[1]) : pc[u] = "named" /\ Own(u) = Own(t)

\* "Thread-safe" (scorer.py:492), and "never a partially initialised" scorer
\* (app.py:882): a thread that found the names of its table (line 1022 of
\* scorer.py) reads its tokens there too (line 1023).
FeaturesComplete ==
    [][\A t \in Pool : ReadTokens(t) => Own(t) \in filled]_vars

\* Every request that was admitted is answered, or its worker crashes, or the
\* event loop of the worker waits for Redis for ever.
Answers ==
    \A t \in Pool : \/ pc[t] # "idle" ~> pc[t] = "idle"
                    \/ <>[](t[1] \in asking)
=============================================================================
