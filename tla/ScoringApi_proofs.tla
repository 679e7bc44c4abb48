-------------------------- MODULE ScoringApi_proofs --------------------------
(***************************************************************************)
(* For any workers, pools, number of reloads, rate limit and window: a     *)
(* reload that is over has replaced the configuration, the scorer and the  *)
(* enricher or none of them, a request is served by what was in place      *)
(* while it ran, a table of features is incomplete only while one thread   *)
(* is filling it, and the rate of the requests that workers admit is       *)
(* bounded by the limit and by the windows they began of their own.        *)
(***************************************************************************)
EXTENDS ScoringApi, FiniteSetTheorems, SequenceTheorems, WellFoundedInduction,
        TLAPS
-----------------------------------------------------------------------------
(* Reloads. *)

\* The types of what reload_models writes and of what a request notes of it.
ReloadTyped ==
    /\ reload \in [Workers -> {"none", "build", "config", "scorer"}]
    /\ config \in [Workers -> Generations]
    /\ scorer \in [Workers -> Generations]
    /\ enricher \in [Workers -> Generations]
    /\ pc \in [Pool -> {"idle", "read", "names", "tokens", "fill", "named",
                           "enrich", "respond", "failed"}]
    /\ since \in [Pool -> Generations]
    /\ scoredBy \in [Pool -> Generations]
    /\ formattedBy \in [Pool -> Generations]

\* How far the reload of worker w has come: the configuration is replaced
\* first, the enricher last, and each by its successor.
Staged(w) ==
    /\ reload[w] = "build" => scorer[w] < MaxReloads
    /\ reload[w] \in {"none", "build"} =>
          config[w] = scorer[w] /\ scorer[w] = enricher[w]
    /\ reload[w] = "config" =>
          config[w] = scorer[w] + 1 /\ scorer[w] = enricher[w]
    /\ reload[w] = "scorer" =>
          config[w] = scorer[w] /\ scorer[w] = enricher[w] + 1

\* A request in hand came when no reload was half done, so nothing it may read
\* is older.
Served(t) ==
    pc[t] # "idle" =>
        /\ since[t] <= enricher[t[1]]
        /\ pc[t] \notin {"read", "failed"} =>
              scoredBy[t] \in since[t] .. scorer[t[1]]
        /\ pc[t] = "respond" =>
              formattedBy[t] \in since[t] .. enricher[t[1]]

ReloadInv ==
    /\ ReloadTyped
    /\ \A w \in Workers : Staged(w)
    /\ \A t \in Pool : Served(t)

\* Every thread belongs to a worker.
LEMMA WorkerOf == ASSUME NEW t \in Pool PROVE t[1] \in Workers
BY ApiAssumption

LEMMA InitReload == Init => ReloadInv
<1> SUFFICES ASSUME Init PROVE ReloadInv
  OBVIOUS
<1>1. 0 \in Generations
  BY ApiAssumption DEF Generations
<1>2. ReloadTyped
  BY <1>1 DEF Init, ReloadTyped
<1>3. \A w \in Workers : Staged(w)
  BY DEF Init, Staged
<1>4. \A t \in Pool : Served(t)
  BY DEF Init, Served
<1>5. QED
  BY <1>2, <1>3, <1>4 DEF ReloadInv

\* The steps of a worker, its crash included.
LEMMA WorkerKeepsReload ==
    ASSUME ReloadInv, NEW w \in Workers,
           \/ Start(w) \/ Crash(w) \/ AskRedis(w) \/ RefuseBody(w)
           \/ RefuseRate(w) \/ ReloadBegin(w) \/ Reloading(w)
    PROVE  ReloadInv'
<1> USE ApiAssumption, WorkerOf
    DEF ReloadInv, ReloadTyped, Staged, Served, Generations, Put
<1>1. CASE Start(w) \/ AskRedis(w) \/ RefuseBody(w) \/ RefuseRate(w)
  BY <1>1 DEF Start, AskRedis, RefuseBody, RefuseRate, state, request
<1>2. CASE Crash(w)
  <2>1. ReloadTyped'
    BY <1>2 DEF Crash
  <2>2. ASSUME NEW v \in Workers PROVE Staged(v)'
    BY <1>2 DEF Crash
  <2>3. ASSUME NEW t \in Pool PROVE Served(t)'
    BY <1>2 DEF Crash, ThreadsOf
  <2>4. QED
    BY <2>1, <2>2, <2>3
<1>3. CASE ReloadBegin(w)
  BY <1>3 DEF ReloadBegin, ReloadStep, request
<1>4. CASE ReloadFails(w)
  BY <1>4 DEF ReloadFails, ReloadStep, request
<1>5. CASE SetConfig(w)
  BY <1>5 DEF SetConfig, ReloadStep, request
<1>6. CASE SetScorer(w)
  BY <1>6 DEF SetScorer, ReloadStep, request
<1>7. CASE SetEnricher(w)
  BY <1>7 DEF SetEnricher, ReloadStep, request
<1>8. QED
  BY <1>1, <1>2, <1>3, <1>4, <1>5, <1>6, <1>7 DEF Reloading

\* The steps of a request.
LEMMA RequestKeepsReload ==
    ASSUME ReloadInv, NEW t \in Pool, Accept(t) \/ Score(t)
    PROVE  ReloadInv'
<1> USE ApiAssumption, WorkerOf
    DEF ReloadInv, ReloadTyped, Staged, Served, Generations, Put, state
<1>1. CASE Accept(t)
  BY <1>1 DEF Accept, Loop
<1>2. CASE ReadScorer(t)
  BY <1>2 DEF ReadScorer, Step
<1>3. CASE CompareNames(t)
  BY <1>3 DEF CompareNames
<1>4. CASE ReadTokens(t) \/ SetNames(t) \/ SetTokens(t)
  BY <1>4 DEF ReadTokens, SetNames, SetTokens, Step
<1>5. CASE Enrich(t)
  BY <1>5 DEF Enrich, Step
<1>6. CASE Raise(t)
  BY <1>6 DEF Raise, Step
<1>7. CASE Respond(t)
  BY <1>7 DEF Respond, Step
<1>8. QED
  BY <1>1, <1>2, <1>3, <1>4, <1>5, <1>6, <1>7 DEF Score

LEMMA StepKeepsReload == ReloadInv /\ [Next]_vars => ReloadInv'
<1> SUFFICES ASSUME ReloadInv, [Next]_vars PROVE ReloadInv'
  OBVIOUS
<1>1. CASE RedisForgets \/ Tick \/ UNCHANGED vars
  BY <1>1
  DEF RedisForgets, Tick, vars, state, request, ReloadInv, ReloadTyped, Staged,
      Served
<1>2. QED
  BY <1>1, WorkerKeepsReload, RequestKeepsReload DEF Next

\* Whatever fails, and however requests and reloads interleave, the three parts
\* of the state change together, and a request without a reload beside it sees
\* one generation.
THEOREM ReloadsAreWhole == Spec => []ReloadIsWhole
<1>1. ReloadInv => ReloadIsWhole
  BY WorkerOf
  DEF ReloadInv, ReloadTyped, Staged, Served, ReloadIsWhole, Generations
<1>2. QED
  BY <1>1, InitReload, StepKeepsReload, PTL DEF Spec
-----------------------------------------------------------------------------
(* The table of features. *)

\* A table with names and no tokens has a thread between the two assignments,
\* and who waits to read tokens has seen names.
TableInv ==
    /\ pc \in [Pool -> {"idle", "read", "names", "tokens", "fill", "named",
                           "enrich", "respond", "failed"}]
    /\ scoredBy \in [Pool -> Nat]
    /\ \A s \in named \ filled :
          \E u \in Pool : pc[u] = "named" /\ Own(u) = s
    /\ \A t \in Pool : pc[t] = "tokens" => Own(t) \in named

LEMMA InitTable == Init => TableInv
BY ApiAssumption DEF Init, TableInv

\* A crash empties the tables of the worker and ends its threads; nothing else
\* that a worker does touches either.
LEMMA WorkerKeepsTable ==
    ASSUME TableInv, NEW w \in Workers,
           \/ Start(w) \/ Crash(w) \/ AskRedis(w) \/ RefuseBody(w)
           \/ RefuseRate(w) \/ ReloadBegin(w) \/ Reloading(w)
    PROVE  TableInv'
<1>1. CASE Crash(w)
  <2> USE <1>1 DEF TableInv, Crash, Own, ThreadsOf
  <2>1. ASSUME NEW s \in named' \ filled'
        PROVE  \E u \in Pool : pc'[u] = "named" /\ Own(u)' = s
    <3>1. s \in named \ filled /\ s[1] # w
      OBVIOUS
    <3>2. PICK u \in Pool : pc[u] = "named" /\ Own(u) = s
      BY <3>1
    <3>3. u[1] # w
      BY <3>1, <3>2
    <3>4. QED
      BY <3>2, <3>3
  <2>2. ASSUME NEW t \in Pool, pc'[t] = "tokens"
        PROVE  Own(t)' \in named'
    BY <2>2
  <2>3. QED
    BY <2>1, <2>2
<1>2. CASE ~Crash(w)
  <2>1. UNCHANGED <<pc, scoredBy, named, filled>>
    BY <1>2
    DEF Start, AskRedis, RefuseBody, RefuseRate, ReloadBegin, Reloading,
        ReloadFails, SetConfig, SetScorer, SetEnricher, ReloadStep, request, table
  <2>2. QED
    BY <2>1 DEF TableInv, Own
<1>3. QED
  BY <1>1, <1>2

\* The steps of a request.
LEMMA RequestKeepsTable ==
    ASSUME TableInv, ReloadTyped, NEW t \in Pool, Accept(t) \/ Score(t)
    PROVE  TableInv'
<1> USE DEF TableInv, Put, Step, table
<1>1. CASE Accept(t)
  BY <1>1 DEF Accept, Own
<1>2. CASE ReadScorer(t)
  BY <1>2, WorkerOf DEF ReadScorer, Own, ReloadTyped, Generations
<1>3. CASE CompareNames(t)
  BY <1>3 DEF CompareNames, HasNames, Own
<1>4. CASE ReadTokens(t)
  BY <1>4 DEF ReadTokens, Own
<1>5. CASE SetNames(t)
  BY <1>5 DEF SetNames, Own
<1>6. CASE SetTokens(t)
  BY <1>6 DEF SetTokens, Own
<1>7. CASE Enrich(t)
  BY <1>7 DEF Enrich, Own
<1>8. CASE Raise(t)
  BY <1>8 DEF Raise, Own
<1>9. CASE Respond(t)
  BY <1>9 DEF Respond, Own
<1>10. QED
  BY <1>1, <1>2, <1>3, <1>4, <1>5, <1>6, <1>7, <1>8, <1>9 DEF Score

LEMMA StepKeepsTable == TableInv /\ ReloadTyped /\ [Next]_vars => TableInv'
<1> SUFFICES ASSUME TableInv, ReloadTyped, [Next]_vars PROVE TableInv'
  OBVIOUS
<1>1. CASE RedisForgets \/ Tick \/ UNCHANGED vars
  BY <1>1 DEF RedisForgets, Tick, vars, table, request, TableInv, Own
<1>2. QED
  BY <1>1, WorkerKeepsTable, RequestKeepsTable DEF Next

\* However many threads of a pool meet a new scorer, the gap in its table is
\* there only while one of them is between its two assignments.
THEOREM GapsAreShort == Spec => []GapIsOneThread
<1>1. TableInv => GapIsOneThread
  <2> SUFFICES ASSUME TableInv, NEW t \in Pool,
                      pc[t] = "tokens", Own(t) \notin filled
               PROVE  \E u \in ThreadsOf(t[1]) :
                          pc[u] = "named" /\ Own(u) = Own(t)
    BY DEF GapIsOneThread
  <2>1. PICK u \in Pool : pc[u] = "named" /\ Own(u) = Own(t)
    BY DEF TableInv
  <2>2. u[1] = t[1]
    BY <2>1 DEF Own
  <2>3. QED
    BY <2>1, <2>2 DEF ThreadsOf
<1>2. ReloadInv => ReloadTyped
  BY DEF ReloadInv
<1>3. QED
  BY <1>1, <1>2, InitReload, StepKeepsReload, InitTable, StepKeepsTable, PTL
  DEF Spec
-----------------------------------------------------------------------------
(* Windows of the rate limiter. *)

\* A window is ordered, oldest first.
Ordered(s) == \A i, j \in 1..Len(s) : i <= j => s[j] <= s[i]

WindowOK(s) == s \in Seq(Ages) /\ Ordered(s)

\* How many entries of a window are younger than age.
Count(s, age) == Len(s) + 1 - FirstYounger(s, age)

LEMMA EntriesOf ==
    ASSUME NEW s, WindowOK(s)
    PROVE  /\ Len(s) \in Nat /\ s = [i \in 1..Len(s) |-> s[i]]
           /\ \A i \in 1..Len(s) : s[i] \in 0..Window /\ s[i] \in Nat
<1>1. Len(s) \in Nat /\ \A i \in 1..Len(s) : s[i] \in Ages
  BY DEF WindowOK
<1>2. s = [i \in 1..Len(s) |-> s[i]]
  BY DEF WindowOK
<1>3. QED
  BY <1>1, <1>2, RateAssumption DEF Ages

\* A set of naturals has a least element.
LEMMA LeastNatural ==
    ASSUME NEW S \in SUBSET Nat, S # {}
    PROVE  \E x \in S : \A y \in S : x <= y
<1> DEFINE Order == StrictSubsetOrdering(Nat)
           Finite == FiniteSubsetsOf(Nat)
           Below == {0..n : n \in S}
<1>1. IsWellFoundedOn(Order, Finite)
  BY FS_StrictSubsetOrderingWellFounded
<1>2. Below \subseteq Finite /\ Below # {}
  <2>1. \A n \in S : 0..n \subseteq Nat /\ IsFiniteSet(0..n)
    BY FS_Interval
  <2>2. QED
    BY <2>1 DEF FiniteSubsetsOf
<1>3. PICK b \in Below : \A c \in Below : <<c, b>> \notin Order
  <2> HIDE DEF Order, Finite, Below
  <2> QED
    BY <1>1, <1>2, WFMin
<1>4. PICK x \in S : b = 0..x
  OBVIOUS
<1>5. ASSUME NEW y \in S, y < x
      PROVE  FALSE
  <2>1. 0..y \subseteq b /\ 0..y # b /\ b \subseteq Nat /\ 0..y \subseteq Nat
    BY <1>4, <1>5
  <2>2. <<0..y, b>> \in Order
    BY <2>1 DEF StrictSubsetOrdering
  <2>3. QED
    BY <1>3, <2>2
<1>6. QED
  BY <1>5

\* FirstYounger divides an ordered window into what is too old and the rest.
LEMMA Divides ==
    ASSUME NEW s, WindowOK(s), NEW age \in Nat
    PROVE  /\ FirstYounger(s, age) \in 1 .. Len(s) + 1
           /\ \A i \in 1..Len(s) : i < FirstYounger(s, age) <=> age <= s[i]
           /\ Count(s, age) \in 0..Len(s)
<1> DEFINE S == {i \in 1 .. Len(s) + 1 : i = Len(s) + 1 \/ s[i] < age}
<1>1. Len(s) \in Nat /\ \A i \in 1..Len(s) : s[i] \in Nat
  BY EntriesOf
<1>2. S \subseteq Nat /\ Len(s) + 1 \in S
  BY <1>1
<1>3. PICK k \in S : \A j \in S : k <= j
  <2> HIDE DEF S
  <2> QED
    BY <1>2, LeastNatural
<1>4. k = FirstYounger(s, age)
  <2>1. \A j \in S : (\A i \in S : j <= i) => j = k
    BY <1>2, <1>3
  <2>2. FirstYounger(s, age) = CHOOSE j \in S : \A i \in S : j <= i
    BY DEF FirstYounger, Min
  <2> HIDE DEF S
  <2>3. QED
    BY <1>3, <2>1, <2>2
<1>5. \A i \in 1..Len(s) : i < k => age <= s[i]
  BY <1>1, <1>3
<1>6. \A i \in 1..Len(s) : k <= i => s[i] < age
  BY <1>1, <1>3 DEF WindowOK, Ordered
<1>7. QED
  BY <1>1, <1>3, <1>4, <1>5, <1>6 DEF Count

\* The division is the only one.
LEMMA DividesAt ==
    ASSUME NEW s, WindowOK(s), NEW age \in Nat, NEW k \in 1 .. Len(s) + 1,
           \A i \in 1..Len(s) : i < k <=> age <= s[i]
    PROVE  FirstYounger(s, age) = k
<1> DEFINE f == FirstYounger(s, age)
<1>1. f \in 1 .. Len(s) + 1 /\ \A i \in 1..Len(s) : i < f <=> age <= s[i]
  BY Divides
<1>2. Len(s) \in Nat
  BY DEF WindowOK
<1> HIDE DEF f
<1>3. ASSUME f < k
      PROVE  FALSE
  <2>1. f \in 1..Len(s)
    BY <1>1, <1>2, <1>3
  <2>2. QED
    BY <1>1, <1>2, <1>3, <2>1
<1>4. ASSUME k < f
      PROVE  FALSE
  <2>1. k \in 1..Len(s)
    BY <1>1, <1>2, <1>4
  <2>2. QED
    BY <1>1, <1>2, <1>4, <2>1
<1>5. f = k
  BY <1>1, <1>2, <1>3, <1>4
<1>6. QED
  BY <1>5 DEF f

LEMMA EmptyWindow ==
    /\ WindowOK(<<>>) /\ Len(<<>>) = 0
    /\ \A age \in Nat : Count(<<>>, age) = 0
<1>1. WindowOK(<<>>) /\ Len(<<>>) = 0
  BY DEF WindowOK, Ordered
<1>2. QED
  BY <1>1, Divides

\* No entry is younger than 0, and all are younger than Window + 1.
LEMMA CountEnds ==
    ASSUME NEW s, WindowOK(s)
    PROVE  /\ Count(s, 0) = 0
           /\ Count(s, Window + 1) = Len(s)
<1>1. Len(s) \in Nat /\ \A i \in 1..Len(s) : s[i] \in 0..Window
  BY EntriesOf
<1>2. FirstYounger(s, 0) = Len(s) + 1
  BY <1>1, DividesAt
<1>3. FirstYounger(s, Window + 1) = 1
  <2>1. Window + 1 \in Nat /\ 1 \in 1 .. Len(s) + 1
    BY <1>1, RateAssumption
  <2>2. \A i \in 1..Len(s) : i < 1 <=> Window + 1 <= s[i]
    BY <1>1, RateAssumption
  <2>3. QED
    BY <2>1, <2>2, DividesAt
<1>4. QED
  BY <1>1, <1>2, <1>3 DEF Count

\* A request that is counted is the youngest.
LEMMA CountAdmitted ==
    ASSUME NEW s, WindowOK(s)
    PROVE  /\ WindowOK(Append(s, 0)) /\ Len(Append(s, 0)) = Len(s) + 1
           /\ \A age \in Nat \ {0} : Count(Append(s, 0), age) = Count(s, age) + 1
<1> DEFINE t == Append(s, 0)
<1>1. Len(s) \in Nat /\ \A i \in 1..Len(s) : s[i] \in 0..Window
  BY EntriesOf
<1>2. /\ t \in Seq(Ages) /\ Len(t) = Len(s) + 1
      /\ \A i \in 1..Len(s) : t[i] = s[i]
      /\ t[Len(s) + 1] = 0
  BY RateAssumption DEF WindowOK, Ages
<1> HIDE DEF t
<1>3. WindowOK(t)
  BY <1>1, <1>2 DEF WindowOK, Ordered
<1>4. ASSUME NEW age \in Nat \ {0}
      PROVE  Count(t, age) = Count(s, age) + 1
  <2>1. /\ FirstYounger(s, age) \in 1 .. Len(s) + 1
        /\ \A i \in 1..Len(s) : i < FirstYounger(s, age) <=> age <= s[i]
    BY Divides
  <2>2. FirstYounger(t, age) = FirstYounger(s, age)
    <3> DEFINE k == FirstYounger(s, age)
    <3>1. k \in 1 .. Len(t) + 1
      BY <1>1, <1>2, <2>1
    <3>2. \A i \in 1..Len(t) : i < k <=> age <= t[i]
      BY <1>1, <1>2, <2>1
    <3> HIDE DEF k
    <3>3. FirstYounger(t, age) = k
      BY <1>3, <3>1, <3>2, DividesAt
    <3>4. QED
      BY <3>3 DEF k
  <2>3. QED
    BY <1>1, <1>2, <2>1, <2>2 DEF Count
<1>5. QED
  BY <1>2, <1>3, <1>4 DEF t

\* The oldest entries of a window are a window, which counts no more.
LEMMA PrefixCounts ==
    ASSUME NEW s, WindowOK(s), NEW n \in 0..Len(s)
    PROVE  /\ WindowOK(SubSeq(s, 1, n)) /\ Len(SubSeq(s, 1, n)) = n
           /\ \A age \in Nat : Count(SubSeq(s, 1, n), age) <= Count(s, age)
<1> DEFINE p == SubSeq(s, 1, n)
<1>1. Len(s) \in Nat /\ s \in Seq(Ages) /\ Ordered(s)
  BY EntriesOf DEF WindowOK
<1>2. /\ p \in Seq(Ages) /\ Len(p) = n /\ n \in Nat
      /\ \A i \in 1..n : p[i] = s[i]
  BY <1>1, SubSeqProperties
<1>3. WindowOK(p)
  BY <1>1, <1>2 DEF WindowOK, Ordered
<1>4. ASSUME NEW age \in Nat
      PROVE  Count(p, age) <= Count(s, age)
  <2> DEFINE j == FirstYounger(p, age)
             k == FirstYounger(s, age)
  <2>1. /\ j \in 1 .. n + 1
        /\ \A i \in 1..n : i < j <=> age <= p[i]
    BY <1>2, <1>3, Divides
  <2>2. /\ k \in 1 .. Len(s) + 1
        /\ \A i \in 1..Len(s) : i < k <=> age <= s[i]
    BY Divides
  <2>3. Count(p, age) = n + 1 - j /\ Count(s, age) = Len(s) + 1 - k
    BY <1>2 DEF Count
  <2> HIDE DEF j, k, p
  <2>4. CASE k <= n
    <3>1. ~(k < k) /\ k \in 1..n /\ k \in 1..Len(s)
      BY <1>1, <1>2, <2>2, <2>4
    <3>2. ~(age <= p[k])
      BY <1>2, <2>2, <3>1
    <3>3. j <= k
      BY <2>1, <3>1, <3>2
    <3>4. j = k
      <4>1. ~(j < k)
        <5>1. SUFFICES ASSUME j < k PROVE FALSE
          OBVIOUS
        <5>2. j \in 1..n /\ j \in 1..Len(s) /\ ~(j < j)
          BY <1>1, <1>2, <2>1, <2>4, <5>1, <3>1
        <5>3. QED
          BY <1>2, <2>1, <2>2, <5>1, <5>2
      <4>2. QED
        BY <2>1, <3>1, <3>3, <4>1
    <3>5. QED
      BY <1>1, <1>2, <2>1, <2>2, <2>3, <3>4
  <2>5. CASE k > n
    <3>1. j = n + 1
      <4>1. \A i \in 1..n : i < k /\ i \in 1..Len(s)
        BY <1>1, <1>2, <2>2, <2>5
      <4>2. \A i \in 1..n : i < j
        BY <1>2, <2>1, <2>2, <4>1
      <4>3. QED
        BY <1>2, <2>1, <4>2
    <3>2. QED
      BY <1>1, <1>2, <2>2, <2>3, <3>1
  <2>6. QED
    BY <1>2, <2>2, <2>4, <2>5
<1>5. QED
  BY <1>2, <1>3, <1>4

\* Pruning forgets nothing that is younger.
LEMMA CountYounger ==
    ASSUME NEW s, WindowOK(s), NEW b \in Nat
    PROVE  /\ WindowOK(Younger(s, b)) /\ Len(Younger(s, b)) = Count(s, b)
           /\ \A i \in 1..Count(s, b) :
                 Younger(s, b)[i] = s[i + FirstYounger(s, b) - 1]
           /\ \A age \in 0..b : Count(Younger(s, b), age) = Count(s, age)
<1> DEFINE t == Younger(s, b)
           k == FirstYounger(s, b)
<1>1. Len(s) \in Nat /\ \A i \in 1..Len(s) : s[i] \in 0..Window
  BY EntriesOf
<1>2. k \in 1 .. Len(s) + 1 /\ \A i \in 1..Len(s) : i < k <=> b <= s[i]
  BY Divides
<1>3. /\ t \in Seq(Ages) /\ Len(t) = Len(s) + 1 - k
      /\ \A i \in 1..Len(t) : t[i] = s[i + k - 1]
  <2>1. s \in Seq(Ages) /\ k \in 1 .. Len(s) + 1
    BY <1>2 DEF WindowOK
  <2>2. t = SubSeq(s, k, Len(s))
    BY DEF Younger
  <2> HIDE DEF t, k
  <2>3. QED
    BY <1>1, <2>1, <2>2, SubSeqProperties
<1> HIDE DEF t
<1>4. WindowOK(t)
  <2> HIDE DEF k
  <2> SUFFICES ASSUME NEW i \in 1..Len(t), NEW j \in 1..Len(t), i <= j
               PROVE  t[j] <= t[i]
    BY <1>3 DEF WindowOK, Ordered
  <2>1. i + k - 1 \in 1..Len(s) /\ j + k - 1 \in 1..Len(s)
    BY <1>1, <1>2, <1>3
  <2>2. s[j + k - 1] <= s[i + k - 1]
    BY <1>1, <1>2, <2>1 DEF WindowOK, Ordered
  <2>3. QED
    BY <1>3, <2>2
<1>5. ASSUME NEW age \in 0..b
      PROVE  Count(t, age) = Count(s, age)
  <2> DEFINE m == FirstYounger(s, age)
  <2>1. /\ m \in 1 .. Len(s) + 1 /\ age \in Nat
        /\ \A i \in 1..Len(s) : i < m <=> age <= s[i]
    <3>1. age \in Nat
      OBVIOUS
    <3>2. QED
      BY <3>1, Divides
  <2> HIDE DEF k, m
  <2>2. k <= m
    <3>1. ASSUME m < k
          PROVE  FALSE
      <4>1. m \in 1..Len(s)
        BY <1>1, <1>2, <2>1, <3>1
      <4>2. b <= s[m] /\ ~(age <= s[m])
        BY <1>2, <2>1, <3>1, <4>1
      <4>3. QED
        BY <1>1, <4>1, <4>2
    <3>2. QED
      BY <1>1, <1>2, <2>1, <3>1
  <2>3. m - k + 1 \in 1 .. Len(t) + 1
    BY <1>1, <1>2, <1>3, <2>1, <2>2
  <2>4. \A i \in 1..Len(t) : i < m - k + 1 <=> age <= t[i]
    <3> TAKE i \in 1..Len(t)
    <3>1. i + k - 1 \in 1..Len(s)
      BY <1>1, <1>2, <1>3
    <3>2. i + k - 1 < m <=> age <= s[i + k - 1]
      BY <2>1, <3>1
    <3>3. QED
      BY <1>1, <1>2, <1>3, <2>1, <3>1, <3>2
  <2>5. FirstYounger(t, age) = m - k + 1
    BY <1>4, <2>3, <2>4, DividesAt
  <2>6. QED
    BY <1>1, <1>2, <1>3, <2>1, <2>5 DEF Count, m
<1>6. QED
  BY <1>3, <1>4, <1>5 DEF Count, t

\* A tick makes every entry older, and the oldest go.
LEMMA CountAged ==
    ASSUME NEW s, WindowOK(s)
    PROVE  /\ WindowOK(Aged(s)) /\ Len(Aged(s)) <= Len(s)
           /\ \A age \in 0..Window : Count(Aged(s), age + 1) = Count(s, age)
<1> DEFINE kept == Younger(s, Window)
           t == Aged(s)
<1>1. /\ WindowOK(kept) /\ Len(kept) = Count(s, Window)
      /\ \A age \in 0..Window : Count(kept, age) = Count(s, age)
      /\ Count(s, Window) \in 0..Len(s)
  BY CountYounger, Divides, RateAssumption
<1>2. Len(kept) \in Nat /\ \A i \in 1..Len(kept) : kept[i] \in 0..Window
  BY <1>1, EntriesOf
<1>3. \A i \in 1..Len(kept) : kept[i] < Window
  <2>1. Count(kept, Window) = Len(kept)
    BY <1>1, RateAssumption
  <2>2. /\ FirstYounger(kept, Window) \in 1 .. Len(kept) + 1
        /\ \A i \in 1..Len(kept) :
              i < FirstYounger(kept, Window) <=> Window <= kept[i]
    BY <1>1, Divides, RateAssumption
  <2>3. Len(kept) \in Nat
    BY <1>1 DEF WindowOK
  <2>4. FirstYounger(kept, Window) = 1
    <3> HIDE DEF kept
    <3> QED
      BY <2>1, <2>2, <2>3 DEF Count
  <2> HIDE DEF kept
  <2>5. QED
    BY <1>2, <2>2, <2>3, <2>4, RateAssumption
<1>4. t = [i \in 1..Len(kept) |-> kept[i] + 1]
  BY <1>1 DEF Aged, WindowOK
<1> HIDE DEF kept, t
<1>5. t \in Seq(Ages) /\ Len(t) = Len(kept)
  <2>1. \A i \in 1..Len(kept) : kept[i] + 1 \in Ages
    BY <1>2, <1>3, RateAssumption DEF Ages
  <2>2. QED
    BY <1>2, <1>4, <2>1
<1>6. WindowOK(t)
  BY <1>1, <1>2, <1>4, <1>5 DEF WindowOK, Ordered
<1>7. ASSUME NEW age \in 0..Window
      PROVE  Count(t, age + 1) = Count(s, age)
  <2>1. /\ FirstYounger(kept, age) \in 1 .. Len(kept) + 1 /\ age \in Nat
        /\ \A i \in 1..Len(kept) : i < FirstYounger(kept, age) <=> age <= kept[i]
    <3>1. age \in Nat
      BY RateAssumption
    <3>2. QED
      BY <1>1, <3>1, Divides
  <2>2. \A i \in 1..Len(t) : i < FirstYounger(kept, age) <=> age + 1 <= t[i]
    BY <1>2, <1>4, <1>5, <2>1
  <2>3. FirstYounger(t, age + 1) = FirstYounger(kept, age)
    <3>1. age + 1 \in Nat /\ FirstYounger(kept, age) \in 1 .. Len(t) + 1
      BY <1>5, <2>1
    <3>2. QED
      BY <1>6, <2>2, <3>1, DividesAt
  <2>4. QED
    BY <1>1, <1>5, <2>3 DEF Count
<1>8. QED
  BY <1>1, <1>5, <1>6, <1>7 DEF t
-----------------------------------------------------------------------------
(* The rate limit.  Columns(W, h) has h[w] cells for each w of W.          *)

Columns(W, h) == {p \in W \X (1..Limit) : p[2] <= h[p[1]]}

LEMMA ColumnsFinite ==
    ASSUME NEW W, IsFiniteSet(W), NEW h
    PROVE  /\ IsFiniteSet(Columns(W, h)) /\ Cardinality(W) \in Nat
           /\ Cardinality(Columns(W, h)) \in Nat
           /\ Cardinality(Columns(W, h)) <= Limit * Cardinality(W)
<1>1. IsFiniteSet(1..Limit) /\ Cardinality(1..Limit) = Limit
  BY RateAssumption, FS_Interval
<1>2. /\ IsFiniteSet(W \X (1..Limit))
      /\ Cardinality(W \X (1..Limit)) = Cardinality(W) * Limit
  BY <1>1, FS_Product
<1>3. Columns(W, h) \subseteq W \X (1..Limit)
  BY DEF Columns
<1>4. Cardinality(W) \in Nat
  BY FS_CardinalityType
<1>5. /\ IsFiniteSet(Columns(W, h))
      /\ Cardinality(Columns(W, h)) <= Cardinality(W) * Limit
  BY <1>2, <1>3, FS_Subset
<1>6. Cardinality(Columns(W, h)) \in Nat
  BY <1>5, FS_CardinalityType
<1>7. QED
  BY <1>4, <1>5, <1>6, RateAssumption

\* Columns that grow.
LEMMA ColumnsGrow ==
    ASSUME NEW W, IsFiniteSet(W), NEW V \in SUBSET W,
           NEW g, NEW h, \A w \in V : g[w] \in Nat /\ h[w] \in Nat /\ g[w] <= h[w]
    PROVE  Cardinality(Columns(V, g)) <= Cardinality(Columns(W, h))
<1>1. Columns(V, g) \subseteq Columns(W, h)
  BY RateAssumption DEF Columns
<1>2. QED
  BY <1>1, ColumnsFinite, FS_Subset

\* One column that grows by a cell.
LEMMA ColumnsAdd ==
    ASSUME NEW W, IsFiniteSet(W), NEW w \in W, NEW g, NEW h,
           \A v \in W : g[v] \in Nat /\ h[v] \in Nat /\ g[v] <= h[v],
           h[w] = g[w] + 1, h[w] <= Limit
    PROVE  Cardinality(Columns(W, g)) + 1 <= Cardinality(Columns(W, h))
<1> DEFINE c == <<w, h[w]>>
<1>1. c \notin Columns(W, g)
  BY DEF Columns
<1>2. Columns(W, g) \cup {c} \subseteq Columns(W, h)
  <2>1. c \in Columns(W, h)
    BY RateAssumption DEF Columns
  <2>2. Columns(W, g) \subseteq Columns(W, h)
    BY RateAssumption DEF Columns
  <2>3. QED
    BY <2>1, <2>2
<1>3. Cardinality(Columns(W, g) \cup {c}) = Cardinality(Columns(W, g)) + 1
  BY <1>1, ColumnsFinite, FS_AddElement
<1>4. QED
  BY <1>2, <1>3, ColumnsFinite, FS_Subset

\* A column has at most Limit cells.
LEMMA ColumnsLess ==
    ASSUME NEW W, IsFiniteSet(W), NEW w \in W, NEW h
    PROVE  Cardinality(Columns(W, h)) <= Cardinality(Columns(W \ {w}, h)) + Limit
<1> DEFINE rest == Columns(W \ {w}, h)
           cells == {w} \X (1..Limit)
<1>1. IsFiniteSet(1..Limit) /\ Cardinality(1..Limit) = Limit
  BY RateAssumption, FS_Interval
<1>2. IsFiniteSet({w}) /\ Cardinality({w}) = 1
  BY FS_Singleton
<1>3. IsFiniteSet(cells) /\ Cardinality(cells) = Limit
  BY <1>1, <1>2, RateAssumption, FS_Product
<1>4. IsFiniteSet(W \ {w})
  BY FS_Subset
<1>5. IsFiniteSet(rest) /\ Cardinality(rest) \in Nat
  BY <1>4, ColumnsFinite
<1>6. /\ IsFiniteSet(rest \cup cells)
      /\ Cardinality(rest \cup cells)
            = Cardinality(rest) + Cardinality(cells) - Cardinality(rest \cap cells)
  BY <1>3, <1>5, FS_Union
<1>7. Cardinality(rest \cap cells) \in Nat
  <2>1. IsFiniteSet(rest \cap cells)
    <3> HIDE DEF rest, cells
    <3> QED
      BY <1>3, FS_Intersection
  <2>2. QED
    BY <2>1, FS_CardinalityType
<1>8. Columns(W, h) \subseteq rest \cup cells
  BY DEF Columns
<1>9. Cardinality(Columns(W, h)) <= Cardinality(rest \cup cells)
  BY <1>6, <1>8, FS_Subset
<1>10. /\ Cardinality(rest \cup cells) \in Nat
       /\ Cardinality(Columns(W, h)) \in Nat
  BY <1>6, ColumnsFinite, FS_CardinalityType
<1> HIDE DEF rest, cells
<1>11. Cardinality(Columns(W, h)) <= Cardinality(rest) + Limit
  BY <1>3, <1>5, <1>6, <1>7, <1>9, <1>10, RateAssumption
<1>12. QED
  BY <1>11 DEF rest

\* Workers that count for themselves, and how many requests younger than age
\* they have counted.
Alone == up \ shared
OnItsOwn(age) == [w \in Workers |-> Count(memory[w], age)]

\* The types of the windows.
RateTyped ==
    /\ up \subseteq Workers /\ IsFiniteSet(up) /\ shared \subseteq up
    /\ WindowOK(recent)
    /\ WindowOK(redis) /\ Len(redis) <= Limit
    /\ memory \in [Workers -> Seq(Ages)]
    /\ \A w \in Workers : WindowOK(memory[w]) /\ Len(memory[w]) <= Limit
    /\ \A w \in Workers \ Alone : memory[w] = <<>>
    /\ opened \in Nat /\ Cardinality(Alone) <= opened

\* Of whatever age, the requests that were admitted are in the window of Redis,
\* in those of the workers that count for themselves, or were in one that is
\* gone; and what is in a window was admitted.
Admitted ==
    /\ \A age \in 0..Window :
          /\ Count(redis, age) <= Count(recent, age)
          /\ Count(recent, age) <=
                Count(redis, age) + Cardinality(Columns(Alone, OnItsOwn(age)))
                    + Limit * (opened - Cardinality(Alone))
    /\ \A age \in 0 .. Window + 1, w \in Workers :
          Count(memory[w], age) <= Count(recent, age)

RateInv == RateTyped /\ Admitted

\* What enforce does to a window that it prunes of the ages from b on.
LEMMA CountedYounger ==
    ASSUME NEW s, WindowOK(s), NEW b \in Nat \ {0}
    PROVE  /\ WindowOK(Counted(Younger(s, b)))
           /\ Len(s) <= Limit => Len(Counted(Younger(s, b))) <= Limit
           /\ HasRoom(Younger(s, b)) =>
                 \A age \in 1..b :
                    Count(Counted(Younger(s, b)), age) = Count(s, age) + 1
           /\ ~HasRoom(Younger(s, b)) =>
                 \A age \in 0..b :
                    Count(Counted(Younger(s, b)), age) = Count(s, age)
<1> DEFINE t == Younger(s, b)
<1>1. /\ WindowOK(t) /\ Len(t) = Count(s, b) /\ Count(s, b) \in 0..Len(s)
      /\ \A age \in 0..b : Count(t, age) = Count(s, age)
  BY CountYounger, Divides
<1>2. Len(t) \in Nat /\ Len(s) \in Nat /\ Limit \in Nat
  BY <1>1, EntriesOf, RateAssumption
<1>3. CASE HasRoom(t)
  <2>1. Counted(t) = Append(t, 0)
    BY <1>3 DEF Counted
  <2>2. /\ WindowOK(Append(t, 0)) /\ Len(Append(t, 0)) = Len(t) + 1
        /\ \A age \in Nat \ {0} : Count(Append(t, 0), age) = Count(t, age) + 1
    BY <1>1, CountAdmitted
  <2>3. Len(t) + 1 <= Limit
    BY <1>2, <1>3 DEF HasRoom
  <2> HIDE DEF t
  <2>4. \A age \in 1..b : Count(Counted(t), age) = Count(s, age) + 1
    <3> TAKE age \in 1..b
    <3>1. age \in Nat \ {0} /\ age \in 0..b
      OBVIOUS
    <3>2. QED
      BY <1>1, <2>1, <2>2, <3>1
  <2>5. QED
    BY <1>3, <2>1, <2>2, <2>3, <2>4 DEF t
<1>4. CASE ~HasRoom(t)
  <2>1. Counted(t) = t
    BY <1>4 DEF Counted
  <2> HIDE DEF t
  <2>2. QED
    BY <1>1, <1>2, <1>4, <2>1 DEF t
<1>5. QED
  BY <1>3, <1>4

\* The numbers that Admitted compares.
LEMMA RateNumbers ==
    ASSUME RateTyped
    PROVE  /\ IsFiniteSet(Alone) /\ Alone \subseteq Workers
           /\ Cardinality(Alone) \in Nat /\ opened - Cardinality(Alone) \in Nat
           /\ \A age \in Nat :
                 /\ Count(recent, age) \in Nat /\ Count(redis, age) \in Nat
                 /\ \A w \in Workers :
                       Count(memory[w], age) \in 0..Limit
                 /\ Cardinality(Columns(Alone, OnItsOwn(age))) \in Nat
                 /\ Limit * (opened - Cardinality(Alone)) \in Nat
<1>1. IsFiniteSet(Alone) /\ Alone \subseteq Workers
  BY FS_Subset DEF RateTyped, Alone
<1>2. Cardinality(Alone) \in Nat
  BY <1>1, FS_CardinalityType
<1>3. opened - Cardinality(Alone) \in Nat
  BY <1>2 DEF RateTyped
<1>4. Limit * (opened - Cardinality(Alone)) \in Nat
  BY <1>3, RateAssumption
<1>5. ASSUME NEW age \in Nat
      PROVE  /\ Count(recent, age) \in Nat /\ Count(redis, age) \in Nat
             /\ \A w \in Workers : Count(memory[w], age) \in 0..Limit
             /\ Cardinality(Columns(Alone, OnItsOwn(age))) \in Nat
  <2>1. Count(recent, age) \in Nat /\ Count(redis, age) \in Nat
    BY Divides, EntriesOf DEF RateTyped
  <2>2. ASSUME NEW w \in Workers
        PROVE  Count(memory[w], age) \in 0..Limit
    <3>1. WindowOK(memory[w]) /\ Len(memory[w]) <= Limit
      BY DEF RateTyped
    <3>2. Count(memory[w], age) \in 0..Len(memory[w]) /\ Len(memory[w]) \in Nat
      BY <3>1, Divides, EntriesOf
    <3>3. QED
      BY <3>1, <3>2, RateAssumption
  <2>3. Cardinality(Columns(Alone, OnItsOwn(age))) \in Nat
    BY <1>1, ColumnsFinite
  <2>4. QED
    BY <2>1, <2>2, <2>3
<1>6. QED
  BY <1>1, <1>2, <1>3, <1>4, <1>5

LEMMA InitRate == Init => RateInv
<1> SUFFICES ASSUME Init PROVE RateInv
  OBVIOUS
<1>1. Alone = {} /\ Cardinality(Alone) = 0 /\ IsFiniteSet(up)
  BY FS_EmptySet DEF Init, Alone
<1>2. WindowOK(<<>>) /\ Len(<<>>) = 0 /\ \A age \in Nat : Count(<<>>, age) = 0
  BY EmptyWindow
<1>3. RateTyped
  BY <1>1, <1>2, RateAssumption DEF Init, RateTyped
<1>4. ASSUME NEW age \in 0 .. Window + 1
      PROVE  /\ Count(redis, age) = 0 /\ Count(recent, age) = 0
             /\ \A w \in Workers : Count(memory[w], age) = 0
  BY <1>2, RateAssumption DEF Init
<1>5. Admitted
  <2>1. 0..Window \subseteq 0 .. Window + 1 /\ 0..Window \subseteq Nat
    BY RateAssumption
  <2>2. \A age \in 0..Window :
            0 <= Count(redis, age) + Cardinality(Columns(Alone, OnItsOwn(age)))
                    + Limit * (opened - Cardinality(Alone))
    BY <1>3, <2>1, RateNumbers
  <2>3. QED
    BY <1>4, <2>1, <2>2 DEF Admitted
<1>6. QED
  BY <1>3, <1>5 DEF RateInv

\* A worker that starts without Redis has a window of its own, and an empty one.
LEMMA StartKeepsRate ==
    ASSUME RateInv, NEW w \in Workers, Start(w)
    PROVE  RateInv'
<1>1. /\ UNCHANGED <<redis, memory, recent>> /\ w \notin up
      /\ up' = up \cup {w} /\ IsFiniteSet(up')
  BY FS_AddElement DEF Start, RateInv, RateTyped
<1>2. RateTyped
  BY DEF RateInv
<1>3. CASE shared' = shared \cup {w} /\ UNCHANGED opened
  <2>1. Alone' = Alone
    BY <1>1, <1>3 DEF Alone, RateInv, RateTyped
  <2>2. RateTyped'
    BY <1>1, <1>2, <1>3, <2>1 DEF RateTyped
  <2>3. Admitted'
    BY <1>1, <1>3, <2>1 DEF RateInv, Admitted, OnItsOwn
  <2>4. QED
    BY <2>2, <2>3 DEF RateInv
<1>4. CASE opened' = opened + 1 /\ UNCHANGED shared
  <2>1. Alone' = Alone \cup {w} /\ w \notin Alone
    BY <1>1, <1>2, <1>4 DEF Alone, RateTyped
  <2>2. /\ IsFiniteSet(Alone) /\ Alone \subseteq Workers
        /\ Cardinality(Alone) \in Nat /\ opened - Cardinality(Alone) \in Nat
    BY <1>2, RateNumbers
  <2>3. IsFiniteSet(Alone') /\ Cardinality(Alone') = Cardinality(Alone) + 1
    BY <2>1, <2>2, FS_AddElement
  <2>4. RateTyped'
    BY <1>1, <1>2, <1>4, <2>1, <2>2, <2>3 DEF RateTyped
  <2>5. opened' - Cardinality(Alone') = opened - Cardinality(Alone)
    BY <1>2, <1>4, <2>2, <2>3 DEF RateTyped
  <2>6. ASSUME NEW age \in Nat
        PROVE  Cardinality(Columns(Alone, OnItsOwn(age)))
                  <= Cardinality(Columns(Alone', OnItsOwn(age)))
    <3>1. \A v \in Alone : OnItsOwn(age)[v] \in Nat
      BY <1>2, <2>2, RateNumbers DEF OnItsOwn
    <3>2. Alone \in SUBSET Alone'
      BY <2>1
    <3> DEFINE h == OnItsOwn(age)
    <3>3. \A v \in Alone : h[v] \in Nat /\ h[v] \in Nat /\ h[v] <= h[v]
      BY <3>1
    <3> HIDE DEF h
    <3>4. Cardinality(Columns(Alone, h)) <= Cardinality(Columns(Alone', h))
      BY <2>3, <3>2, <3>3, ColumnsGrow
    <3>5. QED
      BY <3>4 DEF h
  <2>7. ASSUME NEW age \in 0..Window
        PROVE  Count(recent, age)
                  <= Count(redis, age) + Cardinality(Columns(Alone', OnItsOwn(age)))
                        + Limit * (opened' - Cardinality(Alone'))
    <3>1. age \in Nat
      BY RateAssumption
    <3>2. Cardinality(Columns(Alone', OnItsOwn(age))) \in Nat
      BY <2>3, ColumnsFinite
    <3>3. Count(recent, age)
                <= Count(redis, age) + Cardinality(Columns(Alone, OnItsOwn(age)))
                      + Limit * (opened - Cardinality(Alone))
      BY DEF RateInv, Admitted
    <3>4. QED
      BY <1>2, <2>5, <2>6, <3>1, <3>2, <3>3, RateNumbers
  <2>8. Admitted'
    BY <1>1, <2>7 DEF RateInv, Admitted, OnItsOwn
  <2>9. QED
    BY <2>4, <2>8 DEF RateInv
<1>5. QED
  BY <1>3, <1>4 DEF Start

\* The window of a worker that dies held at most Limit of the requests.
LEMMA CrashKeepsRate ==
    ASSUME RateInv, NEW w \in Workers, Crash(w)
    PROVE  RateInv'
<1>1. /\ UNCHANGED <<redis, opened, recent>> /\ w \in up
      /\ up' = up \ {w} /\ shared' = shared \ {w}
      /\ memory' = [memory EXCEPT ![w] = <<>>] /\ IsFiniteSet(up')
  BY FS_Subset DEF Crash, RateInv, RateTyped, Put
<1>2. RateTyped
  BY DEF RateInv
<1>3. /\ WindowOK(<<>>) /\ Len(<<>>) = 0 /\ <<>> \in Seq(Ages)
      /\ \A age \in Nat : Count(<<>>, age) = 0
  BY EmptyWindow
<1>4. /\ IsFiniteSet(Alone) /\ Alone \subseteq Workers
      /\ Cardinality(Alone) \in Nat /\ opened - Cardinality(Alone) \in Nat
  BY <1>2, RateNumbers
<1>5. Alone' = Alone \ {w}
  BY <1>1, <1>2 DEF Alone, RateTyped
<1>6. IsFiniteSet(Alone') /\ Cardinality(Alone') \in Nat
  BY <1>4, <1>5, FS_Subset, FS_CardinalityType
<1>7. Cardinality(Alone') = IF w \in Alone THEN Cardinality(Alone) - 1
                            ELSE Cardinality(Alone)
  BY <1>4, <1>5, FS_RemoveElement
<1>8. RateTyped'
  <2>1. ASSUME NEW v \in Workers
        PROVE  /\ WindowOK(memory'[v]) /\ Len(memory'[v]) <= Limit
               /\ v \notin Alone' => memory'[v] = <<>>
    BY <1>1, <1>2, <1>3, <1>5, RateAssumption DEF RateTyped
  <2>2. memory' \in [Workers -> Seq(Ages)]
    BY <1>1, <1>2, <1>3 DEF RateTyped
  <2>3. Cardinality(Alone') <= opened'
    BY <1>1, <1>2, <1>4, <1>7 DEF RateTyped
  <2>4. shared' \subseteq up'
    BY <1>1, <1>2 DEF RateTyped
  <2>5. QED
    BY <1>1, <1>2, <2>1, <2>2, <2>3, <2>4 DEF RateTyped
<1>9. ASSUME NEW age \in 0..Window
      PROVE  Count(recent, age)
                <= Count(redis, age) + Cardinality(Columns(Alone', OnItsOwn(age)'))
                      + Limit * (opened - Cardinality(Alone'))
  <2>1. age \in Nat
    BY RateAssumption
  <2>2. Count(recent, age)
              <= Count(redis, age) + Cardinality(Columns(Alone, OnItsOwn(age)))
                    + Limit * (opened - Cardinality(Alone))
    BY DEF RateInv, Admitted
  <2>3. Columns(Alone', OnItsOwn(age)') = Columns(Alone', OnItsOwn(age))
    BY <1>1, <1>2, <1>4, <1>5 DEF Columns, OnItsOwn, RateTyped
  <2>4. Cardinality(Columns(Alone', OnItsOwn(age))) \in Nat
    BY <1>6, ColumnsFinite
  <2>5. CASE w \notin Alone
    BY <1>5, <2>2, <2>3, <2>5
  <2>6. CASE w \in Alone
    <3>1. Cardinality(Columns(Alone, OnItsOwn(age)))
             <= Cardinality(Columns(Alone', OnItsOwn(age))) + Limit
      BY <1>4, <1>5, <2>6, ColumnsLess
    <3>2. opened - Cardinality(Alone') = (opened - Cardinality(Alone)) + 1
      BY <1>2, <1>4, <1>7, <2>6 DEF RateTyped
    <3>3. Limit * (opened - Cardinality(Alone'))
             = Limit * (opened - Cardinality(Alone)) + Limit
      BY <1>4, <3>2, RateAssumption
    <3>4. QED
      BY <1>2, <2>1, <2>2, <2>3, <2>4, <3>1, <3>3, RateNumbers, RateAssumption
  <2>7. QED
    BY <2>5, <2>6
<1>10. ASSUME NEW age \in 0 .. Window + 1, NEW v \in Workers
       PROVE  Count(memory'[v], age) <= Count(recent, age)
  <2>1. age \in Nat
    BY RateAssumption
  <2>2. CASE v = w
    BY <1>1, <1>2, <1>3, <2>1, <2>2, RateNumbers DEF RateTyped
  <2>3. CASE v # w
    BY <1>1, <1>2, <2>3 DEF RateInv, Admitted, RateTyped
  <2>4. QED
    BY <2>2, <2>3
<1>11. Admitted'
  BY <1>1, <1>9, <1>10 DEF RateInv, Admitted
<1>12. QED
  BY <1>8, <1>11 DEF RateInv

\* What admission does to the history.
Noted(admitted) == recent' = IF admitted THEN Append(recent, 0) ELSE recent

LEMMA NotedCounts ==
    ASSUME RateTyped, NEW admitted \in BOOLEAN, Noted(admitted)
    PROVE  /\ WindowOK(recent') /\ WindowOK(recent)
           /\ \A age \in Nat : /\ Count(recent', age) \in Nat
                               /\ Count(recent, age) \in Nat
                               /\ Count(recent, age) <= Count(recent', age)
           /\ Count(recent', 0) = 0
           /\ admitted => \A age \in Nat \ {0} :
                             Count(recent', age) = Count(recent, age) + 1
           /\ ~admitted => recent' = recent
<1>1. WindowOK(recent)
  BY DEF RateTyped
<1>2. /\ WindowOK(Append(recent, 0))
      /\ \A age \in Nat \ {0} :
            Count(Append(recent, 0), age) = Count(recent, age) + 1
  BY <1>1, CountAdmitted
<1>3. WindowOK(recent')
  BY <1>1, <1>2 DEF Noted
<1>4. Count(recent', 0) = 0 /\ Count(recent, 0) = 0
  BY <1>1, <1>3, CountEnds
<1>5. \A age \in Nat : Count(recent, age) \in Nat /\ Count(recent', age) \in Nat
  BY <1>1, <1>3, Divides, EntriesOf
<1>6. \A age \in Nat : Count(recent, age) <= Count(recent', age)
  <2> TAKE age \in Nat
  <2>1. CASE admitted /\ age # 0
    BY <1>2, <1>5, <2>1 DEF Noted
  <2>2. CASE age = 0
    BY <1>4, <2>2
  <2>3. CASE ~admitted
    BY <1>5, <2>3 DEF Noted
  <2>4. QED
    BY <2>1, <2>2, <2>3
<1>7. QED
  BY <1>1, <1>2, <1>3, <1>4, <1>5, <1>6 DEF Noted

\* Redis counts a request, or refuses it.
LEMMA RedisKeepsRate ==
    ASSUME RateInv, NEW admitted \in BOOLEAN, EnforceInRedis(admitted),
           Noted(admitted), UNCHANGED <<up, shared, memory, opened>>
    PROVE  RateInv'
<1> DEFINE window == RedisPruned(redis)
<1>1. RateTyped
  BY DEF RateInv
<1>2. redis' = Counted(window) /\ admitted = HasRoom(window)
  BY DEF EnforceInRedis
<1>3. /\ WindowOK(Counted(window))
      /\ Len(Counted(window)) <= Limit
      /\ HasRoom(window) => \A age \in 1..Window :
                               Count(Counted(window), age) = Count(redis, age) + 1
      /\ ~HasRoom(window) => \A age \in 0..Window :
                               Count(Counted(window), age) = Count(redis, age)
  <2>1. WindowOK(redis) /\ Len(redis) <= Limit /\ Window \in Nat \ {0}
    BY <1>1, RateAssumption DEF RateTyped
  <2>2. QED
    BY <2>1, CountedYounger DEF RedisPruned
<1> HIDE DEF window
<1>4. Alone' = Alone
  BY DEF Alone
<1>5. RateTyped'
  BY <1>1, <1>2, <1>3, <1>4, NotedCounts DEF RateTyped
<1>6. ASSUME NEW age \in 0..Window
      PROVE  /\ Count(redis', age) <= Count(recent', age)
             /\ Count(recent', age)
                   <= Count(redis', age) + Cardinality(Columns(Alone, OnItsOwn(age)))
                         + Limit * (opened - Cardinality(Alone))
  <2>1. age \in Nat
    BY RateAssumption
  <2>2. /\ Count(recent, age) \in Nat /\ Count(redis, age) \in Nat
        /\ Cardinality(Columns(Alone, OnItsOwn(age))) \in Nat
        /\ Limit * (opened - Cardinality(Alone)) \in Nat
        /\ Count(redis, age) <= Count(recent, age)
        /\ Count(recent, age) <=
              Count(redis, age) + Cardinality(Columns(Alone, OnItsOwn(age)))
                  + Limit * (opened - Cardinality(Alone))
    BY <1>1, <2>1, RateNumbers DEF RateInv, Admitted
  <2>3. CASE age = 0
    <3>1. Count(redis', 0) = 0 /\ Count(recent', 0) = 0
      BY <1>2, <1>3, CountEnds, NotedCounts, <1>1
    <3>2. QED
      BY <2>2, <2>3, <3>1
  <2>4. CASE age # 0 /\ admitted
    <3>1. age \in 1..Window /\ age \in Nat \ {0}
      BY <2>1, <2>4
    <3>2. /\ Count(redis', age) = Count(redis, age) + 1
          /\ Count(recent', age) = Count(recent, age) + 1
      BY <1>1, <1>2, <1>3, <2>4, <3>1, NotedCounts
    <3>3. QED
      BY <2>2, <3>2
  <2>5. CASE ~admitted
    <3>1. Count(redis', age) = Count(redis, age) /\ recent' = recent
      BY <1>1, <1>2, <1>3, <2>5, NotedCounts
    <3>2. QED
      BY <2>2, <3>1
  <2>6. QED
    BY <2>3, <2>4, <2>5
<1>7. ASSUME NEW age \in 0 .. Window + 1, NEW v \in Workers
      PROVE  Count(memory[v], age) <= Count(recent', age)
  <2>1. age \in Nat
    BY RateAssumption
  <2>2. Count(memory[v], age) <= Count(recent, age)
    BY DEF RateInv, Admitted
  <2>3. /\ Count(recent, age) <= Count(recent', age)
        /\ Count(memory[v], age) \in Nat
        /\ Count(recent, age) \in Nat /\ Count(recent', age) \in Nat
    BY <1>1, <2>1, RateNumbers, NotedCounts, RateAssumption
  <2>4. QED
    BY <2>2, <2>3
<1>8. Admitted'
  BY <1>4, <1>6, <1>7 DEF Admitted, OnItsOwn
<1>9. QED
  BY <1>5, <1>8 DEF RateInv

\* What a worker's own window becomes.
LEMMA OwnWindow ==
    ASSUME RateTyped, NEW w \in Workers, NEW admitted \in BOOLEAN,
           EnforceInMemory(w, admitted), Noted(admitted),
           \A age \in 0 .. Window + 1 : Count(memory[w], age) <= Count(recent, age)
    PROVE  /\ memory' \in [Workers -> Seq(Ages)]
           /\ \A v \in Workers \ {w} : memory'[v] = memory[v]
           /\ WindowOK(memory'[w]) /\ Len(memory'[w]) <= Limit
           /\ Count(memory'[w], 0) = 0
           /\ admitted => \A age \in 1 .. Window + 1 :
                             Count(memory'[w], age) = Count(memory[w], age) + 1
           /\ ~admitted => \A age \in 0 .. Window + 1 :
                             Count(memory'[w], age) = Count(memory[w], age)
           /\ \A age \in 0 .. Window + 1 :
                 Count(memory'[w], age) <= Count(recent', age)
           /\ admitted = (Len(memory[w]) < Limit)
<1> DEFINE window == MemoryPruned(memory[w])
<1>1. /\ memory' = [memory EXCEPT ![w] = Counted(window)]
      /\ admitted = HasRoom(window)
  BY DEF EnforceInMemory, Put
<1>2. /\ WindowOK(memory[w]) /\ Len(memory[w]) <= Limit
      /\ Window + 1 \in Nat \ {0}
  BY RateAssumption DEF RateTyped
<1>3. /\ WindowOK(Counted(window))
      /\ Len(Counted(window)) <= Limit
      /\ HasRoom(window) => \A age \in 1 .. Window + 1 :
                               Count(Counted(window), age) = Count(memory[w], age) + 1
      /\ ~HasRoom(window) => \A age \in 0 .. Window + 1 :
                               Count(Counted(window), age) = Count(memory[w], age)
  BY <1>2, CountedYounger DEF MemoryPruned
<1>4. Len(window) = Len(memory[w])
  BY <1>2, CountYounger, CountEnds DEF MemoryPruned
<1> HIDE DEF window
<1>5. memory'[w] = Counted(window) /\ Count(memory'[w], 0) = 0
  BY <1>1, <1>3, CountEnds DEF RateTyped
<1>6. memory' \in [Workers -> Seq(Ages)]
  BY <1>1, <1>3 DEF RateTyped, WindowOK
<1>7. ASSUME NEW age \in 0 .. Window + 1
      PROVE  Count(memory'[w], age) <= Count(recent', age)
  <2>1. /\ age \in Nat /\ Count(recent, age) \in Nat
        /\ Count(recent', age) \in Nat /\ Count(memory[w], age) \in Nat
        /\ Count(memory[w], age) <= Count(recent, age)
    BY RateAssumption, RateNumbers, NotedCounts
  <2>2. CASE age = 0
    BY <1>5, <2>1, <2>2
  <2>3. CASE age # 0 /\ admitted
    <3>1. age \in 1 .. Window + 1 /\ age \in Nat \ {0}
      BY <2>1, <2>3
    <3>2. /\ Count(memory'[w], age) = Count(memory[w], age) + 1
          /\ Count(recent', age) = Count(recent, age) + 1
      BY <1>1, <1>3, <1>5, <2>3, <3>1, NotedCounts
    <3>3. QED
      BY <2>1, <3>2
  <2>4. CASE ~admitted
    BY <1>1, <1>3, <1>5, <2>1, <2>4, NotedCounts
  <2>5. QED
    BY <2>2, <2>3, <2>4
<1>8. \A v \in Workers \ {w} : memory'[v] = memory[v]
  BY <1>1 DEF RateTyped
<1>9. admitted = (Len(memory[w]) < Limit)
  BY <1>1, <1>4 DEF HasRoom
<1>10. QED
  BY <1>1, <1>3, <1>5, <1>6, <1>7, <1>8, <1>9

\* A worker that is on its own counts a request, or refuses it.
LEMMA MemoryKeepsRate ==
    ASSUME RateInv, NEW w \in Alone, NEW admitted \in BOOLEAN,
           EnforceInMemory(w, admitted), Noted(admitted),
           UNCHANGED <<up, shared, redis, opened>>
    PROVE  RateInv'
<1>1. RateTyped /\ Alone' = Alone /\ w \in Workers
  BY DEF RateInv, RateTyped, Alone
<1>2. \A age \in 0 .. Window + 1 : Count(memory[w], age) <= Count(recent, age)
  BY <1>1 DEF RateInv, Admitted
<1>3. /\ memory' \in [Workers -> Seq(Ages)]
      /\ \A v \in Workers \ {w} : memory'[v] = memory[v]
      /\ WindowOK(memory'[w]) /\ Len(memory'[w]) <= Limit
      /\ admitted => \A age \in 1 .. Window + 1 :
                        Count(memory'[w], age) = Count(memory[w], age) + 1
      /\ ~admitted => \A age \in 0 .. Window + 1 :
                        Count(memory'[w], age) = Count(memory[w], age)
      /\ \A age \in 0 .. Window + 1 : Count(memory'[w], age) <= Count(recent', age)
  BY <1>1, <1>2, OwnWindow
<1>4. RateTyped'
  BY <1>1, <1>3, NotedCounts DEF RateTyped
<1>5. ASSUME NEW age \in 0..Window
      PROVE  /\ Count(redis, age) <= Count(recent', age)
             /\ Count(recent', age)
                   <= Count(redis, age) + Cardinality(Columns(Alone, OnItsOwn(age)'))
                         + Limit * (opened - Cardinality(Alone))
  <2>1. /\ age \in Nat /\ age \in 0 .. Window + 1
    BY RateAssumption
  <2>2. /\ Count(recent, age) \in Nat /\ Count(redis, age) \in Nat
        /\ Cardinality(Columns(Alone, OnItsOwn(age))) \in Nat
        /\ Limit * (opened - Cardinality(Alone)) \in Nat
        /\ Count(redis, age) <= Count(recent, age)
        /\ Count(recent, age) <=
              Count(redis, age) + Cardinality(Columns(Alone, OnItsOwn(age)))
                  + Limit * (opened - Cardinality(Alone))
    BY <1>1, <2>1, RateNumbers DEF RateInv, Admitted
  <2>3. Count(recent', age) \in Nat /\ Count(recent, age) <= Count(recent', age)
    BY <1>1, <2>1, NotedCounts
  <2> DEFINE g == OnItsOwn(age)
             h == OnItsOwn(age)'
  <2>4. /\ IsFiniteSet(Alone) /\ Alone \subseteq Workers
        /\ \A v \in Workers : g[v] = Count(memory[v], age) /\ g[v] \in Nat
    <3>1. \A v \in Workers : Count(memory[v], age) \in 0..Limit
      BY <1>1, <2>1, RateNumbers
    <3>2. \A v \in Workers : g[v] = Count(memory[v], age)
      BY DEF OnItsOwn
    <3> HIDE DEF g
    <3>3. \A v \in Workers : g[v] \in Nat
      BY <3>1, <3>2, RateAssumption
    <3>4. QED
      BY <1>1, <3>2, <3>3, RateNumbers
  <2>5. \A v \in Workers : h[v] = Count(memory'[v], age)
    BY DEF OnItsOwn
  <2>6. /\ Cardinality(Columns(Alone, h)) \in Nat
    BY <2>4, ColumnsFinite
  <2>7. CASE age = 0
    <3>1. Count(recent', age) = 0
      BY <1>1, <2>7, NotedCounts
    <3>2. QED
      BY <2>2, <2>3, <2>6, <3>1
  <2>8. CASE age # 0 /\ admitted
    <3>1. age \in 1 .. Window + 1 /\ age \in Nat \ {0}
      BY <2>1, <2>8
    <3>2. Count(recent', age) = Count(recent, age) + 1
      BY <1>1, <2>8, <3>1, NotedCounts
    <3>3. h[w] = g[w] + 1 /\ \A v \in Workers \ {w} : h[v] = g[v]
      BY <1>1, <1>3, <2>4, <2>5, <2>8, <3>1
    <3>4. h[w] <= Limit
      BY <1>1, <1>4, <2>1, <2>5, Divides, EntriesOf, RateAssumption, <1>3
    <3> HIDE DEF g, h
    <3>5. \A v \in Alone : g[v] \in Nat /\ h[v] \in Nat /\ g[v] <= h[v]
      BY <1>1, <2>4, <3>3
    <3>6. Cardinality(Columns(Alone, g)) + 1 <= Cardinality(Columns(Alone, h))
      BY <2>4, <3>3, <3>4, <3>5, ColumnsAdd
    <3>7. QED
      BY <2>2, <2>3, <2>6, <3>2, <3>6 DEF g, h
  <2>9. CASE ~admitted
    <3>1. recent' = recent
      BY <1>1, <2>9, NotedCounts
    <3>2. \A v \in Workers : h[v] = g[v]
      BY <1>1, <1>3, <2>1, <2>4, <2>5, <2>9
    <3> HIDE DEF g, h
    <3>3. Columns(Alone, h) = Columns(Alone, g)
      BY <2>4, <3>2 DEF Columns
    <3>4. QED
      BY <2>2, <3>1, <3>3 DEF g, h
  <2>10. QED
    BY <2>7, <2>8, <2>9
<1>6. ASSUME NEW age \in 0 .. Window + 1, NEW v \in Workers
      PROVE  Count(memory'[v], age) <= Count(recent', age)
  <2>1. CASE v = w
    BY <1>3, <2>1
  <2>2. CASE v # w
    <3>1. memory'[v] = memory[v] /\ age \in Nat
      BY <1>3, <2>2, RateAssumption
    <3>2. /\ Count(memory[v], age) <= Count(recent, age)
          /\ Count(memory[v], age) \in Nat
          /\ Count(recent, age) \in Nat /\ Count(recent', age) \in Nat
          /\ Count(recent, age) <= Count(recent', age)
      BY <1>1, <3>1, RateNumbers, NotedCounts, RateAssumption
      DEF RateInv, Admitted
    <3>3. QED
      BY <3>1, <3>2
  <2>3. QED
    BY <2>1, <2>2
<1>7. Admitted'
  BY <1>1, <1>5, <1>6 DEF Admitted
<1>8. QED
  BY <1>4, <1>7 DEF RateInv

\* A worker that turns to its own window finds it empty, so it admits the
\* request, whether or not Redis has counted it.
LEMMA FallBackKeepsRate ==
    ASSUME RateInv, NEW w \in shared, NEW admitted \in BOOLEAN,
           FallBack(w, admitted), Noted(admitted), UNCHANGED up
    PROVE  RateInv'
<1> DEFINE window == RedisPruned(redis)
<1>1. RateTyped /\ w \in Workers /\ w \in up
  BY DEF RateInv, RateTyped
<1>2. /\ shared' = shared \ {w} /\ opened' = opened + 1
      /\ redis' \in {redis, Counted(window)}
      /\ EnforceInMemory(w, admitted)
  BY DEF FallBack
<1>3. Alone' = Alone \cup {w} /\ w \notin Alone
  BY <1>1, <1>2 DEF Alone
<1>4. /\ IsFiniteSet(Alone) /\ Alone \subseteq Workers
      /\ Cardinality(Alone) \in Nat /\ opened - Cardinality(Alone) \in Nat
  BY <1>1, RateNumbers
<1>5. IsFiniteSet(Alone') /\ Cardinality(Alone') = Cardinality(Alone) + 1
  BY <1>3, <1>4, FS_AddElement
<1>6. opened' - Cardinality(Alone') = opened - Cardinality(Alone)
  BY <1>1, <1>2, <1>4, <1>5 DEF RateTyped
<1>7. /\ memory[w] = <<>> /\ Len(memory[w]) = 0
      /\ \A age \in Nat : Count(memory[w], age) = 0
  BY <1>1, <1>3, EmptyWindow DEF RateTyped
<1>8. \A age \in 0 .. Window + 1 : Count(memory[w], age) <= Count(recent, age)
  BY <1>1 DEF RateInv, Admitted
<1>9. /\ memory' \in [Workers -> Seq(Ages)]
      /\ \A v \in Workers \ {w} : memory'[v] = memory[v]
      /\ WindowOK(memory'[w]) /\ Len(memory'[w]) <= Limit
      /\ admitted => \A age \in 1 .. Window + 1 :
                        Count(memory'[w], age) = Count(memory[w], age) + 1
      /\ \A age \in 0 .. Window + 1 : Count(memory'[w], age) <= Count(recent', age)
      /\ admitted = (Len(memory[w]) < Limit)
  BY <1>1, <1>2, <1>8, OwnWindow
<1>10. admitted
  <2>1. Len(memory[w]) < Limit
    BY <1>7, RateAssumption
  <2>2. QED
    BY <1>9, <2>1, Zenon
<1>11. /\ WindowOK(redis') /\ Len(redis') <= Limit
       /\ \A age \in 1..Window : Count(redis', age) \in {Count(redis, age),
                                                        Count(redis, age) + 1}
  <2>1. WindowOK(redis) /\ Len(redis) <= Limit /\ Window \in Nat \ {0}
    BY <1>1, RateAssumption DEF RateTyped
  <2>2. /\ WindowOK(Counted(window)) /\ Len(Counted(window)) <= Limit
        /\ HasRoom(window) => \A age \in 1..Window :
                                 Count(Counted(window), age) = Count(redis, age) + 1
        /\ ~HasRoom(window) => \A age \in 0..Window :
                                 Count(Counted(window), age) = Count(redis, age)
    BY <2>1, CountedYounger DEF RedisPruned
  <2> HIDE DEF window
  <2>3. 1..Window \subseteq 0..Window
    OBVIOUS
  <2>4. QED
    BY <1>2, <2>1, <2>2, <2>3
<1>12. RateTyped'
  <2>1. ASSUME NEW v \in Workers
        PROVE  /\ WindowOK(memory'[v]) /\ Len(memory'[v]) <= Limit
               /\ v \notin Alone' => memory'[v] = <<>>
    BY <1>1, <1>3, <1>9 DEF RateTyped
  <2>2. Cardinality(Alone') <= opened' /\ opened' \in Nat
    BY <1>1, <1>2, <1>4, <1>5 DEF RateTyped
  <2>3. shared' \subseteq up'
    BY <1>1, <1>2 DEF RateTyped
  <2>4. QED
    BY <1>1, <1>9, <1>11, <2>1, <2>2, <2>3, NotedCounts DEF RateTyped
<1>13. ASSUME NEW age \in 0..Window
       PROVE  /\ Count(redis', age) <= Count(recent', age)
              /\ Count(recent', age)
                    <= Count(redis', age) + Cardinality(Columns(Alone', OnItsOwn(age)'))
                          + Limit * (opened' - Cardinality(Alone'))
  <2>1. /\ age \in Nat /\ age \in 0 .. Window + 1
    BY RateAssumption
  <2>2. /\ Count(recent, age) \in Nat /\ Count(redis, age) \in Nat
        /\ Cardinality(Columns(Alone, OnItsOwn(age))) \in Nat
        /\ Limit * (opened - Cardinality(Alone)) \in Nat
        /\ Count(redis, age) <= Count(recent, age)
        /\ Count(recent, age) <=
              Count(redis, age) + Cardinality(Columns(Alone, OnItsOwn(age)))
                  + Limit * (opened - Cardinality(Alone))
    BY <1>1, <2>1, RateNumbers DEF RateInv, Admitted
  <2> DEFINE g == OnItsOwn(age)
             h == OnItsOwn(age)'
  <2>3. \A v \in Workers : g[v] = Count(memory[v], age) /\ g[v] \in Nat
    <3>1. \A v \in Workers : Count(memory[v], age) \in 0..Limit
      BY <1>1, <2>1, RateNumbers
    <3>2. \A v \in Workers : g[v] = Count(memory[v], age)
      BY DEF OnItsOwn
    <3> HIDE DEF g
    <3>3. QED
      BY <3>1, <3>2, RateAssumption
  <2>4. \A v \in Workers : h[v] = Count(memory'[v], age)
    BY DEF OnItsOwn
  <2>5. /\ Cardinality(Columns(Alone', h)) \in Nat
    BY <1>5, ColumnsFinite
  <2>6. CASE age = 0
    <3>1. Count(recent', 0) = 0 /\ Count(redis', 0) = 0
      BY <1>1, <1>11, NotedCounts, CountEnds
    <3>2. QED
      BY <1>6, <2>2, <2>5, <2>6, <3>1
  <2>7. CASE age # 0
    <3>1. age \in 1 .. Window + 1 /\ age \in Nat \ {0} /\ age \in 1..Window
      BY <2>1, <2>7
    <3>2. Count(recent', age) = Count(recent, age) + 1
      BY <1>1, <1>10, <3>1, NotedCounts
    <3>3. h[w] = g[w] + 1 /\ g[w] = 0 /\ \A v \in Workers \ {w} : h[v] = g[v]
      BY <1>1, <1>7, <1>9, <1>10, <2>1, <2>3, <2>4, <3>1
    <3> HIDE DEF g, h
    <3>4. \A v \in Alone' : g[v] \in Nat /\ h[v] \in Nat /\ g[v] <= h[v]
      BY <1>1, <1>3, <1>4, <2>3, <3>3
    <3>5. Cardinality(Columns(Alone', g)) + 1 <= Cardinality(Columns(Alone', h))
      BY <1>3, <1>5, <3>3, <3>4, ColumnsAdd, RateAssumption
    <3>6. Cardinality(Columns(Alone, g)) <= Cardinality(Columns(Alone', g))
      <4>1. Alone \in SUBSET Alone'
        BY <1>3
      <4>2. \A v \in Alone : g[v] \in Nat /\ g[v] \in Nat /\ g[v] <= g[v]
        BY <1>4, <2>3
      <4>3. QED
        BY <1>5, <4>1, <4>2, ColumnsGrow
    <3>7. Cardinality(Columns(Alone', g)) \in Nat
      BY <1>5, ColumnsFinite
    <3>8. Count(redis', age) \in {Count(redis, age), Count(redis, age) + 1}
      BY <1>11, <3>1
    <3>9. Limit * (opened' - Cardinality(Alone'))
             = Limit * (opened - Cardinality(Alone))
      BY <1>6
    <3>10. QED
      BY <2>2, <2>5, <3>2, <3>5, <3>6, <3>7, <3>8, <3>9 DEF g, h
  <2>8. QED
    BY <2>6, <2>7
<1>14. ASSUME NEW age \in 0 .. Window + 1, NEW v \in Workers
       PROVE  Count(memory'[v], age) <= Count(recent', age)
  <2>1. CASE v = w
    BY <1>9, <2>1
  <2>2. CASE v # w
    <3>1. memory'[v] = memory[v] /\ age \in Nat
      BY <1>9, <2>2, RateAssumption
    <3>2. /\ Count(memory[v], age) <= Count(recent, age)
          /\ Count(memory[v], age) \in Nat
          /\ Count(recent, age) \in Nat /\ Count(recent', age) \in Nat
          /\ Count(recent, age) <= Count(recent', age)
      BY <1>1, <3>1, RateNumbers, NotedCounts, RateAssumption
      DEF RateInv, Admitted
    <3>3. QED
      BY <3>1, <3>2
  <2>3. QED
    BY <2>1, <2>2
<1>15. Admitted'
  BY <1>13, <1>14 DEF Admitted
<1>16. QED
  BY <1>12, <1>15 DEF RateInv

\* A worker waits for Redis only while it counts there.
AsksInv == asking \subseteq shared

LEMMA InitAsks == Init => AsksInv
BY DEF Init, AsksInv

LEMMA StepKeepsAsks == AsksInv /\ [Next]_vars => AsksInv'
<1> SUFFICES ASSUME AsksInv, [Next]_vars PROVE AsksInv'
  OBVIOUS
<1> USE DEF AsksInv
<1>1. ASSUME NEW w, NEW admitted, EnforceRateLimit(w, admitted)
      PROVE  AsksInv'
  BY <1>1 DEF EnforceRateLimit, FallBack
<1>2. ASSUME NEW w \in Workers,
             \/ Start(w) \/ Crash(w) \/ AskRedis(w) \/ RefuseBody(w)
             \/ RefuseRate(w) \/ ReloadBegin(w) \/ Reloading(w)
      PROVE  AsksInv'
  BY <1>1, <1>2
  DEF Start, Crash, AskRedis, RefuseBody, RefuseRate, ReloadBegin, Reloading,
      ReloadFails, SetConfig, SetScorer, SetEnricher, ReloadStep, limiter
<1>3. ASSUME NEW t \in Pool, Accept(t) \/ Score(t)
      PROVE  AsksInv'
  BY <1>1, <1>3
  DEF Accept, Score, ReadScorer, CompareNames, ReadTokens, SetNames, SetTokens,
      Enrich, Raise, Respond, limiter
<1>4. CASE RedisForgets \/ Tick \/ UNCHANGED vars
  BY <1>4 DEF RedisForgets, Tick, vars, limiter
<1>5. QED
  BY <1>2, <1>3, <1>4 DEF Next

LEMMA EnforceKeepsRate ==
    ASSUME RateInv, AsksInv, NEW w \in up, NEW admitted \in BOOLEAN,
           EnforceRateLimit(w, admitted), Noted(admitted), UNCHANGED up
    PROVE  RateInv'
<1>0. w \in asking => w \in shared
  BY DEF AsksInv
<1>1. CASE w \in shared /\ EnforceInRedis(admitted)
                        /\ UNCHANGED <<shared, memory, opened>>
  BY <1>1, RedisKeepsRate
<1>2. CASE w \in shared /\ FallBack(w, admitted)
  BY <1>2, FallBackKeepsRate
<1>3. CASE w \notin shared /\ EnforceInMemory(w, admitted)
                           /\ UNCHANGED <<shared, redis, opened>>
  BY <1>3, MemoryKeepsRate DEF Alone
<1>4. QED
  BY <1>0, <1>1, <1>2, <1>3 DEF EnforceRateLimit

\* What Redis has kept of its window still bounds what it has counted from below,
\* and it held at most Limit of what was admitted.
LEMMA ForgettingKeepsRate ==
    ASSUME RateInv, RedisForgets
    PROVE  RateInv'
<1>1. PICK n \in 0 .. Len(redis) - 1 : redis' = SubSeq(redis, 1, n)
  BY DEF RedisForgets
<1>2. /\ opened' = opened + 1 /\ Alone' = Alone
      /\ UNCHANGED <<up, shared, memory, recent>>
  BY DEF RedisForgets, Alone
<1>3. RateTyped /\ WindowOK(redis) /\ Len(redis) <= Limit
  BY DEF RateInv, RateTyped
<1>4. WindowOK(redis') /\ Len(redis') = n
  BY <1>1, <1>3, PrefixCounts
<1>5. n \in Nat /\ Len(redis) \in Nat /\ Limit \in Nat
  BY <1>1, <1>3, EntriesOf, RateAssumption
<1>6. IsFiniteSet(Alone) /\ Cardinality(Alone) \in Nat /\ opened \in Nat
  BY <1>3, RateNumbers DEF RateTyped
<1>7. RateTyped'
  <2>1. Len(redis') <= Limit
    BY <1>1, <1>3, <1>4, <1>5
  <2>2. opened' \in Nat /\ Cardinality(Alone') <= opened'
    BY <1>2, <1>3, <1>6 DEF RateTyped
  <2>3. QED
    BY <1>2, <1>3, <1>4, <2>1, <2>2 DEF RateTyped
<1>8. ASSUME NEW age \in 0..Window
      PROVE  /\ Count(redis', age) <= Count(recent', age)
             /\ Count(recent', age)
                   <= Count(redis', age) + Cardinality(Columns(Alone', OnItsOwn(age)'))
                         + Limit * (opened' - Cardinality(Alone'))
  <2>1. age \in Nat
    BY RateAssumption
  <2>2. OnItsOwn(age)' = OnItsOwn(age)
    BY <1>2 DEF OnItsOwn
  <2>3. /\ Count(recent, age) \in Nat /\ Count(redis, age) \in Nat
        /\ Cardinality(Columns(Alone, OnItsOwn(age))) \in Nat
        /\ Limit * (opened - Cardinality(Alone)) \in Nat
        /\ opened - Cardinality(Alone) \in Nat
        /\ Count(redis, age) <= Count(recent, age)
        /\ Count(recent, age) <=
              Count(redis, age) + Cardinality(Columns(Alone, OnItsOwn(age)))
                  + Limit * (opened - Cardinality(Alone))
    BY <1>3, <2>1, RateNumbers DEF RateInv, Admitted
  <2>4. /\ Count(redis', age) \in Nat
        /\ Count(redis', age) <= Count(redis, age)
        /\ Count(redis, age) <= Limit
    <3>1. Count(redis, age) \in 0..Len(redis)
      BY <1>3, <2>1, Divides
    <3>2. Count(redis', age) \in 0..n
      BY <1>4, <2>1, Divides
    <3>3. Count(redis', age) <= Count(redis, age)
      BY <1>1, <1>3, <2>1, PrefixCounts
    <3>4. QED
      BY <1>3, <1>5, <3>1, <3>2, <3>3
  <2>5. Limit * (opened' - Cardinality(Alone'))
           = Limit * (opened - Cardinality(Alone)) + Limit
    <3>1. \A c \in Nat : Limit * (c + 1) = Limit * c + Limit
      BY <1>5
    <3>2. opened' - Cardinality(Alone') = (opened - Cardinality(Alone)) + 1
      BY <1>2, <1>6
    <3>3. QED
      BY <2>3, <3>1, <3>2
  <2>6. /\ Count(recent', age) = Count(recent, age)
        /\ Cardinality(Columns(Alone', OnItsOwn(age)'))
              = Cardinality(Columns(Alone, OnItsOwn(age)))
    BY <1>2, <2>2
  <2> DEFINE c == Cardinality(Columns(Alone, OnItsOwn(age)))
             d == Limit * (opened - Cardinality(Alone))
  <2>7. c \in Nat /\ d \in Nat
    BY <2>3
  <2> HIDE DEF c, d
  <2>8. Count(recent, age) <= Count(redis', age) + c + (d + Limit)
    BY <1>5, <2>3, <2>4, <2>7 DEF c, d
  <2>9. QED
    BY <2>3, <2>4, <2>5, <2>6, <2>8 DEF c, d
<1>9. \A age \in 0 .. Window + 1, w \in Workers :
          Count(memory[w], age)' <= Count(recent, age)'
  BY <1>2 DEF RateInv, Admitted
<1>10. Admitted'
  BY <1>8, <1>9 DEF Admitted
<1>11. QED
  BY <1>7, <1>10 DEF RateInv

\* A tick moves every count by one age.
LEMMA TickKeepsRate == ASSUME RateInv, Tick PROVE RateInv'
<1>1. /\ redis' = Aged(redis) /\ recent' = Aged(recent)
      /\ memory' = [w \in Workers |-> Aged(memory[w])]
      /\ UNCHANGED <<up, shared, opened>> /\ Alone' = Alone
  BY DEF Tick, Alone
<1>2. RateTyped
  BY DEF RateInv
<1>3. ASSUME NEW s, WindowOK(s), Len(s) <= Limit
      PROVE  Len(Aged(s)) <= Limit
  <2>1. WindowOK(Aged(s)) /\ Len(Aged(s)) <= Len(s)
    BY <1>3, CountAged
  <2>2. Len(s) \in Nat /\ Len(Aged(s)) \in Nat
    BY <1>3, <2>1, EntriesOf
  <2>3. QED
    BY <1>3, <2>1, <2>2, RateAssumption
<1>4. Aged(<<>>) = <<>>
  <2>1. WindowOK(Aged(<<>>)) /\ Len(Aged(<<>>)) <= 0
    BY EmptyWindow, CountAged
  <2>2. Aged(<<>>) \in Seq(Ages) /\ Len(Aged(<<>>)) = 0
    BY <2>1, EntriesOf DEF WindowOK
  <2>3. QED
    BY <2>2
<1>5. RateTyped'
  <2>1. ASSUME NEW v \in Workers
        PROVE  /\ WindowOK(memory'[v]) /\ Len(memory'[v]) <= Limit
               /\ v \notin Alone' => memory'[v] = <<>>
    <3>1. memory'[v] = Aged(memory[v]) /\ WindowOK(memory[v])
          /\ Len(memory[v]) <= Limit /\ (v \notin Alone => memory[v] = <<>>)
      BY <1>1, <1>2 DEF RateTyped
    <3>2. QED
      BY <1>1, <1>3, <1>4, <3>1, CountAged
  <2>2. memory' \in [Workers -> Seq(Ages)]
    BY <1>1, <1>2, CountAged DEF RateTyped, WindowOK
  <2>3. WindowOK(redis') /\ Len(redis') <= Limit /\ WindowOK(recent')
    BY <1>1, <1>2, <1>3, CountAged DEF RateTyped
  <2>4. QED
    BY <1>1, <1>2, <2>1, <2>2, <2>3 DEF RateTyped
<1>6. /\ \A age \in 0..Window :
            /\ Count(redis', age + 1) = Count(redis, age)
            /\ Count(recent', age + 1) = Count(recent, age)
            /\ \A w \in Workers : Count(memory'[w], age + 1) = Count(memory[w], age)
      /\ Count(redis', 0) = 0 /\ Count(recent', 0) = 0
      /\ \A w \in Workers : Count(memory'[w], 0) = 0
  <2>1. ASSUME NEW age \in 0..Window
        PROVE  /\ Count(redis', age + 1) = Count(redis, age)
               /\ Count(recent', age + 1) = Count(recent, age)
               /\ \A w \in Workers :
                     Count(memory'[w], age + 1) = Count(memory[w], age)
    <3>1. \A w \in Workers : memory'[w] = Aged(memory[w]) /\ WindowOK(memory[w])
      BY <1>1, <1>2 DEF RateTyped
    <3>2. WindowOK(redis) /\ WindowOK(recent)
      BY <1>2 DEF RateTyped
    <3>3. QED
      BY <1>1, <3>1, <3>2, CountAged
  <2>2. /\ Count(redis', 0) = 0 /\ Count(recent', 0) = 0
        /\ \A w \in Workers : Count(memory'[w], 0) = 0
    BY <1>5, CountEnds DEF RateTyped
  <2>3. QED
    BY <2>1, <2>2
<1>7. ASSUME NEW age \in 0..Window
      PROVE  /\ Count(redis', age) <= Count(recent', age)
             /\ Count(recent', age)
                   <= Count(redis', age) + Cardinality(Columns(Alone, OnItsOwn(age)'))
                         + Limit * (opened - Cardinality(Alone))
  <2>1. CASE age = 0
    <3>1. /\ Cardinality(Columns(Alone, OnItsOwn(age)')) \in Nat
          /\ Limit * (opened - Cardinality(Alone)) \in Nat
      BY <1>2, RateNumbers, ColumnsFinite
    <3>2. QED
      BY <1>6, <2>1, <3>1
  <2>2. CASE age # 0
    <3> DEFINE b == age - 1
    <3>1. b \in 0..Window /\ age = b + 1 /\ b \in Nat
      BY <2>2, RateAssumption
    <3> HIDE DEF b
    <3>2. \A w \in Workers : Count(memory'[w], age) = Count(memory[w], b)
      BY <1>6, <3>1
    <3>3. OnItsOwn(age)' = OnItsOwn(b)
      BY <3>2 DEF OnItsOwn
    <3>4. /\ Count(redis, b) <= Count(recent, b)
          /\ Count(recent, b) <=
                Count(redis, b) + Cardinality(Columns(Alone, OnItsOwn(b)))
                    + Limit * (opened - Cardinality(Alone))
      BY <3>1 DEF RateInv, Admitted
    <3>5. Count(redis', age) = Count(redis, b) /\ Count(recent', age) = Count(recent, b)
      BY <1>6, <3>1
    <3>6. QED
      BY <3>3, <3>4, <3>5
  <2>3. QED
    BY <2>1, <2>2
<1>8. ASSUME NEW age \in 0 .. Window + 1, NEW v \in Workers
      PROVE  Count(memory'[v], age) <= Count(recent', age)
  <2>1. CASE age = 0
    BY <1>6, <2>1
  <2>2. CASE age # 0
    <3> DEFINE b == age - 1
    <3>1. b \in 0..Window /\ age = b + 1 /\ b \in 0 .. Window + 1
      BY <2>2, RateAssumption
    <3> HIDE DEF b
    <3>2. Count(memory[v], b) <= Count(recent, b)
      BY <3>1 DEF RateInv, Admitted
    <3>3. QED
      BY <1>6, <3>1, <3>2
  <2>3. QED
    BY <2>1, <2>2
<1>9. Admitted'
  BY <1>1, <1>7, <1>8 DEF Admitted
<1>10. QED
  BY <1>5, <1>9 DEF RateInv

LEMMA StepKeepsRate == RateInv /\ AsksInv /\ [Next]_vars => RateInv'
<1> SUFFICES ASSUME RateInv, AsksInv, [Next]_vars PROVE RateInv'
  OBVIOUS
<1>1. ASSUME NEW w \in Workers, RefuseBody(w)
      PROVE  RateInv'
  BY <1>1, EnforceKeepsRate DEF RefuseBody, Loop, Admit, Noted
<1>2. ASSUME NEW w \in Workers, RefuseRate(w)
      PROVE  RateInv'
  BY <1>2, EnforceKeepsRate DEF RefuseRate, Loop, Noted
<1>3. ASSUME NEW t \in Pool, Accept(t)
      PROVE  RateInv'
  BY <1>3, EnforceKeepsRate DEF Accept, Loop, Admit, Noted
<1>4. ASSUME UNCHANGED <<up, shared, redis, memory, opened, recent>>
      PROVE  RateInv'
  <2>1. Alone' = Alone
    BY <1>4 DEF Alone
  <2>2. QED
    BY <1>4, <2>1 DEF RateInv, RateTyped, Admitted, OnItsOwn
<1>5. ASSUME NEW w \in Workers, AskRedis(w) \/ ReloadBegin(w) \/ Reloading(w)
      PROVE  RateInv'
  BY <1>4, <1>5
  DEF AskRedis, ReloadBegin, Reloading, ReloadFails, SetConfig, SetScorer, SetEnricher,
      ReloadStep, limiter
<1>6. ASSUME NEW t \in Pool, Score(t)
      PROVE  RateInv'
  BY <1>4, <1>6
  DEF Score, ReadScorer, CompareNames, ReadTokens, SetNames, SetTokens, Enrich,
      Raise, Respond, limiter
<1>7. CASE UNCHANGED vars
  BY <1>4, <1>7 DEF vars, limiter
<1>8. QED
  BY <1>1, <1>2, <1>3, <1>5, <1>6, <1>7, StartKeepsRate, CrashKeepsRate,
     ForgettingKeepsRate, TickKeepsRate
  DEF Next

\* However many workers there are, and however they crash and Redis raises or
\* loses what it has counted, no minute sees more admitted requests than one
\* window for all, one for each time a worker began its own and one for each
\* such loss; and who is refused had a full window admitted.
THEOREM RateIsBounded == Spec => []RateBounded
<1>1. RateInv => RateBounded
  <2> SUFFICES ASSUME RateInv PROVE RateBounded
    OBVIOUS
  <2>1. RateTyped /\ Window \in Nat
    BY RateAssumption DEF RateInv
  <2>2. Cardinality(LastMinute) = Count(recent, Window)
    <3> DEFINE k == FirstYounger(recent, Window)
    <3>1. /\ k \in 1 .. Len(recent) + 1
          /\ \A i \in 1..Len(recent) : i < k <=> Window <= recent[i]
      BY <2>1, Divides DEF RateTyped
    <3>2. /\ Len(recent) \in Nat /\ recent = [i \in 1..Len(recent) |-> recent[i]]
          /\ \A i \in 1..Len(recent) : recent[i] \in Nat
      BY <2>1, EntriesOf DEF RateTyped
    <3>3. DOMAIN recent = 1..Len(recent)
      BY <2>1 DEF RateTyped, WindowOK
    <3> HIDE DEF k
    <3>4. LastMinute = k..Len(recent)
      BY <2>1, <3>1, <3>2, <3>3 DEF LastMinute
    <3>5. Cardinality(k..Len(recent)) = Len(recent) + 1 - k
      BY <3>1, <3>2, FS_Interval
    <3>6. QED
      BY <3>4, <3>5 DEF Count, k
  <2>3. /\ Count(redis, Window) <= Count(recent, Window)
        /\ Count(recent, Window) <=
              Count(redis, Window) + Cardinality(Columns(Alone, OnItsOwn(Window)))
                  + Limit * (opened - Cardinality(Alone))
    BY <2>1 DEF RateInv, Admitted
  <2>4. /\ Count(recent, Window) \in Nat /\ Count(redis, Window) \in Nat
        /\ Cardinality(Alone) \in Nat /\ opened - Cardinality(Alone) \in Nat
        /\ Cardinality(Columns(Alone, OnItsOwn(Window))) \in Nat
        /\ Limit * (opened - Cardinality(Alone)) \in Nat
    BY <2>1, RateNumbers
  <2>5. Cardinality(Columns(Alone, OnItsOwn(Window))) <= Limit * Cardinality(Alone)
    BY <2>1, RateNumbers, ColumnsFinite
  <2>6. Count(redis, Window) <= Limit
    <3>1. WindowOK(redis) /\ Len(redis) <= Limit
      BY <2>1 DEF RateTyped
    <3>2. Count(redis, Window) \in 0..Len(redis) /\ Len(redis) \in Nat
      BY <2>1, <3>1, Divides, EntriesOf
    <3>3. QED
      BY <3>1, <3>2, RateAssumption
  <2>7. Limit * (opened + 1)
           = Limit + Limit * Cardinality(Alone)
                + Limit * (opened - Cardinality(Alone))
    <3>1. opened \in Nat /\ Limit \in Nat
      BY <2>1, RateAssumption DEF RateTyped
    <3>2. \A c, d \in Nat : Limit * (c + d + 1) = Limit + Limit * c + Limit * d
      BY <3>1
    <3>3. opened + 1 = Cardinality(Alone) + (opened - Cardinality(Alone)) + 1
      BY <2>4, <3>1
    <3>4. QED
      BY <2>4, <3>2, <3>3
  <2>8. Limit * Cardinality(Alone) \in Nat /\ Limit \in Nat
    BY <2>4, RateAssumption
  <2>9. Cardinality(LastMinute) <= Limit * (opened + 1)
    BY <2>2, <2>3, <2>4, <2>5, <2>6, <2>7, <2>8
  <2>10. ASSUME ~HasRoom(RedisPruned(redis))
         PROVE  Cardinality(LastMinute) >= Limit
    <3>1. Len(RedisPruned(redis)) = Count(redis, Window)
      BY <2>1, CountYounger DEF RateTyped, RedisPruned
    <3>2. QED
      BY <2>2, <2>3, <2>4, <2>8, <2>10, <3>1 DEF HasRoom
  <2>11. ASSUME NEW w \in Workers, ~HasRoom(MemoryPruned(memory[w]))
         PROVE  Len(recent) >= Limit
    <3>1. WindowOK(memory[w]) /\ WindowOK(recent) /\ Window + 1 \in Nat
      BY <2>1 DEF RateTyped
    <3>2. Len(MemoryPruned(memory[w])) = Count(memory[w], Window + 1)
      BY <3>1, CountYounger DEF MemoryPruned
    <3>3. Count(memory[w], Window + 1) <= Count(recent, Window + 1)
      BY <2>1 DEF RateInv, Admitted
    <3>4. /\ Count(recent, Window + 1) = Len(recent) /\ Len(recent) \in Nat
          /\ Count(memory[w], Window + 1) \in 0..Len(memory[w])
      BY <3>1, CountEnds, EntriesOf, Divides
    <3>5. QED
      BY <2>8, <2>11, <3>2, <3>3, <3>4 DEF HasRoom
  <2>12. QED
    BY <2>9, <2>10, <2>11 DEF RateBounded
<1>2. QED
  BY <1>1, InitRate, StepKeepsRate, InitAsks, StepKeepsAsks, PTL DEF Spec
-----------------------------------------------------------------------------
(* Types. *)

\* A table has tokens only of scorers that it has names of, and a thread that
\* has assigned the names of its scorer is between the two assignments.
TableTyped ==
    /\ filled \subseteq named /\ named \subseteq Workers \X Generations
    /\ \A t \in Pool : pc[t] = "named" => Own(t) \in named
    /\ faults \in 0..MaxFaults

LEMMA InitTyped == Init => TableTyped
BY ApiAssumption DEF Init, TableTyped

\* Only a fall back from Redis is a fault of admission.
LEMMA EnforceTyped ==
    ASSUME faults \in 0..MaxFaults, NEW w, NEW admitted,
           EnforceRateLimit(w, admitted)
    PROVE  faults' \in 0..MaxFaults
<1>1. CASE FallBack(w, admitted)
  BY <1>1, ApiAssumption DEF FallBack, Fault
<1>2. CASE UNCHANGED faults
  BY <1>2
<1>3. QED
  BY <1>1, <1>2 DEF EnforceRateLimit

LEMMA WorkerTyped ==
    ASSUME TableTyped, ReloadTyped, NEW w \in Workers,
           \/ Start(w) \/ Crash(w) \/ AskRedis(w) \/ RefuseBody(w)
           \/ RefuseRate(w) \/ ReloadBegin(w) \/ Reloading(w)
    PROVE  TableTyped'
<1> USE ApiAssumption DEF TableTyped, Fault, Own
<1>1. CASE Start(w) \/ AskRedis(w)
  BY <1>1 DEF Start, AskRedis, table, request
<1>2. CASE Crash(w)
  BY <1>2 DEF Crash, ThreadsOf, ReloadTyped
<1>3. CASE RefuseBody(w)
  BY <1>3, EnforceTyped DEF RefuseBody, table, request
<1>4. CASE RefuseRate(w)
  BY <1>4, EnforceTyped DEF RefuseRate, table, request
<1>5. CASE ReloadBegin(w) \/ Reloading(w)
  BY <1>5
  DEF ReloadBegin, Reloading, ReloadFails, SetConfig, SetScorer, SetEnricher,
      ReloadStep, table, request
<1>6. QED
  BY <1>1, <1>2, <1>3, <1>4, <1>5

LEMMA RequestTyped ==
    ASSUME TableTyped, ReloadTyped, NEW t \in Pool, Accept(t) \/ Score(t)
    PROVE  TableTyped'
<1> USE ApiAssumption, WorkerOf DEF TableTyped, ReloadTyped, Put, Step, table, Own
<1>1. CASE Accept(t)
  BY <1>1, EnforceTyped DEF Accept
<1>2. CASE ReadScorer(t)
  BY <1>2 DEF ReadScorer
<1>3. CASE CompareNames(t)
  BY <1>3 DEF CompareNames
<1>4. CASE ReadTokens(t)
  BY <1>4 DEF ReadTokens
<1>5. CASE SetNames(t)
  BY <1>5 DEF SetNames
<1>6. CASE SetTokens(t)
  BY <1>6 DEF SetTokens
<1>7. CASE Enrich(t)
  BY <1>7 DEF Enrich
<1>8. CASE Raise(t)
  BY <1>8 DEF Raise
<1>9. CASE Respond(t)
  BY <1>9 DEF Respond
<1>10. QED
  BY <1>1, <1>2, <1>3, <1>4, <1>5, <1>6, <1>7, <1>8, <1>9 DEF Score

LEMMA StepTyped == TableTyped /\ ReloadTyped /\ [Next]_vars => TableTyped'
<1> SUFFICES ASSUME TableTyped, ReloadTyped, [Next]_vars PROVE TableTyped'
  OBVIOUS
<1>1. CASE RedisForgets \/ Tick \/ UNCHANGED vars
  BY <1>1, ApiAssumption
  DEF RedisForgets, Fault, Tick, vars, table, request, TableTyped, Own
<1>2. QED
  BY <1>1, WorkerTyped, RequestTyped DEF Next

\* The windows stay within the limit, the reloads within their range, and the
\* tables belong to scorers that exist.
THEOREM ApiTypeCorrect == Spec => []TypeOK
<1>1. ReloadInv /\ RateInv /\ AsksInv /\ TableTyped => TypeOK
  BY DEF ReloadInv, ReloadTyped, RateInv, RateTyped, WindowOK, AsksInv,
         TableTyped, TypeOK
<1>2. ReloadInv => ReloadTyped
  BY DEF ReloadInv
<1>3. QED
  BY <1>1, <1>2, InitReload, StepKeepsReload, InitRate, StepKeepsRate, InitAsks,
     StepKeepsAsks, InitTyped, StepTyped, PTL
  DEF Spec
=============================================================================
