----------------------------- MODULE RateWindow -----------------------------
(***************************************************************************)
(* The sliding windows of src/logfilter/api/security.py for one client:    *)
(* the deque of InMemoryRateLimiter and the sorted set of the Redis script *)
(* _REDIS_RATE_LIMIT_LUA.  A window is the sequence of the ages of the     *)
(* requests it has counted, oldest first; one that is older than Window is *)
(* forgotten at once, since enforce would drop it before counting.         *)
(***************************************************************************)
EXTENDS Naturals, Sequences, FiniteSetsExt

CONSTANTS Limit,              (* rate_limit_per_minute                     *)
          Window              (* ticks in 60 seconds                       *)

ASSUME RateAssumption ==
    /\ Limit \in Nat \ {0}
    /\ Window \in Nat \ {0}

Ages == 0..Window

\* The first entry younger than age, or the end if none is.
FirstYounger(window, age) ==
    Min({i \in 1..Len(window) + 1 :
            i = Len(window) + 1 \/ window[i] < age})

\* The oldest entries go until the first is younger than age: popleft in
\* memory, the lowest scores in Redis.
Younger(window, age) ==
    SubSeq(window, FirstYounger(window, age), Len(window))

\* Lines 44-46: the in-memory window keeps a request exactly Window old, which
\* is the oldest there is.
MemoryPruned(window) == Younger(window, Window + 1)

\* Lines 64-65: the script drops it.
RedisPruned(window) == Younger(window, Window)

\* Lines 47 and 67: enforce counts the request only when there is room.
HasRoom(window) == Len(window) < Limit

\* Mutated form: a request that is refused counts too.
CountedAlways(window) == Append(window, 0)

Counted(window) == IF HasRoom(window) THEN Append(window, 0) ELSE window

\* A tick later.
Aged(window) ==
    LET kept == Younger(window, Window)
    IN  [i \in DOMAIN kept |-> kept[i] + 1]
=============================================================================
