--------------------------- MODULE CircuitBreaker ---------------------------
(***************************************************************************)
(* CircuitBreaker shared by several threads.  A call is three steps: the   *)
(* locked entry of _protect(), the body (the lock is NOT held), and the    *)
(* locked section that records the outcome.  So the outcome of a call may  *)
(* be recorded long after the state it was admitted in has gone.           *)
(***************************************************************************)
EXTENDS BreakerState

CONSTANT Callers              (* threads that share the breaker            *)

VARIABLES breaker,            (* the state under CircuitBreaker._lock      *)
          calls,              (* how far each thread is in _protect()      *)
          service_up,         (* environment: does the service answer?     *)
          fail_streak,        (* history: failures recorded since the last
                                 recorded success, up to FailureThreshold  *)
          ok_streak           (* history: successes recorded since the last
                                 failure or half-opening, up to
                                 HalfOpenMaxCalls                          *)

breaker_vars == <<breaker, calls, service_up, fail_streak, ok_streak>>

CallStates == {"idle", "rejected", "running", "returned", "raised", "escaped"}

AtMost(n, limit) == IF n < limit THEN n ELSE limit

BreakerInit ==
    /\ breaker = NewBreaker
    /\ calls = [c \in Callers |-> "idle"]
    /\ service_up \in BOOLEAN
    /\ fail_streak = 0
    /\ ok_streak = 0
-----------------------------------------------------------------------------
(* The threads. *)

Move(c, to) == calls' = [calls EXCEPT ![c] = to]

\* Lines 116-124: under the lock, decide whether the body may run.
Enter(c) ==
    /\ calls[c] = "idle"
    /\ breaker' = Entered(breaker)
    /\ Move(c, IF Admits(breaker) THEN "running" ELSE "rejected")
    /\ ok_streak' = IF breaker.state = "OPEN" /\ breaker'.state = "HALF_OPEN"
                    THEN 0 ELSE ok_streak
    /\ UNCHANGED <<service_up, fail_streak>>

\* CircuitBreakerOpen reaches the caller, who will call again.
Rejected(c) ==
    /\ calls[c] = "rejected"
    /\ Move(c, "idle")
    /\ UNCHANGED <<breaker, service_up, fail_streak, ok_streak>>

\* The body, outside the lock: it returns, raises an expected exception, or
\* raises an exception that is not in expected_exception.
RunBody(c) ==
    /\ calls[c] = "running"
    /\ \E outcome \in IF service_up THEN {"returned"}
                      ELSE {"returned", "raised", "escaped"} : Move(c, outcome)
    /\ UNCHANGED <<breaker, service_up, fail_streak, ok_streak>>

\* Lines 128-136.
RecordFailure(c) ==
    /\ calls[c] = "raised"
    /\ Move(c, "idle")
    /\ breaker' = AfterFailure(breaker)
    /\ fail_streak' = AtMost(fail_streak + 1, FailureThreshold)
    /\ ok_streak' = 0
    /\ UNCHANGED service_up

\* Lines 137-144.
RecordSuccess(c) ==
    /\ calls[c] = "returned"
    /\ Move(c, "idle")
    /\ breaker' = AfterSuccess(breaker)
    /\ fail_streak' = 0
    /\ ok_streak' = AtMost(ok_streak + 1, HalfOpenMaxCalls)
    /\ UNCHANGED service_up

\* An unexpected exception passes through _protect() unrecorded.
Escape(c) ==
    /\ calls[c] = "escaped"
    /\ Move(c, "idle")
    /\ UNCHANGED <<breaker, service_up, fail_streak, ok_streak>>

Thread(c) == \/ Enter(c)         \/ Rejected(c)      \/ RunBody(c)
             \/ RecordFailure(c) \/ RecordSuccess(c) \/ Escape(c)
-----------------------------------------------------------------------------
(* The environment. *)

ClockTick ==
    /\ breaker.elapsed < RecoveryTimeout
    /\ breaker' = Aged(breaker)
    /\ UNCHANGED <<calls, service_up, fail_streak, ok_streak>>

Flip ==
    /\ service_up' = ~service_up
    /\ UNCHANGED <<breaker, calls, fail_streak, ok_streak>>

BreakerNext == ClockTick \/ Flip \/ \E c \in Callers : Thread(c)

BreakerSpec == BreakerInit /\ [][BreakerNext]_breaker_vars

\* The clock advances, and every thread keeps calling and is scheduled.
BreakerFairness ==
    /\ WF_breaker_vars(ClockTick)
    /\ \A c \in Callers : WF_breaker_vars(Thread(c))

FairBreakerSpec == BreakerSpec /\ BreakerFairness
-----------------------------------------------------------------------------
(* Properties. *)

BreakerTypeOK ==
    /\ breaker \in Breaker
    /\ calls \in [Callers -> CallStates]
    /\ service_up \in BOOLEAN
    /\ fail_streak \in 0..FailureThreshold
    /\ ok_streak \in 0..HalfOpenMaxCalls

\* FailureThreshold failures recorded in a row, whatever calls they belong to
\* and whatever state each was admitted in, never leave the breaker CLOSED.
StreakTrips == fail_streak = FailureThreshold => breaker.state # "CLOSED"

\* While the breaker probes, the last recorded failure, a late one of a call
\* admitted before it opened included, is at least recovery_timeout old.
ProbesAfterQuiet ==
    breaker.state = "HALF_OPEN" => breaker.elapsed = RecoveryTimeout

\* The breaker closes again only after half_open_max_calls successes recorded
\* since it started probing with no failure recorded among them.
ClosesOnEvidence ==
    [][breaker.state # "CLOSED" /\ breaker'.state = "CLOSED"
         => /\ breaker.state = "HALF_OPEN"
            /\ ok_streak' = HalfOpenMaxCalls]_breaker_vars

\* The strengthening the proofs use: the counters stay below the limits that
\* would have moved the state, and agree with the recorded history.
BreakerInv ==
    /\ breaker.failure_count < FailureThreshold
    /\ breaker.success_count < HalfOpenMaxCalls
    /\ breaker.state = "HALF_OPEN" => breaker.success_count = ok_streak
    /\ breaker.state # "HALF_OPEN" => breaker.success_count = 0
    /\ breaker.state = "CLOSED" => fail_streak <= breaker.failure_count
    /\ ProbesAfterQuiet

\* Once the service stays up the breaker closes and stays closed, late
\* failures of older calls notwithstanding.
Recovers == <>[]service_up => <>[](breaker.state = "CLOSED")
=============================================================================
