---------------------------- MODULE BreakerState ----------------------------
(***************************************************************************)
(* The state a CircuitBreaker guards with its lock, and what each of its   *)
(* locked sections does to it (src/logfilter/utils/circuit_breaker.py).    *)
(*                                                                         *)
(* The breaker is a record b.  Its field "elapsed" stands for the code's   *)
(* _last_failure_time: it is the number of clock ticks since that time,    *)
(* saturated at RecoveryTimeout, because the code only ever compares the   *)
(* difference with recovery_timeout.                                       *)
(***************************************************************************)
EXTENDS Integers

CONSTANTS FailureThreshold,   (* failure_threshold                         *)
          RecoveryTimeout,    (* recovery_timeout, in clock ticks          *)
          HalfOpenMaxCalls    (* half_open_max_calls                       *)

\* Every breaker the program builds has positive thresholds (5, 30 s, 3).
ASSUME BreakerAssumption ==
    /\ FailureThreshold \in Nat \ {0}
    /\ RecoveryTimeout \in Nat
    /\ HalfOpenMaxCalls \in Nat \ {0}

BreakerStates == {"CLOSED", "OPEN", "HALF_OPEN"}

Breaker == [state : BreakerStates,
            failure_count : Nat,
            success_count : Nat,
            elapsed : 0..RecoveryTimeout]

NewBreaker == [state |-> "CLOSED",
               failure_count |-> 0,
               success_count |-> 0,
               elapsed |-> RecoveryTimeout]
-----------------------------------------------------------------------------
Opened == [state |-> "OPEN",
           failure_count |-> 0,
           success_count |-> 0,
           elapsed |-> 0]

Closed(b) == [b EXCEPT !.state = "CLOSED",
                       !.failure_count = 0,
                       !.success_count = 0]

HalfOpened(b) == [b EXCEPT !.state = "HALF_OPEN",
                           !.success_count = 0]

ShouldAttemptReset(b) == b.elapsed >= RecoveryTimeout

(***************************************************************************)
(* Entry of _protect(): the breaker after the locked section, and whether  *)
(* the body runs (otherwise CircuitBreakerOpen is raised).                 *)
(***************************************************************************)
Entered(b) ==
    IF b.state = "OPEN" /\ ShouldAttemptReset(b) THEN HalfOpened(b) ELSE b

Admits(b) ==
    /\ Entered(b).state # "OPEN"
    /\ Entered(b).state = "HALF_OPEN" =>
           Entered(b).success_count < HalfOpenMaxCalls

(***************************************************************************)
(* The two other locked sections: an expected exception, a normal return.  *)
(***************************************************************************)
Counted(b) == [b EXCEPT !.failure_count = @ + 1, !.elapsed = 0]

\* Mutated form: a failed probe is counted like a failure while CLOSED.
AfterFailureNoReopen(b) ==
    IF Counted(b).failure_count >= FailureThreshold THEN Opened ELSE Counted(b)

\* Mutated form: one failure too many before opening.
AfterFailureOffByOne(b) ==
    IF b.state = "HALF_OPEN" \/ Counted(b).failure_count > FailureThreshold
    THEN Opened ELSE Counted(b)

AfterFailure(b) ==
    IF b.state = "HALF_OPEN" \/ Counted(b).failure_count >= FailureThreshold
    THEN Opened
    ELSE Counted(b)

\* Mutated form: the quota of probes is reached and nothing closes.
AfterSuccessStuck(b) ==
    CASE b.state = "HALF_OPEN" -> [b EXCEPT !.success_count = @ + 1]
      [] b.state = "CLOSED" -> [b EXCEPT !.failure_count = 0]
      [] OTHER -> b

\* Mutated form: the first successful probe closes.
AfterSuccessEager(b) ==
    CASE b.state = "HALF_OPEN" -> Closed(b)
      [] b.state = "CLOSED" -> [b EXCEPT !.failure_count = 0]
      [] OTHER -> b

AfterSuccess(b) ==
    CASE b.state = "HALF_OPEN" /\ b.success_count + 1 >= HalfOpenMaxCalls ->
             Closed(b)
      [] b.state = "HALF_OPEN" /\ b.success_count + 1 < HalfOpenMaxCalls ->
             [b EXCEPT !.success_count = @ + 1]
      [] b.state = "CLOSED" /\ b.failure_count > 0 ->
             [b EXCEPT !.failure_count = @ - 1]
      [] OTHER -> b

\* One tick of time.monotonic().
Aged(b) == IF b.elapsed < RecoveryTimeout
           THEN [b EXCEPT !.elapsed = @ + 1] ELSE b
=============================================================================
