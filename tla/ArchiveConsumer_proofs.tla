----------------------- MODULE ArchiveConsumer_proofs -----------------------
(***************************************************************************)
(* The circuit breaker, and the archive consumer that calls Elasticsearch  *)
(* through one.  For any number of threads and any thresholds: the breaker *)
(* is typed, its counters agree with what was recorded, a streak of        *)
(* failures opens it, it probes only after a quiet recovery_timeout, and   *)
(* it closes only on half_open_max_calls successes.  With a DLQ producer   *)
(* the archive consumer loses no record, for every log length, batch size, *)
(* breaker and number of faults, and implements the at-least-once consumer *)
(* group.                                                                  *)
(***************************************************************************)
EXTENDS ArchiveConsumer, CircuitBreaker, TLAPS
-----------------------------------------------------------------------------
(* The circuit breaker. *)

\* The breaker stays well formed through a whole call.
LEMMA BreakerTyped ==
    ASSUME NEW b \in Breaker
    PROVE  /\ NewBreaker \in Breaker
           /\ Entered(b) \in Breaker
           /\ AfterFailure(b) \in Breaker
           /\ AfterSuccess(b) \in Breaker
           /\ Aged(b) \in Breaker
<1> USE BreakerAssumption
<1>1. NewBreaker \in Breaker
  BY DEF Breaker, BreakerStates, NewBreaker
<1>2. Entered(b) \in Breaker
  BY DEF Breaker, BreakerStates, Entered, HalfOpened
<1>3. AfterFailure(b) \in Breaker
  <2>1. 0 \in 0..RecoveryTimeout /\ b.failure_count + 1 \in Nat
    BY DEF Breaker
  <2>2. Counted(b) \in Breaker
    BY <2>1 DEF Breaker, Counted
  <2>3. Opened \in Breaker
    BY DEF Breaker, BreakerStates, Opened
  <2>4. QED
    BY <2>2, <2>3 DEF AfterFailure
<1>4. AfterSuccess(b) \in Breaker
  <2>1. Closed(b) \in Breaker
    BY DEF Breaker, BreakerStates, Closed
  <2>2. [b EXCEPT !.success_count = @ + 1] \in Breaker
    BY DEF Breaker
  <2>3. b.state = "CLOSED" /\ b.failure_count > 0
          => [b EXCEPT !.failure_count = @ - 1] \in Breaker
    BY DEF Breaker
  <2>4. QED
    BY <2>1, <2>2, <2>3 DEF AfterSuccess
<1>5. Aged(b) \in Breaker
  BY DEF Breaker, BreakerStates, Aged
<1>6. QED
  BY <1>1, <1>2, <1>3, <1>4, <1>5

\* Saturated counting stays in range.
LEMMA AtMostTyped ==
    ASSUME NEW limit \in Nat, NEW n \in 0..limit
    PROVE  AtMost(n + 1, limit) \in 0..limit
BY DEF AtMost

\* Every reachable state has the types of BreakerTypeOK.
THEOREM TypeCorrect == BreakerSpec => []BreakerTypeOK
<1> USE BreakerAssumption
<1>1. BreakerInit => BreakerTypeOK
  BY DEF BreakerInit, BreakerTypeOK, NewBreaker, Breaker, BreakerStates, CallStates
<1>2. BreakerTypeOK /\ [BreakerNext]_breaker_vars => BreakerTypeOK'
  <2> SUFFICES ASSUME BreakerTypeOK, [BreakerNext]_breaker_vars
               PROVE  BreakerTypeOK'
    OBVIOUS
  <2> USE DEF BreakerTypeOK, CallStates, Move
  <2>1. CASE ClockTick
    BY <2>1, BreakerTyped DEF ClockTick
  <2>2. CASE Flip
    BY <2>2 DEF Flip
  <2>3. ASSUME NEW c \in Callers, Enter(c)
        PROVE  BreakerTypeOK'
    BY <2>3, BreakerTyped DEF Enter
  <2>4. ASSUME NEW c \in Callers, Rejected(c)
        PROVE  BreakerTypeOK'
    BY <2>4 DEF Rejected
  <2>5. ASSUME NEW c \in Callers, RunBody(c)
        PROVE  BreakerTypeOK'
    BY <2>5 DEF RunBody
  <2>6. ASSUME NEW c \in Callers, RecordFailure(c)
        PROVE  BreakerTypeOK'
    BY <2>6, BreakerTyped, AtMostTyped DEF RecordFailure
  <2>7. ASSUME NEW c \in Callers, RecordSuccess(c)
        PROVE  BreakerTypeOK'
    BY <2>7, BreakerTyped, AtMostTyped DEF RecordSuccess
  <2>8. ASSUME NEW c \in Callers, Escape(c)
        PROVE  BreakerTypeOK'
    BY <2>8 DEF Escape
  <2>9. CASE UNCHANGED breaker_vars
    BY <2>9 DEF breaker_vars
  <2>10. QED
    BY <2>1, <2>2, <2>3, <2>4, <2>5, <2>6, <2>7, <2>8, <2>9 DEF BreakerNext, Thread
<1>3. QED
  BY <1>1, <1>2, PTL DEF BreakerSpec

\* The counters agree with the recorded history in every reachable state.
THEOREM BreakerInvariant == BreakerSpec => []BreakerInv
<1> USE BreakerAssumption
<1>1. BreakerInit => BreakerInv
  BY DEF BreakerInit, BreakerInv, ProbesAfterQuiet, NewBreaker
<1>2. BreakerTypeOK /\ BreakerInv /\ [BreakerNext]_breaker_vars => BreakerInv'
  <2> SUFFICES ASSUME BreakerTypeOK, BreakerInv, [BreakerNext]_breaker_vars
               PROVE  BreakerInv'
    OBVIOUS
  <2> USE DEF BreakerTypeOK, Breaker, BreakerStates, BreakerInv, ProbesAfterQuiet
  <2>1. CASE ClockTick
    BY <2>1 DEF ClockTick, Aged
  <2>2. CASE Flip
    BY <2>2 DEF Flip
  <2>3. ASSUME NEW c \in Callers, Enter(c)
        PROVE  BreakerInv'
    BY <2>3 DEF Enter, Entered, HalfOpened, ShouldAttemptReset
  <2>4. ASSUME NEW c \in Callers, Rejected(c)
        PROVE  BreakerInv'
    BY <2>4 DEF Rejected
  <2>5. ASSUME NEW c \in Callers, RunBody(c)
        PROVE  BreakerInv'
    BY <2>5 DEF RunBody
  <2>6. ASSUME NEW c \in Callers, RecordFailure(c)
        PROVE  BreakerInv'
    <3>1. CASE AfterFailure(breaker) = Opened
      BY <2>6, <3>1 DEF RecordFailure, Opened
    <3>2. CASE AfterFailure(breaker) # Opened
      BY <2>6, <3>2 DEF RecordFailure, AfterFailure, Counted, AtMost
    <3>3. QED
      BY <3>1, <3>2
  <2>7. ASSUME NEW c \in Callers, RecordSuccess(c)
        PROVE  BreakerInv'
    <3>1. CASE breaker.state = "HALF_OPEN"
      BY <2>7, <3>1 DEF RecordSuccess, AfterSuccess, Closed, AtMost
    <3>2. CASE breaker.state # "HALF_OPEN"
      BY <2>7, <3>2 DEF RecordSuccess, AfterSuccess, AtMost
    <3>3. QED
      BY <3>1, <3>2
  <2>8. ASSUME NEW c \in Callers, Escape(c)
        PROVE  BreakerInv'
    BY <2>8 DEF Escape
  <2>9. CASE UNCHANGED breaker_vars
    BY <2>9 DEF breaker_vars
  <2>10. QED
    BY <2>1, <2>2, <2>3, <2>4, <2>5, <2>6, <2>7, <2>8, <2>9 DEF BreakerNext, Thread
<1>3. QED
  BY <1>1, <1>2, TypeCorrect, PTL DEF BreakerSpec

\* FailureThreshold recorded failures in a row never leave the breaker CLOSED.
THEOREM StreakTripsBreaker == BreakerSpec => []StreakTrips
<1>1. BreakerTypeOK /\ BreakerInv => StreakTrips
  BY BreakerAssumption
  DEF BreakerTypeOK, Breaker, BreakerStates, BreakerInv, StreakTrips
<1>2. QED
  BY <1>1, TypeCorrect, BreakerInvariant, PTL

\* The breaker is HALF_OPEN only when no failure was recorded for
\* recovery_timeout.
THEOREM ProbingIsQuiet == BreakerSpec => []ProbesAfterQuiet
<1>1. BreakerInv => ProbesAfterQuiet
  BY DEF BreakerInv
<1>2. QED
  BY <1>1, BreakerInvariant, PTL

\* The breaker leaves its open states for CLOSED only on half_open_max_calls
\* successes recorded since it began to probe.
THEOREM ClosingNeedsEvidence == BreakerSpec => ClosesOnEvidence
<1> DEFINE Evidence ==
        breaker.state # "CLOSED" /\ breaker'.state = "CLOSED"
          => /\ breaker.state = "HALF_OPEN"
             /\ ok_streak' = HalfOpenMaxCalls
<1> USE BreakerAssumption
<1>1. BreakerTypeOK /\ BreakerInv /\ [BreakerNext]_breaker_vars => [Evidence]_breaker_vars
  <2> SUFFICES ASSUME BreakerTypeOK, BreakerInv, BreakerNext
               PROVE  Evidence
    BY DEF breaker_vars
  <2> USE DEF BreakerTypeOK, Breaker, BreakerStates, BreakerInv
  <2>1. CASE ClockTick
    BY <2>1 DEF ClockTick, Aged
  <2>2. CASE Flip
    BY <2>2 DEF Flip
  <2>3. ASSUME NEW c \in Callers, Enter(c)
        PROVE  Evidence
    BY <2>3 DEF Enter, Entered, HalfOpened
  <2>4. ASSUME NEW c \in Callers, RecordFailure(c)
        PROVE  Evidence
    BY <2>4 DEF RecordFailure, AfterFailure, Counted, Opened
  <2>5. ASSUME NEW c \in Callers, RecordSuccess(c)
        PROVE  Evidence
    BY <2>5 DEF RecordSuccess, AfterSuccess, Closed, AtMost
  <2>6. ASSUME NEW c \in Callers, Rejected(c) \/ RunBody(c) \/ Escape(c)
        PROVE  Evidence
    BY <2>6 DEF Rejected, RunBody, Escape
  <2>7. QED
    BY <2>1, <2>2, <2>3, <2>4, <2>5, <2>6 DEF BreakerNext, Thread
<1>2. QED
  BY <1>1, TypeCorrect, BreakerInvariant, PTL DEF BreakerSpec, ClosesOnEvidence
-----------------------------------------------------------------------------
(* The archive consumer. *)

\* Typing and the control invariant go together: the range of next depends on
\* where the batch in hand begins and ends.
IInv == TypeOK /\ ArchiveInv

\* Starting, polling and bulk indexing keep the invariant.
LEMMA BulkKeepsInv ==
    ASSUME IInv, HasDLQ = TRUE,
           \/ Start \/ Poll \/ PollRaises \/ EmptyPoll \/ BulkRejected
           \/ BulkIndexed \/ BulkPartlyIndexed \/ BulkRaises
    PROVE  IInv'
<1> USE ArchiveAssumption, BreakerTyped
    DEF IInv, TypeOK, ArchiveInv, NothingLost, NeverPastOdd, Settled, Offsets,
        Batch
<1>1. CASE Start
  BY <1>1 DEF Start
<1>2. CASE Poll
  BY <1>2 DEF Poll, Fetch
<1>3. CASE EmptyPoll
  BY <1>3 DEF EmptyPoll, vars
<1>4. CASE BulkRejected
  BY <1>4 DEF BulkRejected, OnException
<1>5. CASE BulkIndexed
  BY <1>5 DEF BulkIndexed
<1>6. CASE BulkPartlyIndexed
  BY <1>6 DEF BulkPartlyIndexed, OnException
<1>7. CASE BulkRaises
  BY <1>7 DEF BulkRaises, OnException
<1>8. CASE PollRaises
  BY <1>8 DEF PollRaises, Fetch
<1>9. QED
  BY <1>1, <1>2, <1>3, <1>4, <1>5, <1>6, <1>7, <1>8

\* Committing and dead-lettering keep the invariant.
LEMMA SettleKeepsInv ==
    ASSUME IInv, HasDLQ = TRUE,
           \/ Commit \/ CommitRaises \/ DeadLetter
           \/ DeadLetterRaises \/ CommitDead \/ CommitDeadRaises
    PROVE  IInv'
<1> USE ArchiveAssumption
    DEF IInv, TypeOK, ArchiveInv, NothingLost, NeverPastOdd, Settled, Offsets,
        Batch, Fault
<1>1. CASE Commit
  BY <1>1 DEF Commit
<1>2. CASE CommitRaises
  BY <1>2 DEF CommitRaises, OnException
<1>3. CASE DeadLetter
  BY <1>3 DEF DeadLetter
<1>4. CASE DeadLetterRaises
  <2>1. /\ dead \subseteq dead' /\ dead' \subseteq Offsets
        /\ faults' \in 0..MaxFaults
    <3>1. CASE next \in NoLetter
      BY <1>4, <3>1 DEF DeadLetterRaises
    <3>2. CASE next \notin NoLetter
      <4>1. Fault /\ dead' \in {dead, dead \cup {next}}
        BY <1>4, <3>2 DEF DeadLetterRaises
      <4>2. next \in Offsets
        BY <1>4 DEF DeadLetterRaises
      <4>3. QED
        BY <4>1, <4>2
    <3>3. QED
      BY <3>1, <3>2
  <2>2. /\ pc' = "down"
        /\ UNCHANGED <<position, lo, next, es_breaker, archived, committed>>
    BY <1>4 DEF DeadLetterRaises
  <2>3. QED
    BY <2>1, <2>2
<1>5. CASE CommitDead
  BY <1>5 DEF CommitDead
<1>6. CASE CommitDeadRaises
  BY <1>6 DEF CommitDeadRaises
<1>7. QED
  BY <1>1, <1>2, <1>3, <1>4, <1>5, <1>6

\* The environment keeps the invariant.
LEMMA EnvironmentKeepsInv ==
    ASSUME IInv, Crash \/ Rebalance \/ Tick \/ UNCHANGED vars
    PROVE  IInv'
<1> USE ArchiveAssumption
    DEF IInv, TypeOK, ArchiveInv, NothingLost, NeverPastOdd, Settled, Offsets,
        Batch, Fault
<1>1. CASE Crash
  BY <1>1 DEF Crash
<1>2. CASE Rebalance
  BY <1>2 DEF Rebalance
<1>3. CASE Tick
  BY <1>3, BreakerTyped DEF Tick
<1>4. CASE UNCHANGED vars
  BY <1>4 DEF vars
<1>5. QED
  BY <1>1, <1>2, <1>3, <1>4

LEMMA InitInv == Init => IInv
BY ArchiveAssumption, BreakerAssumption
DEF Init, IInv, TypeOK, ArchiveInv, NothingLost, NeverPastOdd, Settled, Offsets,
    Batch,
    NewBreaker, Breaker, BreakerStates

\* With a DLQ producer IInv is inductive, and so holds of every reachable state.
LEMMA ArchiveInductive == ASSUME HasDLQ = TRUE PROVE Spec => []IInv
<1>1. IInv /\ [Next]_vars => IInv'
  BY BulkKeepsInv, SettleKeepsInv, EnvironmentKeepsInv DEF Next, RunLoop
<1>2. QED
  BY <1>1, InitInv, PTL DEF Spec

\* The state of the archive consumer is well typed.
THEOREM ArchiveTypeCorrect == ASSUME HasDLQ = TRUE PROVE Spec => []TypeOK
<1>1. IInv => TypeOK
  BY DEF IInv
<1>2. QED
  BY <1>1, ArchiveInductive, PTL

\* What each point of run() relies on holds of every reachable state: the
\* batches before the one in hand are settled, and the part of it that is
\* already indexed or dead-lettered is known.
THEOREM ArchiveInvariant == ASSUME HasDLQ = TRUE PROVE Spec => []ArchiveInv
<1>1. IInv => ArchiveInv
  BY DEF IInv
<1>2. QED
  BY <1>1, ArchiveInductive, PTL

\* No record below the committed offset is missing from both Elasticsearch and
\* the dead-letter topic.
THEOREM ArchiveLosesNothing == ASSUME HasDLQ = TRUE PROVE Spec => []NothingLost
<1>1. IInv => NothingLost
  BY DEF IInv, ArchiveInv
<1>2. QED
  BY <1>1, ArchiveInductive, PTL

\* The archive never passes a record it cannot read.
THEOREM ArchiveStopsAtOdd == ASSUME HasDLQ = TRUE PROVE Spec => []NeverPastOdd
<1>1. IInv => NeverPastOdd
  BY DEF IInv, ArchiveInv
<1>2. QED
  BY <1>1, ArchiveInductive, PTL
-----------------------------------------------------------------------------
\* Every behaviour of the archive consumer is one of the at-least-once
\* consumer group: a step either settles records, or commits, or does neither.
THEOREM ArchiveImplementsAtLeastOnce ==
    ASSUME HasDLQ = TRUE PROVE Spec => ImplementsAtLeastOnce
<1> USE ArchiveAssumption
<1>1. Init => ALO!Init
  BY DEF Init, ALO!Init, Settled
<1>2. IInv /\ IInv' /\ [Next]_vars => [ALO!Next]_(ALO!aloVars)
  <2> SUFFICES ASSUME IInv, IInv', [Next]_vars
               PROVE  [ALO!Next]_(ALO!aloVars)
    OBVIOUS
  <2>1. Settled \subseteq Settled' /\ Settled' \in SUBSET (1..LogEnd)
    <3>1. archived \subseteq archived' /\ dead \subseteq dead'
      BY DEF Next, RunLoop, vars, Start, Poll, PollRaises, Fetch, EmptyPoll, BulkRejected,
             BulkIndexed, BulkPartlyIndexed, BulkRaises, Commit, CommitRaises,
             DeadLetter, DeadLetterRaises, CommitDead, CommitDeadRaises,
             Crash, Rebalance, Tick
    <3>2. QED
      BY <3>1 DEF IInv, TypeOK, Settled, Offsets
  <2>2. CASE Commit \/ CommitDead
    <3>1. committed' \in committed..LogEnd
      BY <2>2 DEF Commit, CommitDead, IInv, TypeOK, ArchiveInv
    <3>2. Settled' = Settled
      BY <2>2 DEF Commit, CommitDead, Settled
    <3>3. 1..committed' \subseteq Settled
      BY <3>2 DEF IInv, ArchiveInv, NothingLost
    <3>4. QED
      BY <3>1, <3>2, <3>3 DEF ALO!Next, ALO!Commit
  <2>3. CASE ~(Commit \/ CommitDead)
    <3>1. committed' = committed
      BY <2>3
      DEF Next, RunLoop, vars, Start, Poll, PollRaises, Fetch, EmptyPoll, BulkRejected,
          BulkIndexed, BulkPartlyIndexed, BulkRaises, CommitRaises,
          DeadLetter, DeadLetterRaises, CommitDeadRaises,
          Crash, Rebalance, Tick
    <3>2. QED
      BY <3>1, <2>1 DEF ALO!Next, ALO!Settle
  <2>4. QED
    BY <2>2, <2>3
<1>3. QED
  BY <1>1, <1>2, ArchiveInductive, PTL
  DEF Spec, ImplementsAtLeastOnce, ALO!Spec
=============================================================================
