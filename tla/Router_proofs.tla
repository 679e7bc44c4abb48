---------------------------- MODULE Router_proofs ----------------------------
(***************************************************************************)
(* With a DLQ topic the router group loses no record, forwards without     *)
(* gaps and accounts for every committed record on scored-logs, for any    *)
(* number of routers, records and faults; and it implements the            *)
(* at-least-once consumer group.                                           *)
(***************************************************************************)
EXTENDS Router, TLAPS

\* The breaker stays well formed through a whole call.
LEMMA BreakerTyped ==
    ASSUME NEW b \in Breaker
    PROVE  /\ NewBreaker \in Breaker
           /\ Entered(b) \in Breaker
           /\ AfterFailure(b) \in Breaker
           /\ AfterSuccess(b) \in Breaker
           /\ Aged(b) \in Breaker
<1> USE BreakerAssumption
<1>1. NewBreaker \in Breaker
  BY DEF Breaker, BreakerStates, NewBreaker
<1>2. Entered(b) \in Breaker
  BY DEF Breaker, BreakerStates, Entered, HalfOpened
<1>3. AfterFailure(b) \in Breaker
  <2>1. 0 \in 0..RecoveryTimeout /\ b.failure_count + 1 \in Nat
    BY DEF Breaker
  <2>2. Counted(b) \in Breaker
    BY <2>1 DEF Breaker, Counted
  <2>3. Opened \in Breaker
    BY DEF Breaker, BreakerStates, Opened
  <2>4. QED
    BY <2>2, <2>3 DEF AfterFailure
<1>4. AfterSuccess(b) \in Breaker
  <2>1. Closed(b) \in Breaker
    BY DEF Breaker, BreakerStates, Closed
  <2>2. [b EXCEPT !.success_count = @ + 1] \in Breaker
    BY DEF Breaker
  <2>3. b.state = "CLOSED" /\ b.failure_count > 0
          => [b EXCEPT !.failure_count = @ - 1] \in Breaker
    BY DEF Breaker
  <2>4. QED
    BY <2>1, <2>2, <2>3 DEF AfterSuccess
<1>5. Aged(b) \in Breaker
  BY DEF Breaker, BreakerStates, Aged
<1>6. QED
  BY <1>1, <1>2, <1>3, <1>4, <1>5

IInv == TypeOK /\ RoutersInv

\* The invariant of the routers that take no part in a step: their local state
\* is the same, the sinks have only grown, the committed offset is the same,
\* and they have not been given the partition.
LEMMA OthersKeepInv ==
    ASSUME IInv, NEW s \in Routers,
           pc'[s] = pc[s], position'[s] = position[s], lo'[s] = lo[s],
           next'[s] = next[s], buffered'[s] = buffered[s],
           forwarded \subseteq forwarded',
           published \subseteq published',
           undelivered \subseteq undelivered',
           dead \subseteq dead',
           owner' = s => owner = s /\ committed' = committed
    PROVE  RouterInv(s)'
<1>1. Settled \subseteq Settled' /\ Accounted \subseteq Accounted'
  BY DEF Settled, Accounted
<1>2. RouterInv(s)
  BY DEF IInv, RoutersInv
<1>3. QED
  BY <1>1, <1>2 DEF RouterInv, Working

LEMMA InitInv == Init => IInv
BY RouterAssumption, BreakerAssumption
DEF Init, IInv, TypeOK, RoutersInv, NothingLost, NoGaps, CommittedIsAccounted,
    RouterInv, Working, Settled, Accounted, Offsets,
    NewBreaker, Breaker, BreakerStates
-----------------------------------------------------------------------------
(* Typing. *)

LEMMA TypeStep ==
    ASSUME TypeOK, RoutersInv, NEW r \in Routers,
           Run(r) \/ Assign(r) \/ Sender(r) \/ Crash(r) \/ Tick(r)
    PROVE  TypeOK'
<1> USE RouterAssumption DEF TypeOK, Goto, Put, Offsets, Fault
<1>0. /\ NewBreaker \in Breaker
      /\ Entered(breaker[r]) \in Breaker
      /\ AfterFailure(Entered(breaker[r])) \in Breaker
      /\ AfterSuccess(Entered(breaker[r])) \in Breaker
      /\ Aged(breaker[r]) \in Breaker
  <2>1. breaker[r] \in Breaker
    OBVIOUS
  <2>2. Entered(breaker[r]) \in Breaker
    BY <2>1, BreakerTyped
  <2>3. QED
    BY <2>1, <2>2, BreakerTyped
<1>1. CASE Start(r)
  BY <1>1 DEF Start, group, sinks
<1>2. CASE Assign(r)
  BY <1>2 DEF Assign, sinks
<1>3. CASE Crash(r) \/ PollRaises(r)
  <2>1. CASE Crash(r)
    BY <1>0, <2>1 DEF Crash, Die, sinks
  <2>2. CASE PollRaises(r)
    BY <1>0, <2>2 DEF PollRaises, Die, sinks
  <2>3. QED
    BY <1>3, <2>1, <2>2
<1>4. CASE Poll(r)
  BY <1>4 DEF Poll, Fetches, group, sinks
<1>5. CASE EmptyPoll(r)
  BY <1>5 DEF EmptyPoll, vars
<1>6. CASE ScoreRejected(r)
  BY <1>0, <1>6 DEF ScoreRejected, OnException, group, sinks,
              RoutersInv, RouterInv, Working
<1>7. CASE Scored(r)
  BY <1>0, <1>7 DEF Scored, group, sinks
<1>8. CASE ScoreFails(r)
  BY <1>0, <1>8 DEF ScoreFails, OnException, group, sinks,
              RoutersInv, RouterInv, Working
<1>9. CASE Forward(r)
  <2>1. next[r] \in Offsets /\ next[r] + 1 \in 1..LogEnd + 1
    BY <1>9 DEF Forward
  <2>2. QED
    BY <1>9, <2>1 DEF Forward, group
<1>10. CASE ForwardRaises(r)
  BY <1>10 DEF ForwardRaises, OnException, group,
               RoutersInv, RouterInv, Working
<1>11. CASE Flush(r)
  BY <1>11 DEF Flush, group, sinks
<1>12. CASE FlushTimesOut(r)
  BY <1>12 DEF FlushTimesOut, OnException, group, sinks,
               RoutersInv, RouterInv, Working
<1>13. CASE Commit(r) \/ CommitDead(r)
  <2>1. CommitPosition(r)
    BY <1>13 DEF Commit, CommitDead
  <2>2. position[r] \in 0..LogEnd
    OBVIOUS
  <2>3. QED
    BY <2>1, <2>2 DEF CommitPosition, sinks
<1>14. CASE CommitRaises(r)
  BY <1>14 DEF CommitRaises, Fenced, OnException, group, sinks,
               RoutersInv, RouterInv, Working
<1>15. CASE DeadLetter(r)
  <2>1. next[r] \in Offsets /\ next[r] + 1 \in 1..LogEnd + 1
    BY <1>15 DEF DeadLetter
  <2>2. QED
    BY <1>15, <2>1 DEF DeadLetter, group
<1>16. CASE DeadLetterRaises(r)
  <2>1. dead' \subseteq Offsets /\ faults' \in 0..MaxFaults
    <3>1. next[r] \in Offsets
      BY <1>16 DEF DeadLetterRaises
    <3>2. CASE next[r] \in NoLetter
      BY <1>16, <3>2 DEF DeadLetterRaises
    <3>3. CASE next[r] \notin NoLetter
      <4>1. Fault /\ dead' \in {dead, dead \cup {next[r]}}
        BY <1>16, <3>3 DEF DeadLetterRaises
      <4>2. QED
        BY <3>1, <4>1
    <3>4. QED
      BY <3>2, <3>3
  <2>2. QED
    BY <1>0, <1>16, <2>1 DEF DeadLetterRaises, Die
<1>17. CASE CommitDeadRaises(r)
  BY <1>0, <1>17 DEF CommitDeadRaises, Fenced, Die, sinks
<1>18. CASE Sender(r)
  <2>1. CASE Deliver(r)
    BY <2>1 DEF Deliver, control, group
  <2>2. CASE GiveUp(r)
    BY <2>2 DEF GiveUp, control, group
  <2>3. QED
    BY <1>18, <2>1, <2>2 DEF Sender
<1>19. CASE Tick(r)
  BY <1>0, <1>19 DEF Tick, control, group, sinks
<1>20. QED
  BY <1>1, <1>2, <1>3, <1>4, <1>5, <1>6, <1>7, <1>8, <1>9, <1>10, <1>11,
     <1>12, <1>13, <1>14, <1>15, <1>16, <1>17, <1>18, <1>19
  DEF Run, Score, Route, Settle
-----------------------------------------------------------------------------
(* The invariant of the router that takes the step. *)

LEMMA ActorKeepsInv ==
    ASSUME IInv, HasDLQ = TRUE, NEW r \in Routers,
           Run(r) \/ Assign(r) \/ Sender(r) \/ Crash(r) \/ Tick(r)
    PROVE  RouterInv(r)'
<1> USE RouterAssumption
    DEF IInv, TypeOK, RoutersInv, RouterInv, Working, Goto, Put,
        Settled, Accounted, NothingLost, CommittedIsAccounted
<1>1. CASE Start(r)
  BY <1>1 DEF Start, group, sinks
<1>2. CASE Assign(r)
  BY <1>2 DEF Assign, sinks
<1>3. CASE Crash(r) \/ PollRaises(r)
  BY <1>3 DEF Crash, PollRaises, Die, sinks
<1>4. CASE Poll(r)
  BY <1>4 DEF Poll, Fetches, group, sinks
<1>5. CASE EmptyPoll(r)
  BY <1>5 DEF EmptyPoll, vars
<1>6. CASE Score(r)
  <2>1. CASE Scored(r)
    BY <2>1 DEF Scored, group, sinks
  <2>2. CASE ScoreRejected(r)
    BY <2>2 DEF ScoreRejected, OnException, group, sinks
  <2>3. CASE ScoreFails(r)
    BY <2>3 DEF ScoreFails, OnException, group, sinks
  <2>4. QED
    BY <1>6, <2>1, <2>2, <2>3 DEF Score
<1>7. CASE Forward(r)
  <2>1. /\ pc[r] = "route" /\ pc' = pc /\ position' = position /\ lo' = lo
        /\ owner' = owner /\ committed' = committed
        /\ next[r] \in lo[r] + 1 .. position[r]
        /\ next'[r] = next[r] + 1
    BY <1>7 DEF Forward, group
  <2>2. /\ forwarded' = forwarded \cup {next[r]}
        /\ buffered'[r] = buffered[r] \cup {next[r]}
        /\ published' = published /\ undelivered' = undelivered
        /\ dead' = dead
    BY <1>7 DEF Forward
  <2>3. lo[r] + 1 .. next'[r] - 1 = (lo[r] + 1 .. next[r] - 1) \cup {next[r]}
    BY <2>1
  <2>4. QED
    BY <2>1, <2>2, <2>3
<1>8. CASE ForwardRaises(r)
  BY <1>8 DEF ForwardRaises, OnException, group
<1>9. CASE Flush(r)
  BY <1>9 DEF Flush, group, sinks
<1>10. CASE FlushTimesOut(r)
  BY <1>10 DEF FlushTimesOut, OnException, group, sinks
<1>11. CASE Commit(r)
  BY <1>11 DEF Commit, CommitPosition, sinks
<1>12. CASE CommitRaises(r)
  BY <1>12 DEF CommitRaises, OnException, group, sinks
<1>13. CASE DeadLetter(r)
  <2>1. /\ pc[r] = "dlq" /\ pc' = pc /\ position' = position /\ lo' = lo
        /\ owner' = owner /\ committed' = committed
        /\ next[r] \in lo[r] + 1 .. position[r]
        /\ next'[r] = next[r] + 1
    BY <1>13 DEF DeadLetter, group
  <2>2. /\ dead' = dead \cup {next[r]}
        /\ forwarded' = forwarded /\ buffered' = buffered
        /\ published' = published /\ undelivered' = undelivered
    BY <1>13 DEF DeadLetter
  <2>3. lo[r] + 1 .. next'[r] - 1 = (lo[r] + 1 .. next[r] - 1) \cup {next[r]}
    BY <2>1
  <2>4. QED
    BY <2>1, <2>2, <2>3
<1>14. CASE DeadLetterRaises(r)
  BY <1>14 DEF DeadLetterRaises, Die
<1>15. CASE CommitDead(r)
  BY <1>15 DEF CommitDead, CommitPosition, sinks
<1>16. CASE CommitDeadRaises(r)
  BY <1>16 DEF CommitDeadRaises, Die, sinks
<1>17. CASE Deliver(r)
  BY <1>17 DEF Deliver, control, group
<1>18. CASE GiveUp(r)
  BY <1>18 DEF GiveUp, control, group
<1>19. CASE Tick(r)
  BY <1>19 DEF Tick, control, group, sinks
<1>20. QED
  BY <1>1, <1>2, <1>3, <1>4, <1>5, <1>6, <1>7, <1>8, <1>9, <1>10, <1>11,
     <1>12, <1>13, <1>14, <1>15, <1>16, <1>17, <1>18, <1>19
  DEF Run, Route, Settle, Sender
-----------------------------------------------------------------------------
(* The invariants of the group. *)

\* The sinks only grow, and a step is either a commit of the whole position by
\* the owner or leaves the committed offset alone.
LEMMA StepEffects ==
    ASSUME NEW r \in Routers,
           Run(r) \/ Assign(r) \/ Sender(r) \/ Crash(r) \/ Tick(r)
    PROVE  /\ forwarded \subseteq forwarded' /\ published \subseteq published'
           /\ undelivered \subseteq undelivered' /\ dead \subseteq dead'
           /\ \/ committed' = committed
              \/ /\ Commit(r) \/ CommitDead(r)
                 /\ owner = r /\ owner' = owner
                 /\ committed' = position[r]
           /\ \/ forwarded' = forwarded
              \/ Forward(r) \/ ForwardRaises(r)
BY DEF Run, Start, Assign, Crash, Die, Poll, PollRaises, EmptyPoll, vars,
       Score, ScoreRejected, Scored, ScoreFails, OnException,
       Route, Forward, ForwardRaises, Flush, FlushTimesOut,
       Settle, Commit, CommitDead, CommitPosition, CommitRaises,
       CommitDeadRaises, DeadLetter, DeadLetterRaises,
       Sender, Deliver, GiveUp, Tick, control, group, sinks

\* The other routers keep their invariant.
LEMMA OthersStep ==
    ASSUME IInv, NEW r \in Routers, NEW s \in Routers, s # r,
           Run(r) \/ Assign(r) \/ Sender(r) \/ Crash(r) \/ Tick(r)
    PROVE  RouterInv(s)'
<1>1. /\ pc'[s] = pc[s] /\ position'[s] = position[s] /\ lo'[s] = lo[s]
      /\ next'[s] = next[s] /\ buffered'[s] = buffered[s]
  BY DEF Run, Start, Assign, Crash, Die, Poll, PollRaises, EmptyPoll, vars,
         Score, ScoreRejected, Scored, ScoreFails, OnException,
         Route, Forward, ForwardRaises, Flush, FlushTimesOut,
         Settle, Commit, CommitDead, CommitPosition, CommitRaises,
         CommitDeadRaises, DeadLetter, DeadLetterRaises,
         Sender, Deliver, GiveUp, Tick, control, group, sinks,
         Goto, Put, IInv, TypeOK
<1>2. owner' = s => owner = s /\ committed' = committed
  BY RouterAssumption
  DEF Run, Start, Assign, Crash, Die, Poll, PollRaises, EmptyPoll, vars,
      Score, ScoreRejected, Scored, ScoreFails,
      Route, Forward, ForwardRaises, Flush, FlushTimesOut,
      Settle, Commit, CommitDead, CommitPosition, CommitRaises,
      CommitDeadRaises, DeadLetter, DeadLetterRaises,
      Sender, Deliver, GiveUp, Tick, control, group, sinks
<1>3. QED
  BY <1>1, <1>2, StepEffects, OthersKeepInv

\* A commit covers settled and accounted records only, and a record is
\* forwarded after all those before it.
LEMMA GroupStep ==
    ASSUME IInv, NEW r \in Routers,
           Run(r) \/ Assign(r) \/ Sender(r) \/ Crash(r) \/ Tick(r)
    PROVE  NothingLost' /\ NoGaps' /\ CommittedIsAccounted'
<1>1. Settled \subseteq Settled' /\ Accounted \subseteq Accounted'
  BY StepEffects DEF Settled, Accounted
<1>2. 1..committed' \subseteq Settled /\ 1..committed' \subseteq Accounted
  <2>1. CASE committed' = committed
    BY <2>1 DEF IInv, RoutersInv, NothingLost, CommittedIsAccounted
  <2>2. CASE committed' = position[r] /\ (Commit(r) \/ CommitDead(r))
    <3>1. /\ lo[r] \in 0..LogEnd /\ position[r] \in 0..LogEnd
          /\ lo[r] <= position[r]
          /\ 1..lo[r] \subseteq Settled /\ 1..lo[r] \subseteq Accounted
      BY <2>2 DEF Commit, CommitDead, IInv, TypeOK, RoutersInv, RouterInv,
                  Working
    <3>2. /\ lo[r] + 1 .. position[r] \subseteq Settled
          /\ lo[r] + 1 .. position[r] \subseteq Accounted
      BY <2>2, RouterAssumption
      DEF Commit, CommitDead, IInv, TypeOK, RoutersInv, RouterInv, Working,
          Settled, Accounted
    <3>3. 1..position[r] = (1..lo[r]) \cup (lo[r] + 1 .. position[r])
      BY <3>1
    <3>4. QED
      BY <2>2, <3>1, <3>2, <3>3
  <2>3. QED
    BY <2>1, <2>2, StepEffects
<1>3. NoGaps'
  <2>1. CASE forwarded' = forwarded
    BY <1>1, <2>1 DEF IInv, RoutersInv, NoGaps
  <2>2. CASE Forward(r) \/ ForwardRaises(r)
    <3>1. forwarded' \subseteq forwarded \cup {next[r]}
      BY <2>2 DEF Forward, ForwardRaises
    <3>2. /\ lo[r] \in 0..LogEnd /\ next[r] \in lo[r] + 1 .. position[r] + 1
          /\ 1..lo[r] \subseteq Settled
          /\ lo[r] + 1 .. next[r] - 1 \subseteq Settled
      BY <2>2 DEF Forward, ForwardRaises, IInv, TypeOK, RoutersInv, RouterInv,
                  Working, Settled
    <3>3. 1 .. next[r] - 1 = (1..lo[r]) \cup (lo[r] + 1 .. next[r] - 1)
      BY <3>2 DEF IInv, TypeOK
    <3>4. QED
      BY <1>1, <3>1, <3>2, <3>3 DEF IInv, RoutersInv, NoGaps
  <2>3. QED
    BY <2>1, <2>2, StepEffects
<1>4. QED
  BY <1>1, <1>2, <1>3 DEF NothingLost, CommittedIsAccounted
-----------------------------------------------------------------------------
\* With a DLQ topic IInv is inductive, and so holds of every reachable state of
\* the group.
LEMMA RouterInductive == ASSUME HasDLQ = TRUE PROVE Spec => []IInv
<1>1. IInv /\ [Next]_vars => IInv'
  <2> SUFFICES ASSUME IInv, [Next]_vars
               PROVE  IInv'
    OBVIOUS
  <2>1. ASSUME NEW r \in Routers,
               Run(r) \/ Assign(r) \/ Sender(r) \/ Crash(r) \/ Tick(r)
        PROVE  IInv'
    <3>1. TypeOK'
      BY <2>1, TypeStep DEF IInv
    <3>2. \A s \in Routers : RouterInv(s)'
      BY <2>1, ActorKeepsInv, OthersStep
    <3>3. QED
      BY <2>1, <3>1, <3>2, GroupStep DEF IInv, RoutersInv
  <2>2. CASE UNCHANGED vars
    BY <2>2 DEF vars, IInv, TypeOK, RoutersInv, RouterInv, Working, NothingLost,
                NoGaps, CommittedIsAccounted, Settled, Accounted
  <2>3. QED
    BY <2>1, <2>2 DEF Next
<1>2. QED
  BY <1>1, InitInv, PTL DEF Spec

\* The state of the group is well typed, that of every replica included.
THEOREM RouterTypeCorrect == ASSUME HasDLQ = TRUE PROVE Spec => []TypeOK
<1>1. IInv => TypeOK
  BY DEF IInv
<1>2. QED
  BY <1>1, RouterInductive, PTL

\* What each point of run() relies on holds of every router, the ones that lost
\* the partition included.
THEOREM RouterInvariant == ASSUME HasDLQ = TRUE PROVE Spec => []RoutersInv
<1>1. IInv => RoutersInv
  BY DEF IInv
<1>2. QED
  BY <1>1, RouterInductive, PTL

\* No record below the committed offset escapes both QRadar and the DLQ.
THEOREM RouterLosesNothing == ASSUME HasDLQ = TRUE PROVE Spec => []NothingLost
<1>1. IInv => NothingLost
  BY DEF IInv, RoutersInv
<1>2. QED
  BY <1>1, RouterInductive, PTL

\* A record is forwarded only when all earlier ones were forwarded or
\* dead-lettered.
THEOREM RouterLeavesNoGaps == ASSUME HasDLQ = TRUE PROVE Spec => []NoGaps
<1>1. IInv => NoGaps
  BY DEF IInv, RoutersInv
<1>2. QED
  BY <1>1, RouterInductive, PTL

\* A committed record is on scored-logs, dead-lettered, or given up by the
\* producer.
THEOREM RouterAccounts ==
    ASSUME HasDLQ = TRUE PROVE Spec => []CommittedIsAccounted
<1>1. IInv => CommittedIsAccounted
  BY DEF IInv, RoutersInv
<1>2. QED
  BY <1>1, RouterInductive, PTL

\* Every behaviour of the router group is one of the at-least-once group.
THEOREM RouterImplementsAtLeastOnce ==
    ASSUME HasDLQ = TRUE PROVE Spec => ImplementsAtLeastOnce
<1>1. Init => ALO!Init
  BY DEF Init, ALO!Init, Settled
<1>2. IInv /\ IInv' /\ [Next]_vars => [ALO!Next]_(ALO!aloVars)
  <2> SUFFICES ASSUME IInv, IInv', [Next]_vars
               PROVE  [ALO!Next]_(ALO!aloVars)
    OBVIOUS
  <2>1. CASE UNCHANGED vars
    BY <2>1 DEF vars, ALO!aloVars, Settled
  <2>2. ASSUME NEW r \in Routers,
               Run(r) \/ Assign(r) \/ Sender(r) \/ Crash(r) \/ Tick(r)
        PROVE  [ALO!Next]_(ALO!aloVars)
    <3>1. CASE committed' = committed
      <4>1. Settled \subseteq Settled'
        BY <2>2, StepEffects DEF Settled
      <4>2. Settled' \in SUBSET (1..LogEnd)
        BY DEF IInv, TypeOK, Settled, Offsets
      <4>3. QED
        BY <3>1, <4>1, <4>2 DEF ALO!Next, ALO!Settle
    <3>2. CASE /\ Commit(r) \/ CommitDead(r)
               /\ owner = r
               /\ committed' = position[r]
      <4>1. Settled' = Settled
        BY <3>2 DEF Commit, CommitDead, CommitPosition, sinks, Settled
      <4>2. committed' \in committed..LogEnd
        BY <3>2 DEF Commit, CommitDead, IInv, TypeOK, RoutersInv, RouterInv
      <4>3. 1..committed' \subseteq Settled
        BY <4>1 DEF IInv, RoutersInv, NothingLost
      <4>4. QED
        BY <4>1, <4>2, <4>3 DEF ALO!Next, ALO!Commit
    <3>3. QED
      BY <2>2, <3>1, <3>2, StepEffects
  <2>3. QED
    BY <2>1, <2>2 DEF Next
<1>3. QED
  BY <1>1, <1>2, RouterInductive, PTL
  DEF Spec, ImplementsAtLeastOnce, ALO!Spec
=============================================================================
