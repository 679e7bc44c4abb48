------------------------------- MODULE Router -------------------------------
(***************************************************************************)
(* KafkaQRadarRouter.run (src/logfilter/kafka_router.py), as deployed:     *)
(* several router processes in one consumer group.  A router polls a       *)
(* batch, has it scored by the API through _API_BREAKER, forwards each     *)
(* event to QRadar and hands it to the scored-logs producer, flushes the   *)
(* producer and commits; on any exception it dead-letters the batch and    *)
(* commits, or, without a DLQ topic, logs and polls on.                    *)
(*                                                                         *)
(* One partition, offsets 1..LogEnd.  The group coordinator gives it to    *)
(* one router at a time; a router that loses it learns so only from its    *)
(* next poll or commit, and meanwhile works on with its batch.             *)
(***************************************************************************)
EXTENDS BreakerState

CONSTANTS Routers,            (* router processes (replicas)               *)
          NoOne,              (* the partition is not assigned             *)
          LogEnd,             (* offsets on the partition                  *)
          BatchSize,          (* max_poll_records                          *)
          HasDLQ,             (* is a DLQ topic configured?                *)
          Unreadable,         (* records that are not JSON                 *)
          NoLetter,           (* records that send_dlq can never write: the
                                 dead letter is over max_request_size, or
                                 the host is no string                     *)
          MaxFaults           (* bound on crashes, rebalances away from a
                                 live router and failing commits and, of
                                 the other records, dead-letter sends      *)

ASSUME RouterAssumption ==
    /\ NoOne \notin Routers
    /\ LogEnd \in Nat
    /\ BatchSize \in Nat \ {0}
    /\ HasDLQ \in BOOLEAN
    /\ Unreadable \subseteq 1..LogEnd
    /\ NoLetter \subseteq 1..LogEnd
    /\ MaxFaults \in Nat

VARIABLES pc,                 (* where run() is                            *)
          position,           (* last offset fetched                       *)
          lo,                 (* the batch in hand is lo+1..position       *)
          next,               (* next offset to forward or dead-letter     *)
          buffered,           (* offsets in the scored-logs producer       *)
          breaker,            (* _API_BREAKER, one per process             *)
          owner,              (* router the partition is assigned to       *)
          forwarded,          (* offsets handed to the QRadar socket       *)
          published,          (* offsets acknowledged on scored-logs       *)
          undelivered,        (* history: offsets the producer gave up on  *)
          dead,               (* offsets with a message in the DLQ topic   *)
          committed,          (* committed offset of the router group      *)
          faults              (* faults so far                             *)

control == <<pc, position, lo, next>>
sinks == <<forwarded, published, undelivered, dead>>
group == <<owner, committed>>
vars == <<pc, position, lo, next, buffered, breaker, owner, forwarded,
          published, undelivered, dead, committed, faults>>

Offsets == 1..LogEnd
Settled == forwarded \cup dead
Accounted == published \cup undelivered \cup dead

Init ==
    /\ pc = [r \in Routers |-> "down"]
    /\ position = [r \in Routers |-> 0]
    /\ lo = [r \in Routers |-> 0]
    /\ next = [r \in Routers |-> 1]
    /\ buffered = [r \in Routers |-> {}]
    /\ breaker = [r \in Routers |-> NewBreaker]
    /\ owner = NoOne
    /\ forwarded = {} /\ published = {} /\ undelivered = {} /\ dead = {}
    /\ committed = 0
    /\ faults = 0

Fault == faults < MaxFaults /\ faults' = faults + 1

Goto(r, label) == pc' = [pc EXCEPT ![r] = label]
Put(f, r, value) == [f EXCEPT ![r] = value]
-----------------------------------------------------------------------------
(* The process and the group. *)

\* Line 88: the process starts, with a new breaker and no partition.
Start(r) ==
    /\ pc[r] = "down"
    /\ Goto(r, "poll")
    /\ UNCHANGED <<position, lo, next, buffered, breaker, group, sinks, faults>>

\* poll() joins the group and is given the partition: fetching restarts at the
\* committed offset.
Assign(r) ==
    /\ pc[r] = "poll"
    /\ owner # r
    /\ owner' = r
    /\ IF owner = NoOne THEN UNCHANGED faults ELSE Fault
    /\ position' = Put(position, r, committed)
    /\ UNCHANGED <<pc, lo, next, buffered, breaker, sinks, committed>>

\* The process is gone, and its memory: its producer's buffer is lost and the
\* partition is free.
Die(r) ==
    /\ Goto(r, "down")
    /\ position' = Put(position, r, 0)
    /\ lo' = Put(lo, r, 0)
    /\ next' = Put(next, r, 1)
    /\ buffered' = Put(buffered, r, {})
    /\ breaker' = Put(breaker, r, NewBreaker)
    /\ owner' = IF owner = r THEN NoOne ELSE owner

Crash(r) ==
    /\ pc[r] # "down"
    /\ Fault
    /\ Die(r)
    /\ UNCHANGED <<committed, sinks>>
-----------------------------------------------------------------------------
(* One turn of the loop. *)

\* What poll() may fetch.
Fetches(r) == {to \in position[r] + 1 .. position[r] + BatchSize : to <= LogEnd}

\* Lines 224-236: every record of the batch is JSON.
Poll(r) ==
    /\ pc[r] = "poll"
    /\ owner = r
    /\ \E to \in Fetches(r) :
          /\ position[r] + 1 .. to \cap Unreadable = {}
          /\ position' = Put(position, r, to)
    /\ lo' = Put(lo, r, position[r])
    /\ next' = Put(next, r, position[r] + 1)
    /\ Goto(r, "score")
    /\ UNCHANGED <<buffered, breaker, group, sinks, faults>>

\* Line 103 raises in poll() at line 224, outside the try of line 250: run()
\* ends, and the next process meets the record again.
PollRaises(r) ==
    /\ pc[r] = "poll"
    /\ owner = r
    /\ \E to \in Fetches(r) : position[r] + 1 .. to \cap Unreadable # {}
    /\ Die(r)
    /\ UNCHANGED <<committed, sinks, faults>>

\* The poll times out, also when there are records that the fetcher has not
\* received yet; the loop polls again.
EmptyPoll(r) ==
    /\ pc[r] = "poll"
    /\ UNCHANGED vars

\* Mutated form: the DLQ producer is not used.
OnExceptionPollsOn(r) ==
    /\ Goto(r, "poll")
    /\ next' = Put(next, r, lo[r] + 1)

\* Mutated form: dead-lettering goes on where forwarding stopped.
OnExceptionResumes(r) ==
    /\ Goto(r, IF HasDLQ THEN "dlq" ELSE "poll")
    /\ next' = Put(next, r, next[r] + 1)

\* Line 257: dead-letter the batch from its first event, or poll on.
OnException(r) ==
    /\ Goto(r, IF HasDLQ THEN "dlq" ELSE "poll")
    /\ next' = Put(next, r, lo[r] + 1)

\* Line 163, CircuitBreakerOpen: the API is not called.
ScoreRejected(r) ==
    /\ pc[r] = "score"
    /\ ~Admits(breaker[r])
    /\ breaker' = Put(breaker, r, Entered(breaker[r]))
    /\ OnException(r)
    /\ UNCHANGED <<position, lo, buffered, group, sinks, faults>>

\* Lines 163-169: one result for each event.
Scored(r) ==
    /\ pc[r] = "score"
    /\ Admits(breaker[r])
    /\ breaker' = Put(breaker, r, AfterSuccess(Entered(breaker[r])))
    /\ Goto(r, "route")
    /\ UNCHANGED <<position, lo, next, buffered, group, sinks, faults>>

\* Lines 163-168: the response has another number of results, which raises
\* after the breaker has counted a success; or an HTTP error, a time-out or a
\* refused batch, which it counts as a failure; or a body that is not JSON,
\* which it does not count at all.
ScoreFails(r) ==
    /\ pc[r] = "score"
    /\ Admits(breaker[r])
    /\ \E after \in {AfterSuccess(Entered(breaker[r])),
                     AfterFailure(Entered(breaker[r])),
                     Entered(breaker[r])} :
          breaker' = Put(breaker, r, after)
    /\ OnException(r)
    /\ UNCHANGED <<position, lo, buffered, group, sinks, faults>>

\* Lines 188-207: the event goes to QRadar and into the producer's buffer.
Forward(r) ==
    /\ pc[r] = "route"
    /\ next[r] <= position[r]
    /\ forwarded' = forwarded \cup {next[r]}
    /\ buffered' = Put(buffered, r, buffered[r] \cup {next[r]})
    /\ next' = Put(next, r, next[r] + 1)
    /\ UNCHANGED <<pc, position, lo, breaker, group, published, undelivered,
                   dead, faults>>

\* The event has no LEEF payload, QRadar refuses it after the retries, or the
\* producer's buffer is full; in the last case QRadar has it already.
ForwardRaises(r) ==
    /\ pc[r] = "route"
    /\ next[r] <= position[r]
    /\ forwarded' \in {forwarded, forwarded \cup {next[r]}}
    /\ OnException(r)
    /\ UNCHANGED <<position, lo, buffered, breaker, group, published,
                   undelivered, dead, faults>>

\* Mutated form: the batch counts as routed while the producer still holds it.
FlushNotAwaited(r) ==
    /\ pc[r] = "route"
    /\ next[r] > position[r]
    /\ Goto(r, "commit")
    /\ UNCHANGED <<position, lo, next, buffered, breaker, group, sinks, faults>>

\* Line 208: flush() returns once the buffer is empty; a delivery that failed
\* is recorded in its future only, which nobody reads.
Flush(r) ==
    /\ pc[r] = "route"
    /\ next[r] > position[r]
    /\ buffered[r] = {}
    /\ Goto(r, "commit")
    /\ UNCHANGED <<position, lo, next, buffered, breaker, group, sinks, faults>>

\* Line 208: 30 seconds were not enough.
FlushTimesOut(r) ==
    /\ pc[r] = "route"
    /\ next[r] > position[r]
    /\ buffered[r] # {}
    /\ OnException(r)
    /\ UNCHANGED <<position, lo, buffered, breaker, group, sinks, faults>>

\* Mutated form: the offset is stored for a router that lost the partition.
CommitUnfenced(r) ==
    /\ committed' = position[r]
    /\ Goto(r, "poll")
    /\ UNCHANGED <<position, lo, next, buffered, breaker, owner, sinks, faults>>

\* Lines 254 and 269: commit() succeeds for the router the coordinator has
\* assigned the partition to, and raises in any other.
CommitPosition(r) ==
    /\ owner = r
    /\ committed' = position[r]
    /\ Goto(r, "poll")
    /\ UNCHANGED <<position, lo, next, buffered, breaker, owner, sinks, faults>>

Fenced(r) == IF owner = r THEN Fault ELSE UNCHANGED faults

Commit(r) ==
    /\ pc[r] = "commit"
    /\ CommitPosition(r)

CommitRaises(r) ==
    /\ pc[r] = "commit"
    /\ Fenced(r)
    /\ OnException(r)
    /\ UNCHANGED <<position, lo, buffered, breaker, group, sinks>>

\* Lines 261-268, one event: send_dlq has retried and been acknowledged.
DeadLetter(r) ==
    /\ pc[r] = "dlq"
    /\ next[r] <= position[r] /\ next[r] \notin NoLetter
    /\ dead' = dead \cup {next[r]}
    /\ next' = Put(next, r, next[r] + 1)
    /\ UNCHANGED <<pc, position, lo, buffered, breaker, group, forwarded,
                   published, undelivered, faults>>

\* Line 263 raises after its retries: the exception ends run().  For a record of
\* NoLetter it always does; for another it is a fault, and an attempt that timed
\* out may have reached the topic.
DeadLetterRaises(r) ==
    /\ pc[r] = "dlq"
    /\ next[r] <= position[r]
    /\ IF next[r] \in NoLetter
       THEN UNCHANGED <<dead, faults>>
       ELSE Fault /\ dead' \in {dead, dead \cup {next[r]}}
    /\ Die(r)
    /\ UNCHANGED <<committed, forwarded, published, undelivered>>

CommitDead(r) ==
    /\ pc[r] = "dlq"
    /\ next[r] > position[r]
    /\ CommitPosition(r)

CommitDeadRaises(r) ==
    /\ pc[r] = "dlq"
    /\ next[r] > position[r]
    /\ Fenced(r)
    /\ Die(r)
    /\ UNCHANGED <<committed, sinks>>
-----------------------------------------------------------------------------
(* The producer's sender thread, and the clock. *)

\* acks="all": the scored event is on the topic.
Deliver(r) ==
    \E o \in buffered[r] :
        /\ published' = published \cup {o}
        /\ buffered' = Put(buffered, r, buffered[r] \ {o})
        /\ UNCHANGED <<control, breaker, group, forwarded, undelivered, dead,
                       faults>>

\* The retries of the client are used up.
GiveUp(r) ==
    \E o \in buffered[r] :
        /\ undelivered' = undelivered \cup {o}
        /\ buffered' = Put(buffered, r, buffered[r] \ {o})
        /\ UNCHANGED <<control, breaker, group, forwarded, published, dead,
                       faults>>

Tick(r) ==
    /\ breaker[r].elapsed < RecoveryTimeout
    /\ breaker' = Put(breaker, r, Aged(breaker[r]))
    /\ UNCHANGED <<control, buffered, group, sinks, faults>>

Score(r) == ScoreRejected(r) \/ Scored(r) \/ ScoreFails(r)

Route(r) == Forward(r) \/ ForwardRaises(r) \/ Flush(r) \/ FlushTimesOut(r)

Settle(r) ==
    \/ Commit(r)     \/ CommitRaises(r)     \/ DeadLetter(r)
    \/ CommitDead(r) \/ CommitDeadRaises(r) \/ DeadLetterRaises(r)

Sender(r) == Deliver(r) \/ GiveUp(r)

Run(r) ==
    \/ Start(r) \/ Poll(r) \/ PollRaises(r) \/ EmptyPoll(r)
    \/ Score(r) \/ Route(r) \/ Settle(r)

Next == \E r \in Routers :
            Run(r) \/ Assign(r) \/ Sender(r) \/ Crash(r) \/ Tick(r)

Spec == Init /\ [][Next]_vars

\* Routers are restarted and scheduled, the coordinator assigns a free
\* partition, and the producer resolves what it holds.  The API and QRadar may
\* fail for ever.
Fairness ==
    /\ \A r \in Routers : WF_vars(Run(r)) /\ WF_vars(Sender(r))
    /\ WF_vars(owner = NoOne /\ \E r \in Routers : Assign(r))

FairSpec == Spec /\ Fairness
-----------------------------------------------------------------------------
(* Properties. *)

TypeOK ==
    /\ pc \in [Routers -> {"down", "poll", "score", "route", "commit", "dlq"}]
    /\ position \in [Routers -> 0..LogEnd]
    /\ lo \in [Routers -> 0..LogEnd]
    /\ next \in [Routers -> 1..LogEnd + 1]
    /\ buffered \in [Routers -> SUBSET Offsets]
    /\ breaker \in [Routers -> Breaker]
    /\ owner \in Routers \cup {NoOne}
    /\ forwarded \subseteq Offsets
    /\ published \subseteq Offsets
    /\ undelivered \subseteq Offsets
    /\ dead \subseteq Offsets
    /\ committed \in 0..LogEnd
    /\ faults \in 0..MaxFaults

\* A record below the group's committed offset was forwarded to QRadar or is
\* in the dead-letter topic, whichever routers worked on it.
NothingLost == 1..committed \subseteq Settled

\* A record is forwarded only when every earlier one of its partition has been
\* forwarded or dead-lettered, across rebalances, restarts and routers that go
\* on with a batch they no longer own.
NoGaps == \A o \in forwarded : 1 .. o - 1 \subseteq Settled

\* A committed record is on scored-logs, unless it was dead-lettered or the
\* producer gave up on it: none is still waiting in, or lost with, a buffer.
CommittedIsAccounted == 1..committed \subseteq Accounted

\* The strengthening the proofs use: what each point of run() may rely on.
Working(r) == pc[r] \in {"score", "route", "commit", "dlq"}

RouterInv(r) ==
    /\ owner = r => pc[r] # "down" /\ committed <= position[r]
    /\ pc[r] = "down" => position[r] = 0
    /\ pc[r] = "poll" =>
          1..position[r] \subseteq Settled \cap Accounted
    /\ Working(r) =>
          /\ lo[r] <= position[r]
          /\ next[r] \in lo[r] + 1 .. position[r] + 1
          /\ 1..lo[r] \subseteq Settled \cap Accounted
          /\ owner = r => committed <= lo[r]
    /\ pc[r] = "score" => next[r] = lo[r] + 1
    /\ pc[r] = "route" =>
          lo[r] + 1 .. next[r] - 1
              \subseteq forwarded \cap (Accounted \cup buffered[r])
    /\ pc[r] = "commit" =>
          lo[r] + 1 .. position[r] \subseteq forwarded \cap Accounted
    /\ pc[r] = "dlq" => lo[r] + 1 .. next[r] - 1 \subseteq dead

RoutersInv ==
    /\ NothingLost
    /\ NoGaps
    /\ CommittedIsAccounted
    /\ \A r \in Routers : RouterInv(r)

\* The group keeps the promise of an at-least-once consumer group.
ALO == INSTANCE AtLeastOnce WITH settled <- Settled

ImplementsAtLeastOnce == ALO!Spec

\* The group is sure to come as far as a batch that cannot include a record that
\* stops it for ever.
Reach ==
    LET stops == Unreadable \cup NoLetter
    IN  IF stops = {} THEN LogEnd
        ELSE LET first == CHOOSE o \in stops : \A p \in stops : o <= p
             IN  first - BatchSize

\* Whatever the API and QRadar do, every record that none of those keeps from it
\* is eventually settled and its offset committed, also while processes end and
\* start again at the records that stop them.
Drains == <>(committed >= Reach)
=============================================================================
