--------------------------- MODULE ArchiveConsumer ---------------------------
(***************************************************************************)
(* ArchiveConsumer.run (src/logfilter/kafka/consumer.py): poll a batch,    *)
(* bulk-index it through the Elasticsearch circuit breaker, commit; on any *)
(* exception dead-letter every record of the batch and commit, or, without *)
(* a DLQ producer, log and poll on.                                        *)
(*                                                                         *)
(* One process consumes one partition whose records are offsets 1..LogEnd. *)
(* "position" is the client's fetch position, which lives in the process   *)
(* and is advanced by poll(); "committed" lives in the broker.  A document *)
(* id is a function of the offset, so "archived" is a set of offsets.      *)
(***************************************************************************)
EXTENDS BreakerState

CONSTANTS LogEnd,             (* offsets on the partition                  *)
          BatchSize,          (* max_poll_records                          *)
          HasDLQ,             (* was a DLQ producer configured?            *)
          Odd,                (* offsets whose value is not a JSON object  *)
          NoLetter,           (* records that send_dlq can never write, see
                                 Router                                    *)
          MaxFaults           (* bound on crashes, rebalances and failing
                                 commits and, of the other records,
                                 dead-letter sends                         *)

ASSUME ArchiveAssumption ==
    /\ LogEnd \in Nat
    /\ BatchSize \in Nat \ {0}
    /\ HasDLQ \in BOOLEAN
    /\ Odd \subseteq 1..LogEnd
    /\ NoLetter \subseteq 1..LogEnd
    /\ MaxFaults \in Nat

VARIABLES pc,                 (* where run() is                            *)
          position,           (* last offset fetched                       *)
          lo,                 (* the batch in hand is lo+1..position       *)
          next,               (* next offset to dead-letter                *)
          es_breaker,         (* _es_breaker                               *)
          archived,           (* offsets with a document in the index      *)
          dead,               (* offsets with a message in the DLQ topic   *)
          committed,          (* committed offset of logfilter-archiver    *)
          faults              (* faults so far                             *)

process == <<pc, position, lo, next, es_breaker>>
vars == <<pc, position, lo, next, es_breaker, archived, dead, committed, faults>>

Offsets == 1..LogEnd
Batch == lo + 1 .. position
Settled == archived \cup dead

Init ==
    /\ pc = "down"
    /\ position = 0 /\ lo = 0 /\ next = 1
    /\ es_breaker = NewBreaker
    /\ archived = {} /\ dead = {}
    /\ committed = 0
    /\ faults = 0

Fault == faults < MaxFaults /\ faults' = faults + 1
-----------------------------------------------------------------------------
(* The process starts, or is restarted, at the committed offset. *)
Start ==
    /\ pc = "down"
    /\ pc' = "poll"
    /\ position' = committed
    /\ lo' = committed /\ next' = committed + 1
    /\ es_breaker' = NewBreaker
    /\ UNCHANGED <<archived, dead, committed, faults>>

\* Lines 105-112: poll returns up to BatchSize records and moves the position.
Fetch ==
    /\ pc = "poll"
    /\ \E n \in 1..BatchSize :
          /\ position + n <= LogEnd
          /\ position' = position + n
    /\ lo' = position
    /\ next' = position + 1
    /\ UNCHANGED <<es_breaker, archived, dead, committed, faults>>

\* Mutated form: a record that is not an object is left out of the request.
PollFilters ==
    /\ Fetch
    /\ pc' = "bulk"

\* Lines 113-151: every record of the batch becomes two lines of the request.
Poll ==
    /\ Fetch
    /\ Batch' \cap Odd = {}
    /\ pc' = "bulk"

\* The deserializer of line 95 raises in poll() at line 106 for a value that is
\* not JSON, payload.get at line 127 for one that is not an object: outside the
\* try of line 162, so the exception leaves run() and the process ends; none of
\* the batch is settled.
PollRaises ==
    /\ Fetch
    /\ Batch' \cap Odd # {}
    /\ pc' = "down"

\* The poll times out, also when there are records that the fetcher has not
\* received yet; the loop polls again.
EmptyPoll ==
    /\ pc = "poll"
    /\ UNCHANGED vars

\* The except branch, line 171: with a DLQ producer the batch is dead-lettered
\* from its first record, without one the loop goes on to the next poll.
OnException ==
    /\ pc' = IF HasDLQ THEN "dlq" ELSE "poll"
    /\ next' = lo + 1

\* Line 163, CircuitBreakerOpen: nothing is sent to Elasticsearch.
BulkRejected ==
    /\ pc = "bulk"
    /\ ~Admits(es_breaker)
    /\ es_breaker' = Entered(es_breaker)
    /\ OnException
    /\ UNCHANGED <<position, lo, archived, dead, committed, faults>>

\* Line 163: every document of the batch is indexed.
BulkIndexed ==
    /\ pc = "bulk"
    /\ Admits(es_breaker)
    /\ es_breaker' = AfterSuccess(Entered(es_breaker))
    /\ archived' = archived \cup Batch
    /\ pc' = "indexed"
    /\ UNCHANGED <<position, lo, next, dead, committed, faults>>

\* Mutated form: result["errors"] is not looked at.
BulkErrorsIgnored ==
    /\ pc = "bulk"
    /\ Admits(es_breaker)
    /\ es_breaker' = AfterSuccess(Entered(es_breaker))
    /\ \E some \in SUBSET Batch : archived' = archived \cup some
    /\ pc' = "indexed"
    /\ UNCHANGED <<position, lo, next, dead, committed, faults>>

\* Lines 164-165: the bulk call returns, so the breaker counts a success, but
\* only some documents were indexed and the response says so.
BulkPartlyIndexed ==
    /\ pc = "bulk"
    /\ Admits(es_breaker)
    /\ es_breaker' = AfterSuccess(Entered(es_breaker))
    /\ \E some \in SUBSET Batch :
          some # Batch /\ archived' = archived \cup some
    /\ OnException
    /\ UNCHANGED <<position, lo, dead, committed, faults>>

\* Line 163: the bulk call raises; a request that timed out may still have
\* been applied.
BulkRaises ==
    /\ pc = "bulk"
    /\ Admits(es_breaker)
    /\ es_breaker' = AfterFailure(Entered(es_breaker))
    /\ \E some \in SUBSET Batch : archived' = archived \cup some
    /\ OnException
    /\ UNCHANGED <<position, lo, dead, committed, faults>>

\* Line 168: commit() commits the position.
Commit ==
    /\ pc = "indexed"
    /\ committed' = position
    /\ pc' = "poll"
    /\ UNCHANGED <<position, lo, next, es_breaker, archived, dead, faults>>

\* Line 168: commit() raises (broker error, or the member was fenced).
CommitRaises ==
    /\ pc = "indexed"
    /\ Fault
    /\ OnException
    /\ UNCHANGED <<position, lo, es_breaker, archived, dead, committed>>

\* Lines 177-184, one record: send_dlq has retried and been acknowledged.
DeadLetter ==
    /\ pc = "dlq"
    /\ next <= position /\ next \notin NoLetter
    /\ dead' = dead \cup {next}
    /\ next' = next + 1
    /\ UNCHANGED <<pc, position, lo, es_breaker, archived, committed, faults>>

\* Line 179 raises after its retries: the exception leaves run() and the
\* process ends.  For a record of NoLetter it always does; for another it is a
\* fault, and an attempt that timed out may have reached the topic.
DeadLetterRaises ==
    /\ pc = "dlq"
    /\ next <= position
    /\ IF next \in NoLetter
       THEN UNCHANGED <<dead, faults>>
       ELSE Fault /\ dead' \in {dead, dead \cup {next}}
    /\ pc' = "down"
    /\ UNCHANGED <<position, lo, next, es_breaker, archived, committed>>

\* Mutated form: committing before the batch is dead-lettered.
CommitDeadEarly ==
    /\ pc = "dlq"
    /\ committed' = position
    /\ pc' = "poll"
    /\ UNCHANGED <<position, lo, next, es_breaker, archived, dead, faults>>

\* Mutated form: the commit after dead-lettering is missing.
CommitDeadMissing ==
    /\ pc = "dlq"
    /\ next > position
    /\ pc' = "poll"
    /\ UNCHANGED <<position, lo, next, es_breaker, archived, dead, committed,
                   faults>>

\* Line 185.
CommitDead ==
    /\ pc = "dlq"
    /\ next > position
    /\ committed' = position
    /\ pc' = "poll"
    /\ UNCHANGED <<position, lo, next, es_breaker, archived, dead, faults>>

CommitDeadRaises ==
    /\ pc = "dlq"
    /\ next > position
    /\ Fault
    /\ pc' = "down"
    /\ UNCHANGED <<position, lo, next, es_breaker, archived, dead, committed>>
-----------------------------------------------------------------------------
(* The environment. *)

\* The process is killed at any point of the loop.
Crash ==
    /\ pc # "down"
    /\ Fault
    /\ pc' = "down"
    /\ UNCHANGED <<position, lo, next, es_breaker, archived, dead, committed>>

\* poll() rejoins the group and is assigned the partition again: the position
\* goes back to the committed offset.
Rebalance ==
    /\ pc = "poll"
    /\ Fault
    /\ position' = committed
    /\ UNCHANGED <<pc, lo, next, es_breaker, archived, dead, committed>>

Tick ==
    /\ es_breaker.elapsed < RecoveryTimeout
    /\ es_breaker' = Aged(es_breaker)
    /\ UNCHANGED <<pc, position, lo, next, archived, dead, committed, faults>>

RunLoop ==
    \/ Poll        \/ BulkRejected \/ BulkIndexed      \/ BulkPartlyIndexed
    \/ BulkRaises  \/ Commit       \/ CommitRaises     \/ DeadLetter
    \/ CommitDead  \/ EmptyPoll    \/ DeadLetterRaises \/ CommitDeadRaises
    \/ PollRaises

Next == Start \/ RunLoop \/ Crash \/ Rebalance \/ Tick

Spec == Init /\ [][Next]_vars

\* The process is restarted by its supervisor and its loop is scheduled; the
\* bulk calls may fail for ever.
Fairness == WF_vars(Start) /\ WF_vars(RunLoop)

FairSpec == Spec /\ Fairness
-----------------------------------------------------------------------------
(* Properties. *)

TypeOK ==
    /\ pc \in {"down", "poll", "bulk", "indexed", "dlq"}
    /\ position \in 0..LogEnd
    /\ lo \in 0..LogEnd
    /\ next \in 1..LogEnd + 1
    /\ es_breaker \in Breaker
    /\ archived \subseteq Offsets
    /\ dead \subseteq Offsets
    /\ committed \in 0..LogEnd
    /\ faults \in 0..MaxFaults

\* A record below the committed offset, which no restart will read again, has
\* a document in Elasticsearch or a message in the dead-letter topic.
NothingLost == 1..committed \subseteq Settled

\* A record that is not an object holds the archive up: the offset stays below
\* it for ever, so it is not lost, and nothing after it is archived either.
\* The router reads the same record as text and goes on, if it is JSON.
NeverPastOdd == \A o \in Odd : committed < o

\* The strengthening the proofs use: what each point of run() may rely on.
ArchiveInv ==
    /\ NothingLost
    /\ NeverPastOdd
    /\ pc # "down" => committed <= position /\ \A o \in Odd : position < o
    /\ pc = "poll" => 1..position \subseteq Settled
    /\ pc \in {"bulk", "indexed", "dlq"} =>
          committed <= lo /\ lo <= position /\ 1..lo \subseteq Settled
    /\ pc = "indexed" => Batch \subseteq archived
    /\ pc = "dlq" =>
          /\ next \in lo + 1 .. position + 1
          /\ lo + 1 .. next - 1 \subseteq dead

\* The consumer keeps the promise of an at-least-once consumer group.
ALO == INSTANCE AtLeastOnce WITH settled <- Settled

ImplementsAtLeastOnce == ALO!Spec

\* The archive is sure to come as far as a batch that cannot include a record that
\* stops it for ever.
Reach ==
    LET stops == Odd \cup NoLetter
    IN  IF stops = {} THEN LogEnd
        ELSE LET first == CHOOSE o \in stops : \A p \in stops : o <= p
             IN  first - BatchSize

\* Whatever Elasticsearch does, every record that none of those keeps from it is
\* eventually settled and its offset committed: an outage diverts records and
\* never blocks the group.
Drains == <>(committed >= Reach)
=============================================================================
