------------------------------ MODULE DLQReplay ------------------------------
(***************************************************************************)
(* DLQReplay.run (src/logfilter/kafka_router.py) and the cycle it closes:  *)
(* the groups that read raw-logs dead-letter what they cannot handle, and  *)
(* the replay writes it to raw-logs again, for every group to read, with   *)
(* its replay count raised.                                                *)
(*                                                                         *)
(* A record of either topic is its _dlq_replay_count, the only field the   *)
(* replay looks at: send_dlq keeps the event as it was, so the count       *)
(* comes back with it.  An offset is an index into the topic.              *)
(***************************************************************************)
EXTENDS Integers, Sequences, FiniteSets

CONSTANTS Groups,             (* consumer groups of raw-logs with a DLQ    *)
          Originals,          (* events that the collector published       *)
          ReplayLimit,        (* the 3 of "replay_count > 3"               *)
          BatchSize,          (* max_poll_records                          *)
          MaxEmptyPolls,      (* max_empty_polls                           *)
          Limits,             (* max_messages that runs are given, or
                                 NoLimit for None                          *)
          NoLimit,
          MaxFaults           (* bound on crashes, failing commits, and
                                 sends that raise or time out              *)

ASSUME ReplayAssumption ==
    /\ IsFiniteSet(Groups)
    /\ Originals \in Nat
    /\ ReplayLimit \in Nat
    /\ BatchSize \in Nat \ {0}
    /\ MaxEmptyPolls \in Nat \ {0}
    /\ NoLimit \notin Nat
    /\ Limits \in SUBSET (Nat \cup {NoLimit})
    /\ MaxFaults \in Nat

VARIABLES raw,                (* the raw-logs topic                        *)
          dlq,                (* the dead-letter topic                     *)
          read,               (* offset each group has read of raw-logs    *)
          pc,                 (* where run() is                            *)
          position,           (* last offset fetched from the DLQ          *)
          next,               (* next offset of the batch to replay        *)
          left,               (* of max_messages of this run, or NoLimit   *)
          empty_polls,        (* empty polls in a row                      *)
          committed,          (* committed offset of the replay's group    *)
          settled,            (* history: DLQ offsets replayed, at the
                                 replay limit, or given up by the producer *)
          cut,                (* history: DLQ offsets left in a batch that
                                 max_messages cut short                    *)
          faults              (* faults so far                             *)

topics == <<raw, dlq, read>>
loop == <<pc, position, next, left, empty_polls>>
vars == <<raw, dlq, read, pc, position, next, left, empty_polls, committed,
          settled, cut, faults>>

Init ==
    /\ raw = [i \in 1..Originals |-> 0]
    /\ dlq = <<>>
    /\ read = [g \in Groups |-> 0]
    /\ pc = "down"
    /\ position = 0 /\ next = 1 /\ left = NoLimit /\ empty_polls = 0
    /\ committed = 0
    /\ settled = {}
    /\ cut = {}
    /\ faults = 0

Fault == faults < MaxFaults /\ faults' = faults + 1
-----------------------------------------------------------------------------
(* The groups that read raw-logs. *)

\* A group settles its next record, in its sink or in the DLQ.
Consume(g) ==
    /\ read[g] < Len(raw)
    /\ read' = [read EXCEPT ![g] = @ + 1]
    /\ dlq' \in {dlq, Append(dlq, raw[read[g] + 1])}
    /\ UNCHANGED <<raw, loop, committed, settled, faults, cut>>

\* An attempt of send_dlq gives up after ten seconds on a dead letter that is
\* written all the same, and the record is still in hand: the next attempt
\* (producer.py:142-146), or the group when it reads the record again, settles
\* it.
LetterTimesOut(g) ==
    /\ Fault
    /\ read[g] < Len(raw)
    /\ dlq' = Append(dlq, raw[read[g] + 1])
    /\ UNCHANGED <<raw, read, loop, committed, settled, cut>>

\* It crashes before its commit and reads a batch again.
ReadAgain(g) ==
    /\ Fault
    /\ \E n \in 1..BatchSize :
          n <= read[g] /\ read' = [read EXCEPT ![g] = @ - n]
    /\ UNCHANGED <<raw, dlq, loop, committed, settled, cut>>
-----------------------------------------------------------------------------
(* One run of the replay. *)

\* Lines 304 and 336-341: a run starts at the committed offset.
Start ==
    /\ pc = "down"
    /\ pc' = "poll"
    /\ position' = committed
    /\ next' = committed + 1
    /\ left' \in Limits /\ empty_polls' = 0
    /\ UNCHANGED <<topics, committed, settled, faults, cut>>

LimitReached == left = 0

\* Lines 344 and 350-352.
Poll ==
    /\ pc = "poll"
    /\ \E n \in 1..BatchSize :
          position + n <= Len(dlq) /\ position' = position + n
    /\ next' = position + 1
    /\ empty_polls' = 0
    /\ pc' = "replay"
    /\ UNCHANGED <<topics, left, committed, settled, faults, cut>>

\* Lines 345-348: nothing came within the poll time-out; the last of
\* max_empty_polls in a row ends the run.
EmptyPoll ==
    /\ pc = "poll"
    /\ empty_polls' = empty_polls + 1
    /\ pc' = IF empty_polls' >= MaxEmptyPolls THEN "down" ELSE "poll"
    /\ UNCHANGED <<topics, position, next, left, committed, settled, faults, cut>>

\* Lines 353-355: max_messages ends the loop over the batch.
StopInBatch ==
    /\ pc = "replay"
    /\ next <= position
    /\ LimitReached
    /\ cut' = cut \cup next..position
    /\ pc' = "commit"
    /\ UNCHANGED <<topics, position, next, left, empty_polls, committed,
                   settled, faults>>

\* The record in hand may be replayed.
HasReplay ==
    /\ pc = "replay"
    /\ next <= position
    /\ ~LimitReached
    /\ dlq[next] < ReplayLimit

\* Mutated form: the loop does not get past a record at the limit.
ExpireStays ==
    /\ pc = "replay"
    /\ next <= position
    /\ ~LimitReached
    /\ dlq[next] >= ReplayLimit
    /\ UNCHANGED vars

\* Lines 322-324 and 356-358: the record has been replayed often enough.
Expire ==
    /\ pc = "replay"
    /\ next <= position
    /\ ~LimitReached
    /\ dlq[next] >= ReplayLimit
    /\ settled' = settled \cup {next}
    /\ next' = next + 1
    /\ UNCHANGED <<topics, pc, position, left, empty_polls, committed,
                   faults, cut>>

\* Mutated form: the count is not stored in the event.
RaisedNever == Append(raw, dlq[next])

\* Line 325: the event as it was, with its count raised.
Raised == Append(raw, dlq[next] + 1)

\* Line 360.
CountOne == left' = IF left = NoLimit THEN NoLimit ELSE left - 1

\* Lines 326-334 and 359-360.
Publish ==
    /\ HasReplay
    /\ raw' = Raised
    /\ settled' = settled \cup {next}
    /\ next' = next + 1
    /\ CountOne
    /\ UNCHANGED <<dlq, read, pc, position, empty_polls, committed,
                   faults, cut>>

\* Line 334: flush() returns although the delivery failed; the future that
\* says so is not read.
PublishLost ==
    /\ HasReplay
    /\ settled' = settled \cup {next}
    /\ next' = next + 1
    /\ CountOne
    /\ UNCHANGED <<topics, pc, position, empty_polls, committed,
                   faults, cut>>

\* Mutated form: the exception is caught and the loop goes on.
PublishRaisesCaught ==
    /\ HasReplay
    /\ Fault
    /\ next' = next + 1
    /\ UNCHANGED <<topics, pc, position, left, empty_polls, committed, settled, cut>>

\* send() or flush() raises, which ends the run; the record may have gone out.
PublishRaises ==
    /\ HasReplay
    /\ Fault
    /\ \/ raw' = Raised /\ settled' = settled \cup {next}
       \/ UNCHANGED <<raw, settled>>
    /\ pc' = "down"
    /\ UNCHANGED <<dlq, read, position, next, left, empty_polls, committed, cut>>

EndOfBatch ==
    /\ pc = "replay"
    /\ next > position
    /\ pc' = "commit"
    /\ UNCHANGED <<topics, position, next, left, empty_polls, committed,
                   settled, faults, cut>>

\* Lines 365-367: the position, the end of the batch that was fetched, is
\* committed, also when max_messages ended the batch early.
Commit ==
    /\ pc = "commit"
    /\ committed' = position
    /\ pc' = IF LimitReached THEN "down" ELSE "poll"
    /\ UNCHANGED <<topics, position, next, left, empty_polls, settled,
                   faults, cut>>

CommitRaises ==
    /\ pc = "commit"
    /\ Fault
    /\ pc' = "down"
    /\ UNCHANGED <<topics, position, next, left, empty_polls, committed,
                   settled, cut>>

Crash ==
    /\ pc # "down"
    /\ Fault
    /\ pc' = "down"
    /\ UNCHANGED <<topics, position, next, left, empty_polls, committed,
                   settled, cut>>

Batch == StopInBatch \/ Expire \/ Publish \/ PublishLost \/ PublishRaises \/ EndOfBatch

Run == Start \/ EmptyPoll \/ Batch \/ Commit \/ CommitRaises

Next ==
    \/ \E g \in Groups : Consume(g) \/ LetterTimesOut(g) \/ ReadAgain(g)
    \/ Run \/ Poll \/ Crash

Spec == Init /\ [][Next]_vars

\* The groups keep reading, someone keeps starting the replay, and a poll that
\* could return records does not come back empty for ever.
Fairness ==
    /\ \A g \in Groups : WF_vars(Consume(g))
    /\ WF_vars(Run)
    /\ SF_vars(Poll)

FairSpec == Spec /\ Fairness
-----------------------------------------------------------------------------
(* Properties. *)

Counts == 0..ReplayLimit

TypeOK ==
    /\ raw \in Seq(Counts)
    /\ dlq \in Seq(Counts)
    /\ read \in [Groups -> 0..Len(raw)]
    /\ pc \in {"down", "poll", "replay", "commit"}
    /\ position \in 0..Len(dlq)
    /\ next \in 1..position + 1
    /\ left \in Nat \cup {NoLimit}
    /\ empty_polls \in 0..MaxEmptyPolls
    /\ pc # "down" => empty_polls < MaxEmptyPolls
    /\ committed \in 0..Len(dlq)
    /\ settled \subseteq 1..Len(dlq)
    /\ cut \subseteq 1..Len(dlq)
    /\ faults \in 0..MaxFaults

\* Every dead letter the replay will not read again was written back to
\* raw-logs, has used up its replays, was given up by the producer, or was left
\* in a batch that max_messages cut short.
NothingSkipped == 1..committed \subseteq settled \cup cut

\* The same without the last: "Replay dead-lettered messages back to their
\* original topic" (kafka_router.py:287).
AllReplayed == 1..committed \subseteq settled

\* The strengthening the proofs use: what each point of run() may rely on.
ReplayInv ==
    /\ NothingSkipped
    /\ pc # "down" => committed <= position
    /\ pc = "replay" => 1 .. next - 1 \subseteq settled \cup cut
    /\ pc \in {"poll", "commit"} => 1..position \subseteq settled \cup cut
    /\ Limits = {NoLimit} => left = NoLimit /\ cut = {}

\* Records that descend from one record on raw-logs through at most n replays,
\* itself included, when every group dead-letters every one of them.
Descendants[n \in 0..ReplayLimit] ==
    IF n = 0 THEN 1 ELSE 1 + Cardinality(Groups) * Descendants[n - 1]

\* Two groups that dead-letter the same event make two dead letters of it, and
\* each replay is read by both; still an event comes back a bounded number of
\* times, and a fault adds at most what one batch does.
CopiesBounded ==
    Len(raw) <=
        Originals * Descendants[ReplayLimit]
      + (IF ReplayLimit = 0 THEN 0
         ELSE faults * BatchSize * Descendants[ReplayLimit - 1])

\* An event that no group can handle does not cycle for ever: in the end both
\* topics have been read and everything is committed.
Quiet == committed = Len(dlq) /\ \A g \in Groups : read[g] = Len(raw)
Quiesces == <>[]Quiet
=============================================================================
