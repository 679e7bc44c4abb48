------------------------------ MODULE Pipeline ------------------------------
(***************************************************************************)
(* The deployed pipeline around one raw partition: the archive consumer    *)
(* (kafka/consumer.py) writes raw logs to Elasticsearch, and independently *)
(* the router (kafka_router.py) has them archived and scored by the API    *)
(* (api/app.py) and sends the LEEF events to QRadar over the socket of     *)
(* SyslogSender (pipeline/router.py).                                      *)
(*                                                                         *)
(* ArchiveConsumer and Router have the loops of the two groups in detail;  *)
(* here each has one process and a dead-letter topic, a batch is handled   *)
(* in fewer steps, the archive consumer's in one, and what both leave      *)
(* behind in Elasticsearch and at QRadar is in the state.                  *)
(*                                                                         *)
(* An event in QRadar is <<o, n>>: record o with the reference it was      *)
(* given by the n-th scoring of o.  The reference hashes the record and    *)
(* its time stamp, so it is the same for every n (0) unless the record has *)
(* none that can be read: then each scoring takes the time of day.         *)
(***************************************************************************)
EXTENDS Naturals, FiniteSets

CONSTANTS LogEnd,             (* offsets 1..LogEnd are on the partition    *)
          Unstamped,          (* records without a readable time stamp     *)
          Long,               (* records the API refuses (schemas.py:13)   *)
          Unreadable,         (* records that are not JSON                 *)
          NoLetter,           (* records that send_dlq can never write, see
                                 Router                                    *)
          PollMax,            (* max_poll_records, of both consumers       *)
          BatchMax,           (* max_batch_size of the API                 *)
          Attempts,           (* of SyslogSender.send                      *)
          MaxFaults           (* bound: crashes and resets of the QRadar
                                 connection                                *)

Records == 1..LogEnd

ASSUME PipelineAssumption ==
    /\ LogEnd \in Nat
    /\ Unstamped \subseteq Records /\ Long \subseteq Records
    /\ Unreadable \subseteq Records /\ NoLetter \subseteq Records
    /\ PollMax \in Nat \ {0} /\ BatchMax \in Nat \ {0}
    /\ Attempts \in Nat \ {0}
    /\ MaxFaults \in Nat

VARIABLES archived,           (* the archive consumer's committed offset:
                                 up to it records are indexed or
                                 dead-lettered                             *)
          pc, position, committed, dead,              (* the router        *)
          next,               (* its place in the batch while it sends     *)
          tries,              (* failed attempts to send that event        *)
          scorings,           (* times each record was given a reference,
                                 other than the one it had                 *)
          sock,               (* SyslogSender._sock                        *)
          inFlight,           (* events written to a live connection       *)
          received,           (* events QRadar has                         *)
          lost,               (* events written to a connection that died  *)
          apiDocs,            (* references the API wrote a document for   *)
          unwritten,          (* references whose document it could not    *)
          faults              (* faults so far                             *)

control == <<pc, position, next, tries>>
socket == <<sock, inFlight, received, lost>>
references == <<scorings, apiDocs, unwritten>>
vars == <<archived, control, committed, dead, socket, references, faults>>

Init ==
    /\ archived = 0
    /\ pc = "down" /\ position = 0 /\ next = 1 /\ tries = 0
    /\ committed = 0 /\ dead = {}
    /\ scorings = [o \in Records |-> 0]
    /\ sock = "none" /\ inFlight = {} /\ received = {} /\ lost = {}
    /\ apiDocs = {} /\ unwritten = {}
    /\ faults = 0

Fault == faults < MaxFaults /\ faults' = faults + 1

\* The offsets a poll may fetch to after the offset at, and those of them up to
\* which every record is JSON: value_deserializer raises in the other polls.
Fetches(at) == {to \in at + 1 .. at + PollMax : to <= LogEnd}
Polls(at) == {to \in Fetches(at) : at + 1 .. to \cap Unreadable = {}}
-----------------------------------------------------------------------------
(* The archive consumer. *)

\* consumer.py:105-185, one batch: its records are indexed or, when the bulk
\* request failed for one of them, dead-lettered, and it commits.  What keeps it
\* from a batch for ever is in ArchiveConsumer, but for Unreadable.
Archive ==
    /\ archived' \in Polls(archived)
    /\ UNCHANGED <<control, committed, dead, socket, references, faults>>
-----------------------------------------------------------------------------
(* The router and the API. *)

Batch == committed + 1 .. position
Event(o, n) == <<o, IF o \in Unstamped THEN n ELSE 0>>
Current(o) == Event(o, scorings[o])

\* Its number with one scoring more: a stamped record keeps its reference.
Scored(o) == IF o \in Unstamped THEN scorings[o] + 1 ELSE 1

Start ==
    /\ pc = "down"
    /\ pc' = "poll" /\ position' = committed
    /\ UNCHANGED <<archived, next, tries, committed, dead, socket, references,
                   faults>>

\* The router's process is gone, and its socket is closed.
Die ==
    /\ pc' = "down" /\ position' = committed /\ next' = 1 /\ tries' = 0
    /\ sock' = "none"

\* kafka_router.py:226-235: a value that is not an object is sent as text.
Poll ==
    /\ pc = "poll"
    /\ position' \in Polls(position)
    /\ pc' = "api"
    /\ UNCHANGED <<archived, next, tries, committed, dead, socket,
                   references, faults>>

\* kafka_router.py:103 raises in poll(), line 224, which ends run().
PollRaises ==
    /\ pc = "poll"
    /\ Fetches(position) \ Polls(position) # {}
    /\ Die
    /\ UNCHANGED <<archived, committed, dead, inFlight, received, lost,
                   references, faults>>

\* The API takes a batch of at most BatchMax events, none of them too long.
Taken(batch) == Cardinality(batch) <= BatchMax /\ batch \cap Long = {}

\* Mutated form: a record that was archived before is not written again.
WriteOnce(o) == scorings[o] = 0

\* app.py:423-431: the API writes a document under the reference of this
\* scoring; op_type=create fails when it exists, which is as good.
Writes(o) == TRUE

\* kafka_router.py:163-169, app.py:441-456 and 475-480: the API archives each
\* event, as far as Elasticsearch lets it, and then scores the batch; which
\* may fail, or the answer may be lost.
Score ==
    /\ pc = "api" /\ Taken(Batch)
    /\ scorings' = [o \in Records |->
                       IF o \in Batch THEN Scored(o) ELSE scorings[o]]
    /\ \E refused \in SUBSET Batch :
          LET refs(S) == {Event(o, scorings'[o]) : o \in S}
          IN  /\ apiDocs' = apiDocs \cup
                               refs({o \in Batch \ refused : Writes(o)})
              /\ unwritten' = unwritten \cup refs(refused)
    /\ \/ pc' = "send" /\ next' = committed + 1
       \/ pc' = "dlq" /\ UNCHANGED next
    /\ UNCHANGED <<archived, position, tries, committed, dead, socket,
                   faults>>

\* The API is down or refuses the batch; or the breaker is open.
ScoreRefused ==
    /\ pc = "api"
    /\ pc' = "dlq"
    /\ UNCHANGED <<archived, position, next, tries, committed, dead,
                   socket, references, faults>>

\* pipeline/router.py:107-117, one attempt that does not raise: it connects if
\* it has to, and writes.  A connection that the other side has reset takes
\* the frame, and loses it.
Send ==
    /\ pc = "send" /\ next <= position
    /\ IF sock = "dying"
       THEN lost' = lost \cup {Current(next)} /\ UNCHANGED <<sock, inFlight>>
       ELSE /\ sock' = "open"
            /\ inFlight' = inFlight \cup {Current(next)}
            /\ UNCHANGED lost
    /\ next' = next + 1 /\ tries' = 0
    /\ UNCHANGED <<archived, pc, position, committed, dead, received,
                   references, faults>>

\* Mutated form: the error is logged and the next event is sent, as in
\* LogRouter.route.
SendGivesUpQuietly ==
    /\ pc = "send" /\ next <= position
    /\ sock' = "none"
    /\ IF tries + 1 < Attempts
       THEN tries' = tries + 1 /\ UNCHANGED <<pc, next>>
       ELSE tries' = 0 /\ next' = next + 1 /\ UNCHANGED pc
    /\ UNCHANGED <<archived, position, committed, dead, inFlight, received,
                   lost, references, faults>>

\* Lines 118-120 and 94-98: connecting or writing raises; after the last
\* attempt the batch goes to the dead-letter topic.
SendRaises ==
    /\ pc = "send" /\ next <= position
    /\ sock' = "none"
    /\ IF tries + 1 < Attempts
       THEN tries' = tries + 1 /\ UNCHANGED <<pc, next>>
       ELSE tries' = 0 /\ pc' = "dlq" /\ next' = 1
    /\ UNCHANGED <<archived, position, committed, dead, inFlight, received,
                   lost, references, faults>>

\* kafka_router.py:208 and 254: scored-logs has the batch, and the offset is
\* committed; or either raises.
Commit ==
    /\ pc = "send" /\ next > position
    /\ committed' = position /\ pc' = "poll" /\ next' = 1
    /\ UNCHANGED <<archived, position, tries, dead, socket, references,
                   faults>>

CommitRaises ==
    /\ pc = "send" /\ next > position
    /\ pc' = "dlq" /\ next' = 1
    /\ UNCHANGED <<archived, position, tries, committed, dead,
                   socket, references, faults>>

\* Mutated form: the offsets are left to the next batch to commit.
DeadLetterUncommitted ==
    /\ pc = "dlq"
    /\ dead' = dead \cup Batch
    /\ pc' = "poll"
    /\ UNCHANGED <<archived, position, next, tries, committed, socket,
                   references, faults>>

\* Mutated form: send_dlq is called after the loop over the batch.
DeadLetterLast ==
    /\ pc = "dlq"
    /\ dead' = dead \cup {position}
    /\ pc' = "commit"
    /\ UNCHANGED <<archived, position, next, tries, committed, socket,
                   references, faults>>

\* kafka_router.py:261-268, for every event of the batch.
DeadLetter ==
    /\ pc = "dlq" /\ Batch \cap NoLetter = {}
    /\ dead' = dead \cup Batch
    /\ pc' = "commit"
    /\ UNCHANGED <<archived, position, next, tries, committed, socket,
                   references, faults>>

\* Line 263 raises at the first event that send_dlq can never write, which ends
\* run() with the events before it dead-lettered.
DeadLetterRaises ==
    /\ pc = "dlq"
    /\ \E o \in Batch \cap NoLetter :
          /\ committed + 1 .. o - 1 \cap NoLetter = {}
          /\ dead' = dead \cup (committed + 1 .. o - 1)
    /\ Die
    /\ UNCHANGED <<archived, committed, inFlight, received, lost, references,
                   faults>>

\* Line 269.
CommitDead ==
    /\ pc = "commit"
    /\ committed' = position /\ pc' = "poll"
    /\ UNCHANGED <<archived, position, next, tries, dead, socket, references,
                   faults>>

Crash ==
    /\ pc # "down"
    /\ Fault
    /\ Die
    /\ UNCHANGED <<archived, committed, dead, inFlight, received, lost,
                   references>>
-----------------------------------------------------------------------------
(* The connection to QRadar. *)

\* TCP delivers what was written, also after the sender has closed.
Deliver ==
    \E e \in inFlight :
        /\ received' = received \cup {e}
        /\ inFlight' = inFlight \ {e}
        /\ UNCHANGED <<archived, control, committed, dead, sock, lost,
                       references, faults>>

\* The connection is gone, and what was in it; the sender has yet to notice.
Reset ==
    /\ sock = "open"
    /\ Fault
    /\ sock' = "dying"
    /\ lost' = lost \cup inFlight
    /\ inFlight' = {}
    /\ UNCHANGED <<archived, control, committed, dead, received,
                   references>>

RouterSteps ==
    \/ Start  \/ Poll         \/ PollRaises \/ Score            \/ ScoreRefused
    \/ Send   \/ SendRaises   \/ DeadLetter \/ DeadLetterRaises
    \/ Commit \/ CommitRaises \/ CommitDead

Next ==
    \/ Archive \/ RouterSteps \/ Deliver \/ Crash \/ Reset

Spec == Init /\ [][Next]_vars

\* Both processes are restarted and scheduled, and TCP delivers.
\* Elasticsearch, the API and QRadar may fail for ever.
Fairness == WF_vars(Archive) /\ WF_vars(RouterSteps) /\ WF_vars(Deliver)

FairSpec == Spec /\ Fairness
-----------------------------------------------------------------------------
(* Properties. *)

Events == Records \X Nat

TypeOK ==
    /\ archived \in 0..LogEnd
    /\ pc \in {"down", "poll", "api", "send", "dlq", "commit"}
    /\ committed \in 0..position /\ position \in 0..LogEnd
    /\ next \in 1..LogEnd + 1 /\ tries \in 0..Attempts - 1
    /\ dead \subseteq Records
    /\ scorings \in [Records -> Nat]
    /\ sock \in {"none", "open", "dying"}
    /\ inFlight \cup received \cup lost \subseteq Events
    /\ apiDocs \cup unwritten \subseteq Events
    /\ faults \in 0..MaxFaults

\* The records of a set of events.
Of(events) == {e[1] : e \in events}

\* A record the router has committed is in QRadar, on its way there or in the
\* dead-letter topic; the only other end it can have had is a connection that
\* was reset after send() had returned, which nothing repeats.
NothingVanishes ==
    1..committed \subseteq Of(received) \cup Of(inFlight) \cup dead \cup Of(lost)

\* The reference in an event that QRadar has leads to a document with the raw
\* log, unless the API failed to write that very document: retries, restarts
\* and redelivery never leave an event with the reference of another attempt.
RefsResolve == received \cup inFlight \cup lost \subseteq apiDocs \cup unwritten

\* The strengthening the proofs use: in the middle of a batch, what was sent so
\* far is no longer the router's, and what it will send has its reference; what
\* is committed after an exception is dead-lettered.
PipelineInv ==
    /\ NothingVanishes
    /\ RefsResolve
    /\ pc = "send" =>
          /\ next \in committed + 1 .. position + 1
          /\ committed + 1 .. next - 1 \subseteq Of(received \cup inFlight \cup lost)
          /\ \A o \in Batch : Current(o) \in apiDocs \cup unwritten
    /\ pc = "commit" => Batch \subseteq dead

\* What the router's group is done with: the records of which an event was sent,
\* and the dead letters.
Settled == Of(received \cup inFlight \cup lost) \cup dead

ALO == INSTANCE AtLeastOnce WITH settled <- Settled

\* Also with the limits of the API, QRadar's socket and its resets the router
\* does what AtLeastOnce says: its committed offset only moves forward, over
\* records that are settled, and nothing that is settled is taken back.
ImplementsAtLeastOnce == ALO!Spec

\* The router is sure to come as far as a batch that cannot include a record that
\* stops it for ever.
Reach ==
    LET stops == Unreadable \cup NoLetter
    IN  IF stops = {} THEN LogEnd
        ELSE LET first == CHOOSE o \in stops : \A p \in stops : o <= p
             IN  first - PollMax

\* Every record that none of those keeps from it is eventually committed,
\* whatever the API refuses and whatever Elasticsearch, the API and QRadar do.
Drains == <>(committed >= Reach)

\* "ALL raw logs have already been archived to Elasticsearch by the archive
\* consumer BEFORE scoring" (pipeline/router.py:11-12).
ArchivedBeforeScored ==
    \A o \in Records : scorings[o] > 0 => o <= archived
=============================================================================
