-------------------------- MODULE Pipeline_proofs --------------------------
(***************************************************************************)
(* Through retries, resets of the connection, crashes and redelivery, no   *)
(* committed record vanishes but on a connection that died, and every      *)
(* event sent refers to a document the API wrote, or failed to write: for  *)
(* every log length, poll size, limit of the API and number of attempts,   *)
(* and whichever records are refused or have no time stamp.                *)
(***************************************************************************)
EXTENDS Pipeline, TLAPS
-----------------------------------------------------------------------------
\* An event's record and reference are of the kinds TypeOK says.
LEMMA EventTyped ==
    ASSUME NEW o \in Records, NEW n \in Nat
    PROVE  Event(o, n) \in Events /\ Event(o, n)[1] = o
BY DEF Event, Events

\* The records of a set of events are those of its parts.
LEMMA OfUnion ==
    ASSUME NEW A, NEW B, NEW C
    PROVE  Of(A \cup B \cup C) = Of(A) \cup Of(B) \cup Of(C)
BY DEF Of

\* An event that changes its place keeps its record among those of all places.
LEMMA OfGrows ==
    ASSUME NEW A, NEW B, A \subseteq B
    PROVE  Of(A) \subseteq Of(B)
BY DEF Of

LEMMA InitTyped == Init => TypeOK
BY PipelineAssumption DEF Init, TypeOK, Records, Events

\* The references that a scoring makes are events too.
LEMMA ScoreTyped ==
    ASSUME TypeOK, Score
    PROVE  TypeOK'
<1> USE PipelineAssumption
<1>1. scorings' \in [Records -> Nat]
  BY DEF Score, Scored, TypeOK
<1>2. \A o \in Batch : o \in Records
  BY DEF Batch, Records, TypeOK
<1>3. \A o \in Batch : Event(o, scorings'[o]) \in Events
  BY <1>1, <1>2, EventTyped
<1>4. apiDocs' \cup unwritten' \subseteq Events
  BY <1>3 DEF Score, TypeOK
<1>5. next' \in 1..LogEnd + 1 /\ pc' \in {"send", "dlq"}
  BY DEF Score, TypeOK
<1>6. UNCHANGED <<archived, position, tries, committed, dead, socket, faults>>
  BY DEF Score
<1>7. QED
  BY <1>1, <1>4, <1>5, <1>6 DEF TypeOK, socket

\* The record in hand has an event.
LEMMA CurrentTyped ==
    ASSUME TypeOK, pc = "send", next <= position
    PROVE  /\ next \in Records
           /\ Current(next) \in Events
           /\ Current(next)[1] = next
<1>1. next \in Records
  BY PipelineAssumption DEF TypeOK, Records
<1>2. QED
  BY <1>1, EventTyped DEF TypeOK, Current

\* What is dead-lettered of a batch before an event that is not.
LEMMA PrefixTyped ==
    ASSUME TypeOK, NEW o \in Batch
    PROVE  committed + 1 .. o - 1 \subseteq Records
<1>1. o \in committed + 1 .. position /\ committed \in Nat /\ position \in 0..LogEnd
  BY PipelineAssumption DEF Batch, TypeOK
<1>2. QED
  BY <1>1, PipelineAssumption DEF Records

LEMMA StepTyped == TypeOK /\ [Next]_vars => TypeOK'
<1> SUFFICES ASSUME TypeOK, [Next]_vars PROVE TypeOK'
  OBVIOUS
<1> USE PipelineAssumption DEF socket, control, references
<1>1. CASE Archive
  BY <1>1 DEF Archive, Polls, Fetches, TypeOK
<1>2. CASE Start \/ ScoreRefused
  BY <1>2 DEF Start, ScoreRefused, TypeOK
<1>3. CASE Poll
  BY <1>3 DEF Poll, Polls, Fetches, TypeOK
<1>4. CASE Score
  BY <1>4, ScoreTyped
<1>5. CASE Send
  <2>1. Current(next) \in Events
    BY <1>5, CurrentTyped DEF Send
  <2>2. inFlight' \cup received' \cup lost' \subseteq Events
    BY <1>5, <2>1 DEF Send, TypeOK
  <2>3. next' \in 1..LogEnd + 1 /\ tries' \in 0..Attempts - 1
    BY <1>5 DEF Send, TypeOK
  <2>4. sock' \in {"none", "open", "dying"}
    BY <1>5 DEF Send, TypeOK
  <2>5. QED
    BY <1>5, <2>2, <2>3, <2>4 DEF Send, TypeOK
<1>6. CASE SendRaises
  BY <1>6 DEF SendRaises, TypeOK
<1>7. CASE Commit \/ CommitRaises
  BY <1>7 DEF Commit, CommitRaises, TypeOK
<1>8. CASE DeadLetter \/ CommitDead
  <2>1. Batch \subseteq Records
    BY DEF Batch, Records, TypeOK
  <2>2. dead' \subseteq Records
    BY <1>8, <2>1 DEF DeadLetter, CommitDead, TypeOK
  <2>3. committed' \in 0..position
    BY <1>8 DEF DeadLetter, CommitDead, TypeOK
  <2>4. pc' \in {"commit", "poll"}
    BY <1>8 DEF DeadLetter, CommitDead
  <2>5. UNCHANGED <<archived, position, next, tries, socket, references, faults>>
    BY <1>8 DEF DeadLetter, CommitDead
  <2>6. QED
    BY <2>2, <2>3, <2>4, <2>5 DEF TypeOK
<1>9. CASE Crash \/ PollRaises
  BY <1>9 DEF Crash, PollRaises, Die, Fault, TypeOK
<1>10. CASE Deliver
  BY <1>10 DEF Deliver, TypeOK
<1>11. CASE Reset
  BY <1>11 DEF Reset, Fault, TypeOK
<1>12. CASE DeadLetterRaises
  <2>1. dead' \subseteq Records
    BY <1>12, PrefixTyped DEF DeadLetterRaises, TypeOK
  <2>2. Die
    BY <1>12 DEF DeadLetterRaises
  <2>3. UNCHANGED <<archived, committed, inFlight, received, lost, references, faults>>
    BY <1>12 DEF DeadLetterRaises
  <2>4. QED
    BY <2>1, <2>2, <2>3 DEF Die, TypeOK
<1>13. CASE UNCHANGED vars
  BY <1>13 DEF vars, TypeOK
<1>14. QED
  BY <1>1, <1>2, <1>3, <1>4, <1>5, <1>6, <1>7, <1>8, <1>9, <1>10, <1>11, <1>12,
     <1>13
  DEF Next, RouterSteps

\* The router's progress, the connection and the references stay of their
\* kinds, however often a batch is repeated.
THEOREM PipelineTyped == Spec => []TypeOK
BY InitTyped, StepTyped, PTL DEF Spec
-----------------------------------------------------------------------------
(* The invariant. *)

\* What was sent, and where it is now.
Sent == received \cup inFlight \cup lost

LEMMA InitInv == Init => PipelineInv
BY DEF Init, PipelineInv, NothingVanishes, RefsResolve

\* A step that sends nothing and leaves the router where it is keeps the
\* invariant, whatever moves between the connection and QRadar.
LEMMA Moves ==
    ASSUME PipelineInv, Sent' = Sent,
           UNCHANGED <<pc, position, next, committed, dead, references>>
    PROVE  PipelineInv'
<1>1. Of(Sent) = Of(received) \cup Of(inFlight) \cup Of(lost)
      /\ Of(Sent') = Of(received') \cup Of(inFlight') \cup Of(lost')
  <2>1. Of(received \cup inFlight \cup lost)
          = Of(received) \cup Of(inFlight) \cup Of(lost)
    BY OfUnion
  <2>2. Of(received' \cup inFlight' \cup lost')
          = Of(received') \cup Of(inFlight') \cup Of(lost')
    BY OfUnion
  <2>3. QED
    BY <2>1, <2>2 DEF Sent
<1>2. NothingVanishes'
  BY <1>1 DEF PipelineInv, NothingVanishes
<1>3. RefsResolve'
  BY DEF PipelineInv, RefsResolve, Sent, references
<1>4. Batch' = Batch /\ \A o : Current(o)' = Current(o)
  BY DEF Batch, Current, Event, references
<1>5. QED
  BY <1>2, <1>3, <1>4 DEF PipelineInv, Sent, references

\* The same for a step that takes the router to a place where it owes nothing.
LEMMA Leaves ==
    ASSUME PipelineInv, pc' \notin {"send", "commit"},
           committed' = committed, dead' = dead,
           UNCHANGED <<inFlight, received, lost, apiDocs, unwritten>>
    PROVE  PipelineInv'
BY DEF PipelineInv, NothingVanishes, RefsResolve

\* The same when the router ends with part of the batch dead-lettered.
LEMMA LeavesLettering ==
    ASSUME PipelineInv, DeadLetterRaises
    PROVE  PipelineInv'
<1>1. /\ pc' = "down" /\ committed' = committed /\ dead \subseteq dead'
      /\ UNCHANGED <<inFlight, received, lost, apiDocs, unwritten>>
  BY DEF DeadLetterRaises, Die, references
<1>2. QED
  BY <1>1 DEF PipelineInv, NothingVanishes, RefsResolve

\* A scoring writes, or fails to write, the reference of each of its events.
LEMMA ScoreKeepsInv ==
    ASSUME TypeOK, PipelineInv, Score
    PROVE  PipelineInv'
<1> USE PipelineAssumption
<1>1. /\ UNCHANGED <<position, committed, dead, inFlight, received, lost>>
      /\ apiDocs \subseteq apiDocs' /\ unwritten \subseteq unwritten'
  BY DEF Score, socket
<1>2. NothingVanishes' /\ RefsResolve'
  BY <1>1 DEF PipelineInv, NothingVanishes, RefsResolve
<1>3. ASSUME pc' = "send"
      PROVE  next' = committed + 1
  BY <1>3 DEF Score
<1>4. \A o \in Batch : Event(o, scorings'[o]) \in apiDocs' \cup unwritten'
  BY DEF Score, Writes
<1>5. Batch' = Batch /\ \A o : Current(o)' = Event(o, scorings'[o])
  BY <1>1 DEF Batch, Current, Event
<1>6. committed \in Nat /\ position \in Nat /\ committed <= position
  BY DEF TypeOK
<1>7. committed + 1 .. committed + 1 - 1 = {} /\ committed + 1 \in committed + 1 .. position + 1
  BY <1>6
<1>8. pc' \in {"send", "dlq"}
  BY DEF Score
<1>9. QED
  BY <1>1, <1>2, <1>3, <1>4, <1>5, <1>7, <1>8 DEF PipelineInv

\* One more event of the batch is on a connection, or lost with one.
LEMMA SendKeepsInv ==
    ASSUME TypeOK, PipelineInv, Send
    PROVE  PipelineInv'
<1> USE PipelineAssumption
<1>1. /\ pc = "send" /\ pc' = "send" /\ next <= position /\ next' = next + 1
      /\ UNCHANGED <<position, committed, dead, references>>
      /\ Sent' = Sent \cup {Current(next)}
      /\ received \subseteq received' /\ inFlight \subseteq inFlight' /\ lost \subseteq lost'
  BY DEF Send, Sent
<1>2. next \in Records /\ Current(next)[1] = next
  BY <1>1, CurrentTyped
<1>3. next \in committed + 1 .. position + 1 /\ committed \in Nat /\ position \in Nat
      /\ next \in Nat
  BY <1>1 DEF PipelineInv, TypeOK
<1>4. next \in Batch
  BY <1>1, <1>3 DEF Batch
<1>5. NothingVanishes'
  BY <1>1, OfGrows DEF PipelineInv, NothingVanishes
<1>6. Current(next) \in apiDocs \cup unwritten
  BY <1>1, <1>4 DEF PipelineInv
<1>7. RefsResolve'
  BY <1>1, <1>6 DEF PipelineInv, RefsResolve, Sent, references
<1>8. committed + 1 .. next' - 1 = (committed + 1 .. next - 1) \cup {next}
  BY <1>1, <1>3
<1>9. Of(Sent') = Of(Sent) \cup {next}
  BY <1>1, <1>2 DEF Of
<1>10. committed + 1 .. next - 1 \subseteq Of(Sent)
  BY <1>1 DEF PipelineInv, Sent
<1>11. next' \in committed + 1 .. position + 1
  BY <1>1, <1>3
<1>12. Batch' = Batch /\ \A o : Current(o)' = Current(o)
  BY <1>1 DEF Batch, Current, Event, references
<1>13. (committed + 1 .. next - 1 \subseteq Of(Sent))'
  BY <1>1, <1>8, <1>9, <1>10
<1>14. QED
  BY <1>1, <1>5, <1>7, <1>11, <1>12, <1>13 DEF PipelineInv, Sent, references

\* The commit follows the last event of the batch.
LEMMA CommitKeepsInv ==
    ASSUME TypeOK, PipelineInv, Commit
    PROVE  PipelineInv'
<1>1. /\ pc = "send" /\ pc' = "poll" /\ next > position /\ committed' = position
      /\ UNCHANGED <<dead, inFlight, received, lost, apiDocs, unwritten>>
  BY DEF Commit, socket, references
<1>2. /\ next \in committed + 1 .. position + 1
      /\ committed + 1 .. next - 1 \subseteq Of(Sent)
      /\ committed \in Nat /\ position \in Nat /\ next \in Nat /\ committed <= position
  <2>1. /\ next \in committed + 1 .. position + 1
        /\ committed + 1 .. next - 1 \subseteq Of(Sent)
    BY <1>1 DEF PipelineInv, Sent
  <2>2. committed \in Nat /\ position \in Nat /\ next \in Nat /\ committed <= position
    BY PipelineAssumption DEF TypeOK
  <2>3. QED
    BY <2>1, <2>2
<1>3. 1..position = (1..committed) \cup (committed + 1 .. next - 1)
  BY <1>1, <1>2
<1>4. Of(Sent) = Of(received) \cup Of(inFlight) \cup Of(lost)
  BY OfUnion DEF Sent
<1>5. NothingVanishes'
  BY <1>1, <1>2, <1>3, <1>4 DEF PipelineInv, NothingVanishes
<1>6. QED
  BY <1>1, <1>5 DEF PipelineInv, RefsResolve

\* Dead-lettering takes the whole batch, what was sent of it included.
LEMMA DeadLetterKeepsInv ==
    ASSUME PipelineInv, DeadLetter
    PROVE  PipelineInv'
<1>1. /\ pc' = "commit" /\ dead' = dead \cup Batch
      /\ UNCHANGED <<position, committed, inFlight, received, lost, apiDocs, unwritten>>
  BY DEF DeadLetter, socket, references
<1>2. Batch' = Batch
  BY <1>1 DEF Batch
<1>3. QED
  BY <1>1, <1>2 DEF PipelineInv, NothingVanishes, RefsResolve

\* And the commit that follows finds the batch dead-lettered.
LEMMA CommitDeadKeepsInv ==
    ASSUME TypeOK, PipelineInv, CommitDead
    PROVE  PipelineInv'
<1>1. /\ pc = "commit" /\ pc' = "poll" /\ committed' = position
      /\ UNCHANGED <<dead, inFlight, received, lost, apiDocs, unwritten>>
  BY DEF CommitDead, socket, references
<1>2. committed \in Nat /\ position \in Nat /\ committed <= position
  BY PipelineAssumption DEF TypeOK
<1>3. 1..position = (1..committed) \cup Batch
  BY <1>2 DEF Batch
<1>4. NothingVanishes'
  BY <1>1, <1>3 DEF PipelineInv, NothingVanishes
<1>5. QED
  BY <1>1, <1>4 DEF PipelineInv, RefsResolve

LEMMA StepKeepsInv ==
    TypeOK /\ PipelineInv /\ [Next]_vars => PipelineInv'
<1> SUFFICES ASSUME TypeOK, PipelineInv, [Next]_vars PROVE PipelineInv'
  OBVIOUS
<1> USE DEF socket, control, references
<1>1. CASE Archive
  BY <1>1, Moves DEF Archive, Sent
<1>2. CASE Start \/ Poll \/ PollRaises \/ ScoreRefused \/ CommitRaises \/ Crash
  BY <1>2, Leaves DEF Start, Poll, PollRaises, ScoreRefused, CommitRaises, Crash, Die
<1>3. CASE Score
  BY <1>3, ScoreKeepsInv
<1>4. CASE Send
  BY <1>4, SendKeepsInv
<1>5. CASE SendRaises
  <2>1. CASE pc' = pc
    BY <1>5, <2>1, Moves DEF SendRaises, Sent
  <2>2. CASE pc' = "dlq"
    BY <1>5, <2>2, Leaves DEF SendRaises
  <2>3. QED
    BY <1>5, <2>1, <2>2 DEF SendRaises
<1>6. CASE Commit
  BY <1>6, CommitKeepsInv
<1>7. CASE DeadLetter \/ DeadLetterRaises \/ CommitDead
  BY <1>7, DeadLetterKeepsInv, LeavesLettering, CommitDeadKeepsInv
<1>8. CASE Deliver
  <2>1. Sent' = Sent
    BY <1>8 DEF Deliver, Sent
  <2>2. QED
    BY <1>8, <2>1, Moves DEF Deliver
<1>9. CASE Reset
  <2>1. Sent' = Sent
    BY <1>9 DEF Reset, Sent
  <2>2. QED
    BY <1>9, <2>1, Moves DEF Reset
<1>10. CASE UNCHANGED vars
  BY <1>10, Moves DEF vars, Sent
<1>11. QED
  BY <1>1, <1>2, <1>3, <1>4, <1>5, <1>6, <1>7, <1>8, <1>9, <1>10
  DEF Next, RouterSteps

\* In the middle of a batch the events before next are on their way or lost
\* with a connection, and the events to come have their documents.
THEOREM PipelineInvariant == Spec => []PipelineInv
BY InitInv, StepKeepsInv, PipelineTyped, PTL DEF Spec

\* A record that the router has committed is at QRadar, on its way there,
\* dead-lettered, or was written to a connection that died.
THEOREM CommittedIsSent == Spec => []NothingVanishes
<1>1. PipelineInv => NothingVanishes
  BY DEF PipelineInv
<1>2. QED
  BY <1>1, PipelineInvariant, PTL

\* Every event sent refers to a document the API wrote or failed to write for
\* that very scoring, however often records are scored and sent again.
THEOREM ReferencesResolve == Spec => []RefsResolve
<1>1. PipelineInv => RefsResolve
  BY DEF PipelineInv
<1>2. QED
  BY <1>1, PipelineInvariant, PTL
-----------------------------------------------------------------------------
(* The router of the pipeline is one of the groups of AtLeastOnce. *)

\* What is settled is settled for good, and is of the log.
LEMMA SettledGrows ==
    ASSUME TypeOK, TypeOK', Next
    PROVE  Settled \subseteq Settled' /\ Settled' \in SUBSET (1..LogEnd)
<1>1. Sent \subseteq Sent' /\ dead \subseteq dead'
  BY DEF Next, RouterSteps, Archive, Start, Poll, PollRaises, Score, ScoreRefused, Send,
         SendRaises, Commit, CommitRaises, DeadLetter, DeadLetterRaises, CommitDead,
         Crash, Die, Deliver, Reset, Sent, socket, control, references
<1>2. Of(Sent) \subseteq Of(Sent')
  BY <1>1, OfGrows
<1>3. Sent' \subseteq Events /\ dead' \subseteq Records
  BY DEF TypeOK, Sent
<1>4. Of(Sent') \subseteq Records
  BY <1>3 DEF Of, Events
<1>5. Settled = Of(Sent) \cup dead /\ Settled' = Of(Sent') \cup dead'
  BY DEF Settled, Sent
<1>6. QED
  BY <1>1, <1>2, <1>3, <1>4, <1>5 DEF Records

\* A step either settles or commits what is settled.
LEMMA StepImplements ==
    ASSUME TypeOK, PipelineInv, TypeOK', PipelineInv', [Next]_vars
    PROVE  [ALO!Next]_(ALO!aloVars)
<1>1. CASE UNCHANGED vars
  BY <1>1 DEF vars, socket, Settled, Of, ALO!aloVars
<1>2. CASE Next /\ committed' = committed
  BY <1>2, SettledGrows DEF ALO!Next, ALO!Settle
<1>3. CASE Commit \/ CommitDead
  <2>1. committed' = position /\ UNCHANGED <<received, inFlight, lost, dead>>
    BY <1>3 DEF Commit, CommitDead, socket
  <2>2. Settled' = Settled
    BY <2>1 DEF Settled, Of
  <2>3. committed' \in committed..LogEnd
    BY <2>1, PipelineAssumption DEF TypeOK
  <2>4. Settled' = Of(received') \cup Of(inFlight') \cup Of(lost') \cup dead'
    BY OfUnion DEF Settled
  <2>5. 1..committed' \subseteq Settled
    BY <2>2, <2>4 DEF PipelineInv, NothingVanishes
  <2>6. QED
    BY <2>2, <2>3, <2>5 DEF ALO!Next, ALO!Commit
<1>4. Next => committed' = committed \/ Commit \/ CommitDead
  BY DEF Next, RouterSteps, Archive, Start, Poll, PollRaises, Score, ScoreRefused, Send,
         SendRaises, CommitRaises, DeadLetter, DeadLetterRaises, Crash, Deliver, Reset
<1>5. QED
  BY <1>1, <1>2, <1>3, <1>4

\* Through the limits of the API, retries, resets and crashes, the committed
\* offset only moves forward, over records sent or dead-lettered for good.
THEOREM PipelineImplementsAtLeastOnce == Spec => ImplementsAtLeastOnce
<1>1. Init => ALO!Init
  BY DEF Init, ALO!Init, Settled, Of
<1>2. TypeOK /\ PipelineInv /\ TypeOK' /\ PipelineInv' /\ [Next]_vars
         => [ALO!Next]_(ALO!aloVars)
  BY StepImplements
<1>3. QED
  BY <1>1, <1>2, PipelineTyped, PipelineInvariant, PTL
  DEF Spec, ImplementsAtLeastOnce, ALO!Spec
=============================================================================
