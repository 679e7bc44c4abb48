--------------------------- MODULE DLQReplay_proofs ---------------------------
(***************************************************************************)
(* A replay skips no dead letter but those that max_messages cuts off, and *)
(* raw-logs holds no more records than the events can have descendants,    *)
(* and a batch more for each fault: for any number of groups, events and   *)
(* faults, and any replay limit and batch size.                            *)
(***************************************************************************)
EXTENDS DLQReplay, SequenceTheorems, FiniteSetTheorems, WellFoundedInduction,
        TLAPS
-----------------------------------------------------------------------------
\* Appending keeps what a topic holds and moves its end by one.
LEMMA Appended ==
    ASSUME NEW topic \in Seq(Counts), NEW c \in Counts
    PROVE  /\ Append(topic, c) \in Seq(Counts)
           /\ Len(Append(topic, c)) = Len(topic) + 1
           /\ \A i \in 1..Len(topic) : Append(topic, c)[i] = topic[i]
OBVIOUS

\* A record of a topic is a count.
LEMMA RecordIsCount ==
    ASSUME NEW topic \in Seq(Counts), NEW i \in 1..Len(topic)
    PROVE  topic[i] \in Counts
OBVIOUS

LEMMA InitTyped == Init => TypeOK
<1> SUFFICES ASSUME Init PROVE TypeOK
  OBVIOUS
<1> USE ReplayAssumption DEF Init, Counts
<1>1. raw \in Seq(Counts) /\ Len(raw) = Originals
  OBVIOUS
<1>2. dlq \in Seq(Counts) /\ Len(dlq) = 0
  OBVIOUS
<1>3. QED
  BY <1>1, <1>2 DEF TypeOK

\* The groups that read raw-logs keep the types.
LEMMA GroupsTyped ==
    ASSUME TypeOK, NEW g \in Groups,
           Consume(g) \/ LetterTimesOut(g) \/ ReadAgain(g)
    PROVE  TypeOK'
<1> USE ReplayAssumption DEF TypeOK
<1>1. CASE Consume(g)
  <2> DEFINE c == raw[read[g] + 1]
  <2>1. read[g] + 1 \in 1..Len(raw)
    BY <1>1 DEF Consume
  <2>2. c \in Counts
    BY <2>1, RecordIsCount
  <2>3. dlq' \in Seq(Counts) /\ Len(dlq') \in {Len(dlq), Len(dlq) + 1}
    <3>1. CASE dlq' = dlq
      BY <3>1
    <3>2. CASE dlq' = Append(dlq, c)
      BY <3>2, <2>2, Appended
    <3>3. QED
      BY <1>1, <3>1, <3>2 DEF Consume
  <2>4. Len(dlq) \in Nat /\ Len(dlq') \in Nat /\ Len(dlq) <= Len(dlq')
    BY <2>3
  <2>5. read' \in [Groups -> 0..Len(raw)]
    BY <1>1, <2>1 DEF Consume
  <2>6. QED
    BY <1>1, <2>3, <2>4, <2>5 DEF Consume, loop
<1>2. CASE ReadAgain(g)
  <2>1. read' \in [Groups -> 0..Len(raw)]
    BY <1>2 DEF ReadAgain
  <2>2. QED
    BY <1>2, <2>1 DEF ReadAgain, Fault, loop
<1>3. CASE LetterTimesOut(g)
  <2> DEFINE c == raw[read[g] + 1]
  <2>1. read[g] + 1 \in 1..Len(raw) /\ dlq' = Append(dlq, c)
    BY <1>3 DEF LetterTimesOut
  <2>2. c \in Counts
    BY <2>1, RecordIsCount
  <2>3. dlq' \in Seq(Counts) /\ Len(dlq') = Len(dlq) + 1 /\ Len(dlq) \in Nat
    BY <2>1, <2>2, Appended
  <2>4. faults' \in 0..MaxFaults
    BY <1>3 DEF LetterTimesOut, Fault
  <2>5. QED
    BY <1>3, <2>3, <2>4 DEF LetterTimesOut, loop
<1>4. QED
  BY <1>1, <1>2, <1>3

\* The record a replay puts on raw-logs has a count within the limit.
LEMMA RaisedTyped ==
    ASSUME TypeOK, HasReplay
    PROVE  /\ Raised \in Seq(Counts)
           /\ Len(Raised) = Len(raw) + 1
           /\ next \in 1..Len(dlq)
<1>1. next \in 1..Len(dlq)
  BY DEF TypeOK, HasReplay
<1>2. dlq[next] \in Counts
  BY <1>1, RecordIsCount DEF TypeOK
<1>3. dlq[next] + 1 \in Counts
  BY <1>2, ReplayAssumption DEF HasReplay, Counts
<1>4. QED
  BY <1>1, <1>3, Appended DEF Raised, TypeOK

\* The steps of a run that write to raw-logs keep the types.
LEMMA PublishTyped ==
    ASSUME TypeOK, Publish \/ PublishLost \/ PublishRaises
    PROVE  TypeOK'
<1> USE ReplayAssumption
<1>1. HasReplay
  BY DEF Publish, PublishLost, PublishRaises
<1>2. /\ Raised \in Seq(Counts)
      /\ Len(Raised) = Len(raw) + 1
      /\ next \in 1..Len(dlq)
  BY <1>1, RaisedTyped
<1>3. Len(raw) \in Nat /\ Len(dlq) \in Nat
  BY DEF TypeOK
<1>4. CountOne => left' \in Nat \cup {NoLimit}
  BY <1>1 DEF CountOne, HasReplay, LimitReached, TypeOK
<1>5. ASSUME raw' \in {raw, Raised}, UNCHANGED read
      PROVE  raw' \in Seq(Counts) /\ read' \in [Groups -> 0..Len(raw')]
  <2>1. Len(raw) <= Len(raw')
    BY <1>2, <1>3, <1>5
  <2>2. raw' \in Seq(Counts) /\ Len(raw') \in Nat
    BY <1>2, <1>3, <1>5 DEF TypeOK
  <2>3. QED
    BY <1>3, <1>5, <2>1, <2>2 DEF TypeOK
<1>6. CASE Publish
  BY <1>1, <1>2, <1>4, <1>5, <1>6 DEF Publish, TypeOK, HasReplay
<1>7. CASE PublishLost
  BY <1>1, <1>2, <1>4, <1>7 DEF PublishLost, TypeOK, HasReplay, topics
<1>8. CASE PublishRaises
  <2>1. raw' \in {raw, Raised} /\ UNCHANGED <<read, dlq>>
    BY <1>8 DEF PublishRaises
  <2>2. raw' \in Seq(Counts) /\ read' \in [Groups -> 0..Len(raw')]
    BY <1>5, <2>1
  <2>3. settled' \subseteq 1..Len(dlq)
    BY <1>2, <1>8 DEF PublishRaises, TypeOK
  <2>4. faults' \in 0..MaxFaults
    BY <1>8 DEF PublishRaises, TypeOK, Fault
  <2>5. QED
    BY <1>8, <2>1, <2>2, <2>3, <2>4 DEF PublishRaises, TypeOK
<1>9. QED
  BY <1>6, <1>7, <1>8

\* The other steps of a run keep the types.
LEMMA RunTyped ==
    ASSUME TypeOK,
           \/ Start \/ Poll \/ EmptyPoll \/ StopInBatch \/ Expire
           \/ EndOfBatch \/ Commit \/ CommitRaises \/ Crash
    PROVE  TypeOK'
<1> USE ReplayAssumption DEF TypeOK, topics
<1>0. Len(dlq) \in Nat
  OBVIOUS
<1>1. CASE Start
  BY <1>0, <1>1 DEF Start
<1>2. CASE Poll
  BY <1>0, <1>2 DEF Poll
<1>3. CASE EmptyPoll
  BY <1>3 DEF EmptyPoll
<1>4. CASE StopInBatch
  BY <1>4 DEF StopInBatch
<1>5. CASE Expire
  BY <1>0, <1>5 DEF Expire
<1>6. CASE EndOfBatch
  BY <1>6 DEF EndOfBatch
<1>7. CASE Commit
  BY <1>7 DEF Commit
<1>8. CASE CommitRaises
  BY <1>8 DEF CommitRaises, Fault
<1>9. CASE Crash
  BY <1>9 DEF Crash, Fault
<1>10. QED
  BY <1>1, <1>2, <1>3, <1>4, <1>5, <1>6, <1>7, <1>8, <1>9

LEMMA StepTyped == TypeOK /\ [Next]_vars => TypeOK'
<1> SUFFICES ASSUME TypeOK, [Next]_vars PROVE TypeOK'
  OBVIOUS
<1>1. CASE \E g \in Groups : Consume(g) \/ LetterTimesOut(g) \/ ReadAgain(g)
  BY <1>1, GroupsTyped
<1>2. CASE Publish \/ PublishLost \/ PublishRaises
  BY <1>2, PublishTyped
<1>3. CASE Start \/ Poll \/ EmptyPoll \/ StopInBatch \/ Expire
           \/ EndOfBatch \/ Commit \/ CommitRaises \/ Crash
  BY <1>3, RunTyped
<1>4. CASE UNCHANGED vars
  BY <1>4 DEF vars, TypeOK
<1>5. QED
  BY <1>1, <1>2, <1>3, <1>4 DEF Next, Run, Batch

\* No count passes the replay limit, and every position and settled offset is
\* one of the topic.
THEOREM ReplayTypeCorrect == Spec => []TypeOK
BY InitTyped, StepTyped, PTL DEF Spec
-----------------------------------------------------------------------------
\* Whatever goes on around it, a step that leaves the loop and the committed
\* offset alone and forgets nothing keeps the control invariant.
LEMMA ReplayStepKeepsInv ==
    ASSUME TypeOK, ReplayInv, [Next]_vars
    PROVE  ReplayInv'
<1> USE ReplayAssumption DEF TypeOK, ReplayInv, NothingSkipped
<1>1. CASE \E g \in Groups : Consume(g) \/ LetterTimesOut(g) \/ ReadAgain(g)
  BY <1>1 DEF Consume, LetterTimesOut, ReadAgain, loop
<1>2. CASE Start
  BY <1>2 DEF Start
<1>3. CASE Poll
  BY <1>3 DEF Poll
<1>4. CASE EmptyPoll
  BY <1>4 DEF EmptyPoll
<1>5. CASE StopInBatch
  BY <1>5 DEF StopInBatch, LimitReached
<1>6. CASE Expire
  BY <1>6 DEF Expire
<1>7. CASE Publish
  BY <1>7 DEF Publish, HasReplay, CountOne
<1>8. CASE PublishLost
  BY <1>8 DEF PublishLost, HasReplay, CountOne
<1>9. CASE PublishRaises
  BY <1>9 DEF PublishRaises
<1>10. CASE EndOfBatch
  BY <1>10 DEF EndOfBatch
<1>11. CASE Commit
  BY <1>11 DEF Commit, LimitReached
<1>12. CASE CommitRaises
  BY <1>12 DEF CommitRaises
<1>13. CASE Crash
  BY <1>13 DEF Crash
<1>14. CASE UNCHANGED vars
  BY <1>14 DEF vars
<1>15. QED
  BY <1>1, <1>2, <1>3, <1>4, <1>5, <1>6, <1>7, <1>8, <1>9, <1>10, <1>11,
     <1>12, <1>13, <1>14 DEF Next, Run, Batch

\* The control invariant holds throughout, whatever max_messages runs are given.
THEOREM ReplayInvariant == Spec => []ReplayInv
<1>1. Init => ReplayInv
  BY ReplayAssumption DEF Init, ReplayInv, NothingSkipped
<1>2. TypeOK /\ ReplayInv /\ [Next]_vars => ReplayInv'
  BY ReplayStepKeepsInv
<1>3. QED
  BY <1>1, <1>2, ReplayTypeCorrect, PTL DEF Spec

\* No dead letter is skipped but those max_messages cuts off, across crashes,
\* failing commits and failing sends, and while the groups add dead letters.
THEOREM ReplaySkipsNothing == Spec => []NothingSkipped
<1>1. ReplayInv => NothingSkipped
  BY DEF ReplayInv
<1>2. QED
  BY <1>1, ReplayInvariant, PTL

\* Without max_messages, the default, no dead letter is skipped at all.
THEOREM UnlimitedReplaysAll ==
    ASSUME Limits = {NoLimit}
    PROVE  Spec => []AllReplayed
<1>1. ReplayInv => AllReplayed
  BY DEF ReplayInv, NothingSkipped, AllReplayed
<1>2. QED
  BY <1>1, ReplayInvariant, PTL
-----------------------------------------------------------------------------
(* Copies.  Every record of a topic is given the number of records that it *)
(* may still add to raw-logs; a step never adds to the sum of these and of *)
(* the records there are, but for a fault, which adds what one batch may.  *)

\* f[1] + ... + f[n].
SumTo(f, n) ==
    LET sum[i \in 0..n] == IF i = 0 THEN 0 ELSE sum[i - 1] + f[i]
    IN  sum[n]

\* What comes of a dead letter with count c if every group dead-letters every
\* record of it, and the most that comes of any.
Weight(c) ==
    IF c < ReplayLimit THEN Descendants[ReplayLimit - c - 1] ELSE 0
Most == IF ReplayLimit = 0 THEN 0 ELSE Descendants[ReplayLimit - 1]

\* The groups that have yet to read record i of raw-logs, and all that comes
\* of what they have yet to read.
Unread(offsets, i) == {g \in Groups : offsets[g] < i}
ToRead(topic, offsets) ==
    SumTo([i \in 1..Len(topic) |->
              Cardinality(Unread(offsets, i)) * Weight(topic[i])], Len(topic))

\* All that comes of the dead letters after offset done.
ToReplay(topic, done) ==
    SumTo([i \in 1..Len(topic) |-> IF i > done THEN Weight(topic[i]) ELSE 0],
          Len(topic))

\* The dead letters up to here are not read again unless there is a fault.
Done == IF pc = "replay" THEN next - 1
        ELSE IF pc = "commit" THEN position ELSE committed

\* A run is at most one batch past what is committed.
AtMostABatch ==
    /\ pc = "poll" => position = committed
    /\ pc # "down" => position <= committed + BatchSize

CopiesInv ==
    /\ AtMostABatch
    /\ Len(raw) + ToRead(raw, read) + ToReplay(dlq, Done)
          <= Originals * Descendants[ReplayLimit] + (faults * BatchSize) * Most

\* A set of naturals has a least element.
LEMMA LeastNatural ==
    ASSUME NEW S \in SUBSET Nat, S # {}
    PROVE  \E x \in S : \A y \in S : x <= y
<1> DEFINE Order == StrictSubsetOrdering(Nat)
           Finite == FiniteSubsetsOf(Nat)
           Below == {0..n : n \in S}
<1>1. IsWellFoundedOn(Order, Finite)
  BY FS_StrictSubsetOrderingWellFounded
<1>2. Below \subseteq Finite /\ Below # {}
  <2>1. \A n \in S : 0..n \subseteq Nat /\ IsFiniteSet(0..n)
    BY FS_Interval
  <2>2. QED
    BY <2>1 DEF FiniteSubsetsOf
<1>3. PICK b \in Below : \A c \in Below : <<c, b>> \notin Order
  <2> HIDE DEF Order, Finite, Below
  <2> QED
    BY <1>1, <1>2, WFMin
<1>4. PICK x \in S : b = 0..x
  OBVIOUS
<1>5. ASSUME NEW y \in S, y < x
      PROVE  FALSE
  <2>1. 0..y \subseteq b /\ 0..y # b /\ b \subseteq Nat /\ 0..y \subseteq Nat
    BY <1>4, <1>5
  <2>2. <<0..y, b>> \in Order
    BY <2>1 DEF StrictSubsetOrdering
  <2>3. QED
    BY <1>3, <2>2
<1>6. QED
  BY <1>5

\* A set that has 0, and n + 1 with every n, has all naturals.
LEMMA SetInduction ==
    ASSUME NEW S, 0 \in S, \A n \in Nat : n \in S => n + 1 \in S
    PROVE  Nat \subseteq S
<1>1. SUFFICES ASSUME Nat \ S # {}
               PROVE  FALSE
  OBVIOUS
<1>2. PICK x \in Nat \ S : \A y \in Nat \ S : x <= y
  BY <1>1, LeastNatural
<1>3. QED
  BY <1>2

-----------------------------------------------------------------------------
(* Sums. *)

PartialSums(f, n, s) ==
    s = [i \in 0..n |-> IF i = 0 THEN 0 ELSE s[i - 1] + f[i]]

\* The recursive function in SumTo exists.
LEMMA SumsExist ==
    ASSUME NEW f
    PROVE  \A n \in Nat : \E s : PartialSums(f, n, s)
<1> DEFINE S == {n \in Nat : \E s : PartialSums(f, n, s)}
<1>1. 0 \in S
  <2> DEFINE s == [i \in 0..0 |-> 0]
  <2>1. PartialSums(f, 0, s)
    BY DEF PartialSums
  <2>2. QED
    BY <2>1
<1>2. ASSUME NEW n \in Nat, n \in S
      PROVE  n + 1 \in S
  <2>1. PICK s : PartialSums(f, n, s)
    BY <1>2
  <2> DEFINE t == [i \in 0 .. n + 1 |-> IF i = n + 1 THEN s[n] + f[n + 1] ELSE s[i]]
  <2>2. ASSUME NEW i \in 0 .. n + 1
        PROVE  t[i] = IF i = 0 THEN 0 ELSE t[i - 1] + f[i]
    <3>1. \A j \in 0..n : s[j] = IF j = 0 THEN 0 ELSE s[j - 1] + f[j]
      BY <2>1 DEF PartialSums
    <3>2. CASE i = n + 1
      BY <3>2
    <3>3. CASE i \in 0..n
      BY <3>1, <3>3
    <3>4. QED
      BY <3>2, <3>3
  <2>3. PartialSums(f, n + 1, t)
    BY <2>2 DEF PartialSums
  <2>4. QED
    BY <2>3
<1>3. Nat \subseteq S
  <2> HIDE DEF S
  <2> QED
    BY <1>1, <1>2, SetInduction
<1>4. QED
  BY <1>3

\* Partial sums of functions that agree are equal.
LEMMA SumsAgree ==
    ASSUME NEW f, NEW g, NEW s, NEW t, NEW m \in Nat, NEW n \in Nat,
           PartialSums(f, m, s), PartialSums(g, n, t),
           \A i \in 1..n : i <= m => f[i] = g[i]
    PROVE  \A i \in Nat : i <= m /\ i <= n => s[i] = t[i]
<1> DEFINE S == {i \in Nat : i <= m /\ i <= n => s[i] = t[i]}
<1>1. /\ \A j \in 0..m : s[j] = IF j = 0 THEN 0 ELSE s[j - 1] + f[j]
      /\ \A j \in 0..n : t[j] = IF j = 0 THEN 0 ELSE t[j - 1] + g[j]
  BY DEF PartialSums
<1>2. 0 \in S
  BY <1>1
<1>3. ASSUME NEW i \in Nat, i \in S
      PROVE  i + 1 \in S
  <2>1. SUFFICES ASSUME i + 1 <= m, i + 1 <= n
                 PROVE  s[i + 1] = t[i + 1]
    OBVIOUS
  <2>2. s[i] = t[i] /\ f[i + 1] = g[i + 1]
    BY <1>3, <2>1
  <2>3. s[i + 1] = s[i] + f[i + 1] /\ t[i + 1] = t[i] + g[i + 1]
    BY <1>1, <2>1
  <2>4. QED
    BY <2>2, <2>3
<1>4. Nat \subseteq S
  <2> HIDE DEF S
  <2> QED
    BY <1>2, <1>3, SetInduction
<1>5. QED
  BY <1>4

\* SumTo is the sum.
LEMMA SumToDef ==
    ASSUME NEW f
    PROVE  /\ SumTo(f, 0) = 0
           /\ \A n \in Nat : SumTo(f, n + 1) = SumTo(f, n) + f[n + 1]
<1> DEFINE sums(n) == CHOOSE s : PartialSums(f, n, s)
<1>1. \A n \in Nat : PartialSums(f, n, sums(n))
  BY SumsExist
<1>2. \A n \in Nat : SumTo(f, n) = sums(n)[n]
  BY DEF SumTo, PartialSums
<1> HIDE DEF sums
<1>3. SumTo(f, 0) = 0
  BY <1>1, <1>2 DEF PartialSums
<1>4. ASSUME NEW n \in Nat
      PROVE  SumTo(f, n + 1) = SumTo(f, n) + f[n + 1]
  <2>1. PartialSums(f, n, sums(n)) /\ PartialSums(f, n + 1, sums(n + 1))
    BY <1>1
  <2>2. sums(n + 1)[n + 1] = sums(n + 1)[n] + f[n + 1]
    BY <2>1 DEF PartialSums
  <2>3. sums(n)[n] = sums(n + 1)[n]
    BY <2>1, SumsAgree
  <2>4. QED
    BY <1>2, <2>2, <2>3
<1>5. QED
  BY <1>3, <1>4

LEMMA SumToNat ==
    ASSUME NEW f, NEW n \in Nat, \A i \in 1..n : f[i] \in Nat
    PROVE  \A k \in 0..n : SumTo(f, k) \in Nat
<1> DEFINE S == {k \in Nat : k <= n => SumTo(f, k) \in Nat}
<1>1. 0 \in S
  BY SumToDef
<1>2. ASSUME NEW k \in Nat, k \in S
      PROVE  k + 1 \in S
  BY <1>2, SumToDef
<1>3. Nat \subseteq S
  <2> HIDE DEF S
  <2> QED
    BY <1>1, <1>2, SetInduction
<1>4. QED
  BY <1>3

\* Sums compare as their terms do.
LEMMA SumsCompare ==
    ASSUME NEW f, NEW g, NEW h, NEW e, NEW n \in Nat,
           \A i \in 1..n : /\ f[i] \in Nat /\ g[i] \in Nat
                           /\ h[i] \in Nat /\ e[i] \in Nat
                           /\ f[i] + g[i] <= h[i] + e[i]
    PROVE  SumTo(f, n) + SumTo(g, n) <= SumTo(h, n) + SumTo(e, n)
<1> DEFINE S == {k \in Nat : k <= n =>
                    SumTo(f, k) + SumTo(g, k) <= SumTo(h, k) + SumTo(e, k)}
<1>1. 0 \in S
  BY SumToDef
<1>2. ASSUME NEW k \in Nat, k \in S
      PROVE  k + 1 \in S
  <2>1. SUFFICES ASSUME k + 1 <= n
                 PROVE  SumTo(f, k + 1) + SumTo(g, k + 1)
                           <= SumTo(h, k + 1) + SumTo(e, k + 1)
    OBVIOUS
  <2>2. /\ SumTo(f, k) \in Nat /\ SumTo(g, k) \in Nat
        /\ SumTo(h, k) \in Nat /\ SumTo(e, k) \in Nat
    BY <2>1, SumToNat
  <2>3. /\ SumTo(f, k + 1) = SumTo(f, k) + f[k + 1]
        /\ SumTo(g, k + 1) = SumTo(g, k) + g[k + 1]
        /\ SumTo(h, k + 1) = SumTo(h, k) + h[k + 1]
        /\ SumTo(e, k + 1) = SumTo(e, k) + e[k + 1]
    BY SumToDef
  <2>4. /\ f[k + 1] \in Nat /\ g[k + 1] \in Nat
        /\ h[k + 1] \in Nat /\ e[k + 1] \in Nat
        /\ f[k + 1] + g[k + 1] <= h[k + 1] + e[k + 1]
    BY <2>1
  <2>5. SumTo(f, k) + SumTo(g, k) <= SumTo(h, k) + SumTo(e, k)
    BY <1>2, <2>1
  <2> HIDE DEF S
  <2>6. QED
    BY <2>2, <2>3, <2>4, <2>5
<1>3. Nat \subseteq S
  <2> HIDE DEF S
  <2> QED
    BY <1>1, <1>2, SetInduction
<1>4. QED
  BY <1>3

\* v at each of a + 1 .. b.
Block(n, a, b, v) == [i \in 1..n |-> IF a < i /\ i <= b THEN v ELSE 0]

LEMMA SumOfBlock ==
    ASSUME NEW n \in Nat, NEW a \in 0..n, NEW b \in a..n, NEW v \in Nat
    PROVE  SumTo(Block(n, a, b, v), n) = (b - a) * v
<1> DEFINE f == Block(n, a, b, v)
           part(k) == IF k <= a THEN 0 ELSE IF k <= b THEN (k - a) * v
                      ELSE (b - a) * v
           S == {k \in Nat : k <= n => SumTo(f, k) = part(k)}
<1>1. 0 \in S
  BY SumToDef
<1>2. ASSUME NEW k \in Nat, k \in S
      PROVE  k + 1 \in S
  <2>1. SUFFICES ASSUME k + 1 <= n
                 PROVE  SumTo(f, k + 1) = part(k + 1)
    OBVIOUS
  <2>2. SumTo(f, k + 1) = SumTo(f, k) + f[k + 1] /\ SumTo(f, k) = part(k)
    BY <1>2, <2>1, SumToDef
  <2>3. f[k + 1] = IF a < k + 1 /\ k + 1 <= b THEN v ELSE 0
    BY <2>1 DEF Block
  <2>4. \A m \in Nat : (m + 1) * v = m * v + v /\ 0 * v = 0
    OBVIOUS
  <2> HIDE DEF f, S
  <2>5. CASE k + 1 <= a
    BY <2>2, <2>3, <2>5
  <2>6. CASE a <= k /\ k + 1 <= b
    <3> DEFINE m == k - a
    <3>1. m \in Nat /\ k + 1 - a = m + 1
      BY <2>6
    <3>2. part(k) = m * v
      BY <2>4, <2>6
    <3>3. part(k + 1) = (m + 1) * v
      BY <2>6, <3>1
    <3>4. f[k + 1] = v
      BY <2>3, <2>6
    <3> HIDE DEF m, part
    <3>5. QED
      BY <2>2, <2>4, <3>1, <3>2, <3>3, <3>4
  <2>7. CASE b <= k
    <3>1. part(k + 1) = (b - a) * v /\ part(k) = (b - a) * v
      <4>1. CASE k = a
        <5>1. b - a = 0
          BY <2>7, <4>1
        <5>2. QED
          BY <2>4, <4>1, <5>1
      <4>2. CASE k = b
        BY <2>4, <4>2
      <4>3. CASE a < k /\ b < k
        BY <4>3
      <4>4. QED
        BY <2>7, <4>1, <4>2, <4>3
    <3>2. f[k + 1] = 0
      BY <2>3, <2>7
    <3>3. (b - a) * v \in Nat
      OBVIOUS
    <3> HIDE DEF part
    <3>4. QED
      BY <2>2, <3>1, <3>2, <3>3
  <2>8. QED
    BY <2>5, <2>6, <2>7
<1>3. Nat \subseteq S
  <2> HIDE DEF S
  <2> QED
    BY <1>1, <1>2, SetInduction
<1>4. SumTo(f, n) = part(n)
  BY <1>3
<1>5. part(n) = (b - a) * v
  <2>1. \A m \in Nat : 0 * v = 0
    OBVIOUS
  <2>2. CASE n <= a
    BY <2>1, <2>2
  <2>3. CASE a < n /\ n <= b
    BY <2>3
  <2>4. CASE b < n
    BY <2>4
  <2>5. QED
    BY <2>2, <2>3, <2>4
<1>6. QED
  BY <1>4, <1>5

LEMMA BlockTyped ==
    ASSUME NEW n \in Nat, NEW a \in Nat, NEW b \in Nat, NEW v \in Nat,
           NEW i \in 1..n
    PROVE  /\ Block(n, a, b, v)[i] = IF a < i /\ i <= b THEN v ELSE 0
           /\ Block(n, a, b, v)[i] \in Nat
BY DEF Block

\* No terms.
LEMMA SumOfNone ==
    ASSUME NEW n \in Nat
    PROVE  /\ SumTo(Block(n, 0, 0, 0), n) = 0
           /\ \A i \in 1..n : Block(n, 0, 0, 0)[i] = 0
<1>1. SumTo(Block(n, 0, 0, 0), n) = (0 - 0) * 0
  BY SumOfBlock
<1>2. \A i \in 1..n : Block(n, 0, 0, 0)[i] = 0
  BY DEF Block
<1>3. QED
  BY <1>1, <1>2

\* One more term.
LEMMA SumOneMore ==
    ASSUME NEW f, NEW g, NEW n \in Nat,
           \A i \in 1..n : f[i] \in Nat /\ g[i] = f[i]
    PROVE  SumTo(g, n + 1) = SumTo(f, n) + g[n + 1]
<1> DEFINE z == Block(n, 0, 0, 0)
<1>1. SumTo(z, n) = 0 /\ \A i \in 1..n : z[i] = 0
  BY SumOfNone
<1> HIDE DEF z
<1>2. SumTo(f, n) + SumTo(z, n) <= SumTo(g, n) + SumTo(z, n)
  BY <1>1, SumsCompare
<1>3. SumTo(g, n) + SumTo(z, n) <= SumTo(f, n) + SumTo(z, n)
  BY <1>1, SumsCompare
<1>4. SumTo(f, n) \in Nat /\ SumTo(g, n) \in Nat
  <2>1. n \in 0..n /\ \A i \in 1..n : g[i] \in Nat
    OBVIOUS
  <2>2. QED
    BY <2>1, SumToNat
<1>5. SumTo(f, n) = SumTo(g, n)
  BY <1>1, <1>2, <1>3, <1>4
<1>6. QED
  BY <1>5, SumToDef
-----------------------------------------------------------------------------
(* What comes of a record. *)

K == Cardinality(Groups)

LEMMA KNat == K \in Nat
BY ReplayAssumption, FS_CardinalityType DEF K

Family(n, s) == s = [i \in 0..n |-> IF i = 0 THEN 1 ELSE 1 + K * s[i - 1]]

LEMMA FamiliesExist == \A n \in Nat : \E s : Family(n, s)
<1> DEFINE S == {n \in Nat : \E s : Family(n, s)}
<1>1. 0 \in S
  <2> DEFINE s == [i \in 0..0 |-> 1]
  <2>1. Family(0, s)
    BY DEF Family
  <2>2. QED
    BY <2>1
<1>2. ASSUME NEW n \in Nat, n \in S
      PROVE  n + 1 \in S
  <2>1. PICK s : Family(n, s)
    BY <1>2
  <2> DEFINE t == [i \in 0 .. n + 1 |-> IF i = n + 1 THEN 1 + K * s[n] ELSE s[i]]
  <2>2. ASSUME NEW i \in 0 .. n + 1
        PROVE  t[i] = IF i = 0 THEN 1 ELSE 1 + K * t[i - 1]
    <3>1. \A j \in 0..n : s[j] = IF j = 0 THEN 1 ELSE 1 + K * s[j - 1]
      BY <2>1 DEF Family
    <3>2. CASE i = n + 1
      BY <3>2
    <3>3. CASE i \in 0..n
      BY <3>1, <3>3
    <3>4. QED
      BY <3>2, <3>3
  <2>3. Family(n + 1, t)
    BY <2>2 DEF Family
  <2>4. QED
    BY <2>3
<1>3. Nat \subseteq S
  <2> HIDE DEF S
  <2> QED
    BY <1>1, <1>2, SetInduction
<1>4. QED
  BY <1>3

LEMMA DescendantsDef ==
    \A n \in 0..ReplayLimit :
        Descendants[n] = IF n = 0 THEN 1 ELSE 1 + K * Descendants[n - 1]
<1>1. Descendants = CHOOSE s : Family(ReplayLimit, s)
  BY DEF Descendants, Family, K
<1>2. \E s : Family(ReplayLimit, s)
  BY FamiliesExist, ReplayAssumption
<1>3. Family(ReplayLimit, Descendants)
  BY <1>1, <1>2
<1> HIDE DEF Descendants
<1>4. QED
  BY <1>3 DEF Family

LEMMA DescendantsNat ==
    /\ \A n \in 0..ReplayLimit : Descendants[n] \in Nat \ {0}
    /\ \A n \in 0..ReplayLimit : n > 0 => Descendants[n - 1] <= Descendants[n]
<1> DEFINE S == {n \in Nat : n <= ReplayLimit =>
                    /\ Descendants[n] \in Nat \ {0}
                    /\ K = 0 => Descendants[n] = 1
                    /\ n > 0 => Descendants[n - 1] <= Descendants[n]}
<1> HIDE DEF Descendants
<1>1. 0 \in S
  BY DescendantsDef, ReplayAssumption
<1>2. ASSUME NEW n \in Nat, n \in S
      PROVE  n + 1 \in S
  <2>1. SUFFICES ASSUME n + 1 <= ReplayLimit
                 PROVE  /\ Descendants[n + 1] \in Nat \ {0}
                        /\ K = 0 => Descendants[n + 1] = 1
                        /\ Descendants[n] <= Descendants[n + 1]
    OBVIOUS
  <2>2. Descendants[n + 1] = 1 + K * Descendants[n]
    BY <2>1, DescendantsDef, ReplayAssumption
  <2>3. Descendants[n] \in Nat \ {0} /\ (K = 0 => Descendants[n] = 1)
    BY <1>2, <2>1, ReplayAssumption
  <2>4. \A d \in Nat : /\ K * d \in Nat /\ (K = 0 => K * d = 0)
                       /\ (K > 0 => d <= K * d)
    BY KNat
  <2>5. QED
    BY <2>2, <2>3, <2>4, KNat
<1>3. Nat \subseteq S
  <2> HIDE DEF S
  <2> QED
    BY <1>1, <1>2, SetInduction
<1>4. QED
  BY <1>3, ReplayAssumption

\* The most comes of a dead letter that has not been replayed yet.
LEMMA DescendantsMost ==
    ASSUME ReplayLimit > 0
    PROVE  \A n \in 0 .. ReplayLimit - 1 :
              Descendants[n] <= Descendants[ReplayLimit - 1]
<1> HIDE DEF Descendants
<1> DEFINE S == {m \in Nat : m < ReplayLimit =>
                    Descendants[ReplayLimit - 1 - m] <= Descendants[ReplayLimit - 1]}
<1>1. 0 \in S
  BY DescendantsNat, ReplayAssumption
<1>2. ASSUME NEW m \in Nat, m \in S
      PROVE  m + 1 \in S
  <2>1. SUFFICES ASSUME m + 1 < ReplayLimit
                 PROVE  Descendants[ReplayLimit - 1 - (m + 1)]
                           <= Descendants[ReplayLimit - 1]
    OBVIOUS
  <2> DEFINE n == ReplayLimit - 1 - m
  <2>2. n \in 0..ReplayLimit /\ n > 0 /\ n - 1 = ReplayLimit - 1 - (m + 1)
        /\ n - 1 \in 0..ReplayLimit /\ ReplayLimit - 1 \in 0..ReplayLimit
    BY <2>1, ReplayAssumption
  <2>3. Descendants[n] <= Descendants[ReplayLimit - 1]
    BY <1>2, <2>1, ReplayAssumption
  <2> HIDE DEF n
  <2>4. Descendants[n - 1] <= Descendants[n]
    BY <2>2, DescendantsNat
  <2>5. /\ Descendants[n] \in Nat /\ Descendants[n - 1] \in Nat
        /\ Descendants[ReplayLimit - 1] \in Nat
    BY <2>2, DescendantsNat
  <2>6. QED
    BY <2>2, <2>3, <2>4, <2>5
<1>3. Nat \subseteq S
  <2> HIDE DEF S
  <2> QED
    BY <1>1, <1>2, SetInduction
<1>4. ASSUME NEW n \in 0 .. ReplayLimit - 1
      PROVE  Descendants[n] <= Descendants[ReplayLimit - 1]
  <2> DEFINE m == ReplayLimit - 1 - n
  <2>1. m \in S /\ m < ReplayLimit /\ ReplayLimit - 1 - m = n
    BY <1>3, ReplayAssumption
  <2>2. QED
    BY <2>1
<1>5. QED
  BY <1>4

\* A dead letter that is replayed gives a record, and what comes of that.
LEMMA Weights ==
    /\ Most \in Nat
    /\ \A c \in Counts :
          /\ Weight(c) \in Nat /\ Weight(c) <= Most
          /\ c < ReplayLimit => Weight(c) = 1 + K * Weight(c + 1)
          /\ c >= ReplayLimit => Weight(c) = 0
    /\ Descendants[ReplayLimit] = 1 + K * Weight(0)
<1> HIDE DEF Descendants
<1> USE ReplayAssumption, KNat
<1>1. Most \in Nat
  BY DescendantsNat DEF Most
<1>2. ASSUME NEW c \in Counts
      PROVE  /\ Weight(c) \in Nat /\ Weight(c) <= Most
             /\ c < ReplayLimit => Weight(c) = 1 + K * Weight(c + 1)
             /\ c >= ReplayLimit => Weight(c) = 0
  <2>1. CASE c >= ReplayLimit
    BY <1>1, <2>1 DEF Weight, Counts
  <2>2. CASE c < ReplayLimit
    <3> DEFINE n == ReplayLimit - c - 1
    <3>1. n \in 0..ReplayLimit /\ n \in 0 .. ReplayLimit - 1 /\ ReplayLimit > 0
      BY <2>2 DEF Counts
    <3>2. Weight(c) = Descendants[n]
      BY <2>2 DEF Weight
    <3>3. Descendants[n] \in Nat /\ Descendants[n] <= Most
      BY <3>1, DescendantsNat, DescendantsMost DEF Most
    <3>4. Descendants[n] = IF n = 0 THEN 1 ELSE 1 + K * Descendants[n - 1]
      BY <3>1, DescendantsDef
    <3>5. CASE n = 0
      <4>1. Weight(c + 1) = 0
        BY <2>2, <3>5 DEF Weight, Counts
      <4>2. K * 0 = 0
        OBVIOUS
      <4>3. QED
        BY <2>2, <3>2, <3>3, <3>4, <3>5, <4>1, <4>2 DEF Counts
    <3>6. CASE n # 0
      <4>1. Weight(c + 1) = Descendants[n - 1]
        <5>1. c + 1 < ReplayLimit /\ ReplayLimit - (c + 1) - 1 = n - 1
          BY <2>2, <3>1, <3>6 DEF Counts
        <5>2. QED
          BY <5>1 DEF Weight
      <4>2. QED
        BY <2>2, <3>2, <3>3, <3>4, <3>6, <4>1 DEF Counts
    <3>7. QED
      BY <3>5, <3>6
  <2>3. QED
    BY <2>1, <2>2 DEF Counts
<1>3. Descendants[ReplayLimit] = 1 + K * Weight(0)
  <2>1. Descendants[ReplayLimit]
           = IF ReplayLimit = 0 THEN 1 ELSE 1 + K * Descendants[ReplayLimit - 1]
    BY DescendantsDef
  <2>2. CASE ReplayLimit = 0
    <3>1. Weight(0) = 0 /\ K * 0 = 0
      BY <2>2 DEF Weight
    <3>2. QED
      BY <2>1, <2>2, <3>1
  <2>3. CASE ReplayLimit # 0
    <3>1. Weight(0) = Descendants[ReplayLimit - 1]
      BY <2>3 DEF Weight
    <3>2. QED
      BY <2>1, <2>3, <3>1
  <2>4. QED
    BY <2>2, <2>3
<1>4. QED
  BY <1>1, <1>2, <1>3

\* The terms of ToReplay.
Term(topic, done, i) == IF i > done THEN Weight(topic[i]) ELSE 0

LEMMA TermTyped ==
    ASSUME NEW topic \in Seq(Counts), NEW done \in Nat, NEW i \in 1..Len(topic)
    PROVE  /\ Term(topic, done, i) \in Nat
           /\ Weight(topic[i]) \in Nat /\ Weight(topic[i]) <= Most
<1>1. topic[i] \in Counts
  BY RecordIsCount
<1>2. Weight(topic[i]) \in Nat /\ Weight(topic[i]) <= Most
  BY <1>1, Weights
<1>3. QED
  BY <1>2 DEF Term

LEMMA ToReplayTerms ==
    ASSUME NEW topic \in Seq(Counts), NEW done \in Nat
    PROVE  /\ ToReplay(topic, done)
                 = SumTo([i \in 1..Len(topic) |-> Term(topic, done, i)], Len(topic))
           /\ ToReplay(topic, done) \in Nat
<1> DEFINE f == [i \in 1..Len(topic) |-> Term(topic, done, i)]
<1>1. ToReplay(topic, done) = SumTo(f, Len(topic))
  BY DEF ToReplay, Term
<1>2. Len(topic) \in Nat /\ \A i \in 1..Len(topic) : f[i] \in Nat
  BY TermTyped
<1> HIDE DEF f
<1>3. SumTo(f, Len(topic)) \in Nat
  <2>1. Len(topic) \in 0..Len(topic)
    BY <1>2
  <2>2. QED
    BY <1>2, <2>1, SumToNat
<1>4. QED
  BY <1>1, <1>3 DEF f

\* Going on frees what lies between.
LEMMA ToReplayForward ==
    ASSUME NEW topic \in Seq(Counts), NEW d \in Nat, NEW e \in Nat, d <= e
    PROVE  ToReplay(topic, e) <= ToReplay(topic, d)
<1> DEFINE n == Len(topic)
           f == [i \in 1..n |-> Term(topic, e, i)]
           h == [i \in 1..n |-> Term(topic, d, i)]
           z == Block(n, 0, 0, 0)
<1>1. n \in Nat
  OBVIOUS
<1>2. SumTo(z, n) = 0 /\ \A i \in 1..n : z[i] = 0
  <2>1. n \in Nat
    BY <1>1
  <2> HIDE DEF n
  <2>2. QED
    BY <2>1, SumOfNone
<1>3. ASSUME NEW i \in 1..n
      PROVE  f[i] \in Nat /\ h[i] \in Nat /\ f[i] <= h[i]
  BY <1>1, TermTyped DEF Term
<1>4. /\ ToReplay(topic, e) = SumTo(f, n) /\ SumTo(f, n) \in Nat
      /\ ToReplay(topic, d) = SumTo(h, n) /\ SumTo(h, n) \in Nat
  BY ToReplayTerms
<1> HIDE DEF f, h, z, n
<1>5. SumTo(f, n) + SumTo(z, n) <= SumTo(h, n) + SumTo(z, n)
  <2>1. \A i \in 1..n : /\ f[i] \in Nat /\ z[i] \in Nat
                        /\ h[i] \in Nat /\ z[i] \in Nat
                        /\ f[i] + z[i] <= h[i] + z[i]
    BY <1>2, <1>3
  <2>2. QED
    BY <1>1, <2>1, SumsCompare
<1>6. QED
  BY <1>2, <1>4, <1>5

\* Past the next dead letter, it frees what comes of that.
LEMMA ToReplayNext ==
    ASSUME NEW topic \in Seq(Counts), NEW d \in Nat, d < Len(topic)
    PROVE  ToReplay(topic, d + 1) + Weight(topic[d + 1]) <= ToReplay(topic, d)
<1> DEFINE n == Len(topic)
           f == [i \in 1..n |-> Term(topic, d + 1, i)]
           h == [i \in 1..n |-> Term(topic, d, i)]
           z == Block(n, 0, 0, 0)
           w == Weight(topic[d + 1])
           g == Block(n, d, d + 1, w)
<1>1. n \in Nat /\ d \in 0..n /\ d + 1 \in d..n /\ d + 1 \in 1..n
  OBVIOUS
<1>2. SumTo(z, n) = 0 /\ \A i \in 1..n : z[i] = 0
  <2>1. n \in Nat
    BY <1>1
  <2> HIDE DEF n
  <2>2. QED
    BY <2>1, SumOfNone
<1>3. w \in Nat
  BY <1>1, TermTyped
<1>4. SumTo(g, n) = w
  <2> HIDE DEF w, n
  <2>1. SumTo(g, n) = (d + 1 - d) * w
    BY <1>1, <1>3, SumOfBlock
  <2>2. d + 1 - d = 1 /\ 1 * w = w
    BY <1>3
  <2>3. QED
    BY <2>1, <2>2
<1>5. ASSUME NEW i \in 1..n
      PROVE  /\ f[i] \in Nat /\ g[i] \in Nat /\ h[i] \in Nat
             /\ f[i] + g[i] <= h[i]
  <2>1. g[i] = IF d < i /\ i <= d + 1 THEN w ELSE 0
    BY DEF Block
  <2>2. f[i] = Term(topic, d + 1, i) /\ h[i] = Term(topic, d, i)
    OBVIOUS
  <2>3. Term(topic, d + 1, i) \in Nat /\ Term(topic, d, i) \in Nat
        /\ Weight(topic[i]) \in Nat
    BY <1>1, TermTyped
  <2> HIDE DEF f, g, h
  <2>4. CASE i = d + 1
    BY <1>3, <2>1, <2>2, <2>3, <2>4 DEF Term
  <2>5. CASE i # d + 1
    BY <1>1, <2>1, <2>2, <2>3, <2>5 DEF Term
  <2>6. QED
    BY <2>4, <2>5
<1>6. /\ ToReplay(topic, d + 1) = SumTo(f, n) /\ SumTo(f, n) \in Nat
      /\ ToReplay(topic, d) = SumTo(h, n) /\ SumTo(h, n) \in Nat
  BY ToReplayTerms
<1> HIDE DEF f, g, h, z, n, w
<1>7. SumTo(f, n) + SumTo(g, n) <= SumTo(h, n) + SumTo(z, n)
  <2>1. \A i \in 1..n : /\ f[i] \in Nat /\ g[i] \in Nat
                        /\ h[i] \in Nat /\ z[i] \in Nat
                        /\ f[i] + g[i] <= h[i] + z[i]
    BY <1>2, <1>5
  <2>2. QED
    BY <1>1, <2>1, SumsCompare
<1>8. QED
  BY <1>2, <1>3, <1>4, <1>6, <1>7 DEF w

\* Going back brings no more than the most for each.
LEMMA ToReplayBack ==
    ASSUME NEW topic \in Seq(Counts), NEW d \in Nat, NEW e \in Nat,
           d <= e, e <= Len(topic)
    PROVE  ToReplay(topic, d) <= ToReplay(topic, e) + (e - d) * Most
<1> DEFINE n == Len(topic)
           f == [i \in 1..n |-> Term(topic, d, i)]
           h == [i \in 1..n |-> Term(topic, e, i)]
           z == Block(n, 0, 0, 0)
           g == Block(n, d, e, Most)
<1>1. n \in Nat /\ d \in 0..n /\ e \in d..n
  OBVIOUS
<1>2. SumTo(z, n) = 0 /\ \A i \in 1..n : z[i] = 0
  <2>1. n \in Nat
    BY <1>1
  <2> HIDE DEF n
  <2>2. QED
    BY <2>1, SumOfNone
<1>3. SumTo(g, n) = (e - d) * Most /\ Most \in Nat
  <2> HIDE DEF n
  <2> QED
    BY <1>1, Weights, SumOfBlock
<1>4. ASSUME NEW i \in 1..n
      PROVE  /\ f[i] \in Nat /\ g[i] \in Nat /\ h[i] \in Nat
             /\ f[i] <= h[i] + g[i]
  <2>1. g[i] = IF d < i /\ i <= e THEN Most ELSE 0
    BY DEF Block
  <2>2. f[i] = Term(topic, d, i) /\ h[i] = Term(topic, e, i)
    OBVIOUS
  <2>3. /\ Term(topic, d, i) \in Nat /\ Term(topic, e, i) \in Nat
        /\ Weight(topic[i]) \in Nat /\ Weight(topic[i]) <= Most
    BY <1>1, TermTyped
  <2> HIDE DEF f, g, h
  <2>4. QED
    BY <1>1, <1>3, <2>1, <2>2, <2>3 DEF Term
<1>5. /\ ToReplay(topic, d) = SumTo(f, n) /\ SumTo(f, n) \in Nat
      /\ ToReplay(topic, e) = SumTo(h, n) /\ SumTo(h, n) \in Nat
  BY ToReplayTerms
<1> HIDE DEF f, g, h, z, n
<1>6. SumTo(f, n) + SumTo(z, n) <= SumTo(h, n) + SumTo(g, n)
  <2>1. \A i \in 1..n : /\ f[i] \in Nat /\ z[i] \in Nat
                        /\ h[i] \in Nat /\ g[i] \in Nat
                        /\ f[i] + z[i] <= h[i] + g[i]
    BY <1>2, <1>4
  <2>2. QED
    BY <1>1, <2>1, SumsCompare
<1>7. QED
  BY <1>2, <1>3, <1>5, <1>6

\* A new dead letter.
LEMMA ToReplayMore ==
    ASSUME NEW topic \in Seq(Counts), NEW c \in Counts, NEW d \in 0..Len(topic)
    PROVE  ToReplay(Append(topic, c), d) = ToReplay(topic, d) + Weight(c)
<1> DEFINE n == Len(topic)
           longer == Append(topic, c)
           f == [i \in 1..n |-> Term(topic, d, i)]
           g == [i \in 1 .. n + 1 |-> Term(longer, d, i)]
<1>1. /\ n \in Nat /\ d \in Nat /\ longer \in Seq(Counts) /\ Len(longer) = n + 1
      /\ longer[n + 1] = c /\ \A i \in 1..n : longer[i] = topic[i]
  OBVIOUS
<1>2. \A i \in 1..n : f[i] \in Nat /\ g[i] = f[i]
  BY <1>1, TermTyped DEF Term
<1>3. g[n + 1] = Weight(c)
  BY <1>1 DEF Term
<1>4. /\ ToReplay(topic, d) = SumTo(f, n)
      /\ ToReplay(longer, d) = SumTo(g, n + 1)
  BY <1>1, ToReplayTerms
<1> HIDE DEF f, g, n, longer
<1>5. SumTo(g, n + 1) = SumTo(f, n) + g[n + 1]
  BY <1>1, <1>2, SumOneMore
<1>6. QED
  BY <1>3, <1>4, <1>5 DEF longer
-----------------------------------------------------------------------------
LEMMA UnreadTyped ==
    ASSUME NEW offsets, NEW i
    PROVE  /\ IsFiniteSet(Unread(offsets, i))
           /\ Cardinality(Unread(offsets, i)) \in Nat
<1>1. IsFiniteSet(Unread(offsets, i))
  BY ReplayAssumption, FS_Subset DEF Unread
<1>2. QED
  BY <1>1, FS_CardinalityType

\* The terms of ToRead.
Share(topic, offsets, i) == Cardinality(Unread(offsets, i)) * Weight(topic[i])

LEMMA ShareTyped ==
    ASSUME NEW topic \in Seq(Counts), NEW offsets, NEW i \in 1..Len(topic)
    PROVE  /\ Share(topic, offsets, i) \in Nat
           /\ Weight(topic[i]) \in Nat /\ Weight(topic[i]) <= Most
           /\ Cardinality(Unread(offsets, i)) \in Nat
<1>1. topic[i] \in Counts
  BY RecordIsCount
<1>2. Weight(topic[i]) \in Nat /\ Weight(topic[i]) <= Most
  BY <1>1, Weights
<1>3. Cardinality(Unread(offsets, i)) \in Nat
  BY UnreadTyped
<1>4. QED
  BY <1>2, <1>3 DEF Share

LEMMA ToReadTerms ==
    ASSUME NEW topic \in Seq(Counts), NEW offsets
    PROVE  /\ ToRead(topic, offsets)
                 = SumTo([i \in 1..Len(topic) |-> Share(topic, offsets, i)], Len(topic))
           /\ ToRead(topic, offsets) \in Nat
<1> DEFINE f == [i \in 1..Len(topic) |-> Share(topic, offsets, i)]
<1>1. ToRead(topic, offsets) = SumTo(f, Len(topic))
  BY DEF ToRead, Share
<1>2. Len(topic) \in Nat /\ \A i \in 1..Len(topic) : f[i] \in Nat
  BY ShareTyped
<1> HIDE DEF f
<1>3. SumTo(f, Len(topic)) \in Nat
  <2>1. Len(topic) \in 0..Len(topic)
    BY <1>2
  <2>2. QED
    BY <1>2, <2>1, SumToNat
<1>4. QED
  BY <1>1, <1>3 DEF f

\* A group that reads its next record frees what comes of it through the group.
LEMMA ToReadNext ==
    ASSUME NEW topic \in Seq(Counts), NEW offsets \in [Groups -> 0..Len(topic)],
           NEW g \in Groups, offsets[g] < Len(topic),
           NEW later, later = [offsets EXCEPT ![g] = @ + 1]
    PROVE  ToRead(topic, later) + Weight(topic[offsets[g] + 1])
              <= ToRead(topic, offsets)
<1> DEFINE n == Len(topic)
           d == offsets[g]
           f == [i \in 1..n |-> Share(topic, later, i)]
           h == [i \in 1..n |-> Share(topic, offsets, i)]
           z == Block(n, 0, 0, 0)
           w == Weight(topic[d + 1])
           b == Block(n, d, d + 1, w)
<1>1. /\ n \in Nat /\ d \in Nat /\ d \in 0..n /\ d + 1 \in d..n
      /\ d + 1 \in 1..n
  OBVIOUS
<1>2. SumTo(z, n) = 0 /\ \A i \in 1..n : z[i] = 0
  <2>1. n \in Nat
    BY <1>1
  <2> HIDE DEF n
  <2>2. QED
    BY <2>1, SumOfNone
<1>3. w \in Nat
  BY <1>1, ShareTyped
<1>4. SumTo(b, n) = w
  <2> HIDE DEF w, n, d
  <2>1. SumTo(b, n) = (d + 1 - d) * w
    BY <1>1, <1>3, SumOfBlock
  <2>2. d + 1 - d = 1 /\ 1 * w = w
    BY <1>1, <1>3
  <2>3. QED
    BY <2>1, <2>2
<1>5. ASSUME NEW i \in 1..n
      PROVE  /\ f[i] \in Nat /\ b[i] \in Nat /\ h[i] \in Nat
             /\ f[i] + b[i] <= h[i]
  <2>1. b[i] = IF d < i /\ i <= d + 1 THEN w ELSE 0
    BY DEF Block
  <2>2. f[i] = Share(topic, later, i) /\ h[i] = Share(topic, offsets, i)
    OBVIOUS
  <2>3. Share(topic, later, i) \in Nat /\ Share(topic, offsets, i) \in Nat
        /\ Weight(topic[i]) \in Nat /\ Cardinality(Unread(later, i)) \in Nat
    BY <1>1, ShareTyped
  <2>4. CASE i = d + 1
    <3>1. /\ Unread(later, i) = Unread(offsets, i) \ {g}
          /\ g \in Unread(offsets, i)
      BY <1>1, <2>4 DEF Unread
    <3>2. Cardinality(Unread(offsets, i)) = Cardinality(Unread(later, i)) + 1
      <4>1. Cardinality(Unread(later, i)) = Cardinality(Unread(offsets, i)) - 1
        BY <3>1, UnreadTyped, FS_RemoveElement
      <4>2. Cardinality(Unread(offsets, i)) \in Nat
        BY UnreadTyped
      <4>3. QED
        BY <4>1, <4>2
    <3>3. \A m \in Nat : (m + 1) * w = m * w + w
      BY <1>3
    <3>4. Share(topic, offsets, i) = Share(topic, later, i) + w
      BY <2>3, <2>4, <3>2, <3>3 DEF Share
    <3>5. b[i] = w
      BY <1>1, <2>1, <2>4
    <3> HIDE DEF f, h, b, w, n, d
    <3>6. QED
      BY <1>3, <2>2, <2>3, <3>4, <3>5
  <2>5. CASE i # d + 1
    <3>1. Unread(later, i) = Unread(offsets, i)
      <4>1. later[g] = d + 1 /\ \A u \in Groups \ {g} : later[u] = offsets[u]
        OBVIOUS
      <4>2. d + 1 < i <=> d < i
        BY <1>1, <2>5
      <4>3. QED
        BY <4>1, <4>2 DEF Unread
    <3>2. b[i] = 0
      BY <1>1, <2>1, <2>5
    <3> HIDE DEF f, h, b, w, n, d
    <3>3. QED
      BY <2>2, <2>3, <3>1, <3>2 DEF Share
  <2>6. QED
    BY <2>4, <2>5
<1>6. /\ ToRead(topic, later) = SumTo(f, n) /\ SumTo(f, n) \in Nat
      /\ ToRead(topic, offsets) = SumTo(h, n) /\ SumTo(h, n) \in Nat
  BY ToReadTerms
<1> HIDE DEF f, b, h, z, n, w
<1>7. SumTo(f, n) + SumTo(b, n) <= SumTo(h, n) + SumTo(z, n)
  <2>1. \A i \in 1..n : /\ f[i] \in Nat /\ b[i] \in Nat
                        /\ h[i] \in Nat /\ z[i] \in Nat
                        /\ f[i] + b[i] <= h[i] + z[i]
    BY <1>2, <1>5
  <2>2. QED
    BY <1>1, <2>1, SumsCompare
<1>8. QED
  BY <1>2, <1>3, <1>4, <1>6, <1>7 DEF w

\* A group that reads k records again brings no more than the most for each.
LEMMA ToReadBack ==
    ASSUME NEW topic \in Seq(Counts), NEW offsets \in [Groups -> 0..Len(topic)],
           NEW g \in Groups, NEW k \in Nat, k <= offsets[g],
           NEW earlier, earlier = [offsets EXCEPT ![g] = @ - k]
    PROVE  ToRead(topic, earlier) <= ToRead(topic, offsets) + k * Most
<1> DEFINE n == Len(topic)
           d == offsets[g] - k
           e == offsets[g]
           f == [i \in 1..n |-> Share(topic, earlier, i)]
           h == [i \in 1..n |-> Share(topic, offsets, i)]
           z == Block(n, 0, 0, 0)
           b == Block(n, d, e, Most)
<1>1. n \in Nat /\ d \in Nat /\ e \in Nat /\ d \in 0..n /\ e \in d..n /\ e - d = k
  OBVIOUS
<1>2. SumTo(z, n) = 0 /\ \A i \in 1..n : z[i] = 0
  <2>1. n \in Nat
    BY <1>1
  <2> HIDE DEF n
  <2>2. QED
    BY <2>1, SumOfNone
<1>3. SumTo(b, n) = k * Most /\ Most \in Nat
  <2> HIDE DEF n, d, e
  <2>1. SumTo(b, n) = (e - d) * Most /\ Most \in Nat
    BY <1>1, Weights, SumOfBlock
  <2>2. QED
    BY <1>1, <2>1
<1>4. ASSUME NEW i \in 1..n
      PROVE  /\ f[i] \in Nat /\ b[i] \in Nat /\ h[i] \in Nat
             /\ f[i] <= h[i] + b[i]
  <2>1. b[i] = IF d < i /\ i <= e THEN Most ELSE 0
    BY DEF Block
  <2>2. f[i] = Share(topic, earlier, i) /\ h[i] = Share(topic, offsets, i)
    OBVIOUS
  <2>3. /\ Share(topic, earlier, i) \in Nat /\ Share(topic, offsets, i) \in Nat
        /\ Weight(topic[i]) \in Nat /\ Weight(topic[i]) <= Most
        /\ Cardinality(Unread(offsets, i)) \in Nat
        /\ Cardinality(Unread(earlier, i)) \in Nat
    BY <1>1, ShareTyped
  <2>4. earlier[g] = d /\ \A u \in Groups \ {g} : earlier[u] = offsets[u]
    OBVIOUS
  <2>5. CASE d < i /\ i <= e
    <3>1. Unread(earlier, i) = Unread(offsets, i) \cup {g} /\ g \notin Unread(offsets, i)
      BY <1>1, <2>4, <2>5 DEF Unread
    <3>2. Cardinality(Unread(earlier, i)) = Cardinality(Unread(offsets, i)) + 1
      BY <3>1, UnreadTyped, FS_AddElement
    <3>3. \A m, w \in Nat : (m + 1) * w = m * w + w
      OBVIOUS
    <3>4. Share(topic, earlier, i) = Share(topic, offsets, i) + Weight(topic[i])
      BY <2>3, <3>2, <3>3 DEF Share
    <3>5. b[i] = Most
      BY <2>1, <2>5
    <3> HIDE DEF f, h, b, n, d, e
    <3>6. QED
      BY <1>3, <2>2, <2>3, <3>4, <3>5
  <2>6. CASE ~(d < i /\ i <= e)
    <3>1. Unread(earlier, i) = Unread(offsets, i)
      <4>1. d < i <=> e < i
        BY <1>1, <2>6
      <4>2. QED
        BY <2>4, <4>1 DEF Unread
    <3>2. b[i] = 0
      BY <2>1, <2>6
    <3> HIDE DEF f, h, b, n, d, e
    <3>3. QED
      BY <2>2, <2>3, <3>1, <3>2 DEF Share
  <2>7. QED
    BY <2>5, <2>6
<1>5. /\ ToRead(topic, earlier) = SumTo(f, n) /\ SumTo(f, n) \in Nat
      /\ ToRead(topic, offsets) = SumTo(h, n) /\ SumTo(h, n) \in Nat
  BY ToReadTerms
<1> HIDE DEF f, b, h, z, n
<1>6. SumTo(f, n) + SumTo(z, n) <= SumTo(h, n) + SumTo(b, n)
  <2>1. \A i \in 1..n : /\ f[i] \in Nat /\ z[i] \in Nat
                        /\ h[i] \in Nat /\ b[i] \in Nat
                        /\ f[i] + z[i] <= h[i] + b[i]
    BY <1>2, <1>4
  <2>2. QED
    BY <1>1, <2>1, SumsCompare
<1>7. QED
  BY <1>2, <1>3, <1>5, <1>6

\* A new record, for every group to read.
LEMMA ToReadMore ==
    ASSUME NEW topic \in Seq(Counts), NEW c \in Counts,
           NEW offsets \in [Groups -> 0..Len(topic)]
    PROVE  ToRead(Append(topic, c), offsets) = ToRead(topic, offsets) + K * Weight(c)
<1> DEFINE n == Len(topic)
           longer == Append(topic, c)
           f == [i \in 1..n |-> Share(topic, offsets, i)]
           g == [i \in 1 .. n + 1 |-> Share(longer, offsets, i)]
<1>1. /\ n \in Nat /\ longer \in Seq(Counts) /\ Len(longer) = n + 1
      /\ longer[n + 1] = c /\ \A i \in 1..n : longer[i] = topic[i]
  OBVIOUS
<1>2. \A i \in 1..n : f[i] \in Nat /\ g[i] = f[i]
  BY <1>1, ShareTyped DEF Share
<1>3. g[n + 1] = K * Weight(c)
  <2>1. Unread(offsets, n + 1) = Groups
    BY <1>1 DEF Unread
  <2>2. QED
    BY <1>1, <2>1 DEF Share, K
<1>4. /\ ToRead(topic, offsets) = SumTo(f, n)
      /\ ToRead(longer, offsets) = SumTo(g, n + 1)
  BY <1>1, ToReadTerms
<1> HIDE DEF f, g, n, longer
<1>5. SumTo(g, n + 1) = SumTo(f, n) + g[n + 1]
  BY <1>1, <1>2, SumOneMore
<1>6. QED
  BY <1>3, <1>4, <1>5 DEF longer
-----------------------------------------------------------------------------
(* The steps. *)

Total == Len(raw) + ToRead(raw, read) + ToReplay(dlq, Done)
Bound == Originals * Descendants[ReplayLimit] + (faults * BatchSize) * Most

LEMMA DoneTyped ==
    ASSUME TypeOK
    PROVE  /\ Done \in Nat /\ Done <= Len(dlq) /\ Len(dlq) \in Nat
           /\ Len(raw) \in Nat /\ ToRead(raw, read) \in Nat
           /\ ToReplay(dlq, Done) \in Nat
           /\ Originals * Descendants[ReplayLimit] \in Nat
<1>1. Done \in Nat /\ Done <= Len(dlq) /\ Len(dlq) \in Nat
  BY DEF TypeOK, Done
<1>2. Len(raw) \in Nat
  BY DEF TypeOK
<1>3. ToRead(raw, read) \in Nat /\ ToReplay(dlq, Done) \in Nat
  BY <1>1, ToReadTerms, ToReplayTerms DEF TypeOK
<1>4. Descendants[ReplayLimit] \in Nat /\ Originals \in Nat
  BY DescendantsNat, ReplayAssumption
<1> HIDE DEF Descendants
<1>5. Originals * Descendants[ReplayLimit] \in Nat
  BY <1>4
<1>6. QED
  BY <1>1, <1>2, <1>3, <1>5

\* Wherever the replay goes on, at most k dead letters back.
LEMMA ToReplayMoved ==
    ASSUME NEW topic \in Seq(Counts), NEW d \in Nat, NEW e \in Nat,
           NEW k \in Nat, e <= Len(topic), e <= d + k
    PROVE  ToReplay(topic, d) <= ToReplay(topic, e) + k * Most
<1>1. Most \in Nat /\ k * Most \in Nat
  BY Weights
<1>2. ToReplay(topic, d) \in Nat /\ ToReplay(topic, e) \in Nat
  BY ToReplayTerms
<1>3. CASE e <= d
  <2>1. ToReplay(topic, d) <= ToReplay(topic, e)
    BY <1>3, ToReplayForward
  <2>2. \A x, y, z \in Nat : x <= y => x <= y + z
    OBVIOUS
  <2>3. QED
    BY <1>1, <1>2, <2>1, <2>2
<1>4. CASE d < e
  <2> DEFINE m == e - d
  <2>1. ToReplay(topic, d) <= ToReplay(topic, e) + m * Most
    BY <1>4, ToReplayBack
  <2>2. m \in Nat /\ k - m \in Nat /\ k = m + (k - m)
    BY <1>4
  <2>3. \A a, b \in Nat : (a + b) * Most = a * Most + b * Most /\ b * Most \in Nat
                          /\ a * Most \in Nat
    BY <1>1
  <2> HIDE DEF m
  <2>4. k * Most = m * Most + (k - m) * Most
    BY <2>2, <2>3
  <2>5. m * Most \in Nat /\ (k - m) * Most \in Nat
    BY <2>2, <2>3
  <2>6. \A a, b, x, y \in Nat : a <= b + x => a <= b + (x + y)
    OBVIOUS
  <2>7. QED
    BY <1>2, <2>1, <2>4, <2>5, <2>6 DEF m
<1>5. QED
  BY <1>3, <1>4

\* A fault raises the bound by what a batch may bring.
LEMMA FaultAllows ==
    ASSUME TypeOK, Total <= Bound, faults' = faults + 1,
           NEW k \in Nat, k <= BatchSize, Total' \in Nat,
           Total' <= Total + k * Most
    PROVE  Total' <= Bound'
<1>1. Most \in Nat /\ faults \in Nat /\ BatchSize \in Nat
  BY Weights, ReplayAssumption DEF TypeOK
<1>2. (faults + 1) * BatchSize = faults * BatchSize + BatchSize
      /\ faults * BatchSize \in Nat
  BY <1>1
<1>3. BatchSize - k \in Nat /\ BatchSize = k + (BatchSize - k)
  BY <1>1
<1>4. \A a, b \in Nat : (a + b) * Most = a * Most + b * Most /\ b * Most \in Nat
                        /\ a * Most \in Nat
  BY <1>1
<1>5. BatchSize * Most = k * Most + (BatchSize - k) * Most
  BY <1>3, <1>4
<1>6. (faults' * BatchSize) * Most
         = (faults * BatchSize) * Most + BatchSize * Most
  BY <1>1, <1>2, <1>4
<1>7. /\ (faults * BatchSize) * Most \in Nat /\ k * Most \in Nat
      /\ (BatchSize - k) * Most \in Nat
  BY <1>1, <1>2, <1>3, <1>4
<1>8. /\ Originals * Descendants[ReplayLimit] \in Nat
      /\ Total \in Nat
  <2>1. /\ Len(raw) \in Nat /\ ToRead(raw, read) \in Nat
        /\ ToReplay(dlq, Done) \in Nat
        /\ Originals * Descendants[ReplayLimit] \in Nat
    BY DoneTyped
  <2>2. QED
    BY <2>1 DEF Total
<1>9. Bound' = Originals * Descendants[ReplayLimit] + (faults' * BatchSize) * Most
  BY DEF Bound, Descendants, Most
<1> HIDE DEF Descendants, Total
<1>10. QED
  BY <1>5, <1>6, <1>7, <1>8, <1>9 DEF Bound

LEMMA InitCopies == Init => CopiesInv
<1> SUFFICES ASSUME Init PROVE CopiesInv
  OBVIOUS
<1> USE ReplayAssumption
<1>1. AtMostABatch
  BY DEF Init, AtMostABatch
<1>2. raw \in Seq(Counts) /\ Len(raw) = Originals /\ \A i \in 1..Originals : raw[i] = 0
  BY DEF Init, Counts
<1>3. 0 \in Counts
  BY DEF Counts
<1> DEFINE w == K * Weight(0)
<1>4. w \in Nat
  BY <1>3, Weights, KNat
<1>5. ToRead(raw, read) = Originals * w
  <2>1. \A i \in 1..Originals : Share(raw, read, i) = w
    <3> TAKE i \in 1..Originals
    <3>1. Unread(read, i) = Groups
      BY DEF Init, Unread
    <3>2. QED
      BY <1>2, <3>1 DEF Share, K
  <2>2. [i \in 1..Len(raw) |-> Share(raw, read, i)] = Block(Originals, 0, Originals, w)
    <3> HIDE DEF w
    <3> QED
      BY <1>2, <2>1 DEF Block
  <2>3. ToRead(raw, read) = SumTo(Block(Originals, 0, Originals, w), Originals)
    BY <1>2, <2>2, ToReadTerms
  <2> HIDE DEF w
  <2>4. Originals - 0 = Originals /\ 0 \in 0..Originals /\ Originals \in 0..Originals
    OBVIOUS
  <2>5. QED
    BY <1>4, <2>3, <2>4, SumOfBlock
<1>6. ToReplay(dlq, Done) = 0
  <2>1. Len(dlq) = 0
    BY DEF Init
  <2>2. QED
    BY <2>1, SumToDef DEF ToReplay
<1>7. Descendants[ReplayLimit] = 1 + w
  BY Weights
<1>8. (faults * BatchSize) * Most = 0
  <2>1. faults * BatchSize = 0
    BY DEF Init
  <2>2. QED
    BY <2>1, Weights
<1> HIDE DEF w, Descendants
<1>9. Originals * (1 + w) = Originals + Originals * w
  BY <1>4
<1>10. Originals * w \in Nat
  BY <1>4
<1>11. QED
  BY <1>1, <1>2, <1>5, <1>6, <1>7, <1>8, <1>9, <1>10 DEF CopiesInv

\* No step takes a run further than one batch past what is committed.
LEMMA StepAtMostABatch ==
    ASSUME TypeOK, AtMostABatch, [Next]_vars
    PROVE  AtMostABatch'
<1> USE ReplayAssumption DEF TypeOK, AtMostABatch
<1>1. CASE \E g \in Groups : Consume(g) \/ LetterTimesOut(g) \/ ReadAgain(g)
  BY <1>1 DEF Consume, LetterTimesOut, ReadAgain, loop
<1>2. CASE Start \/ Poll \/ EmptyPoll
  BY <1>2 DEF Start, Poll, EmptyPoll
<1>3. CASE StopInBatch \/ Expire \/ EndOfBatch
  BY <1>3 DEF StopInBatch, Expire, EndOfBatch
<1>4. CASE Publish \/ PublishLost \/ PublishRaises
  BY <1>4 DEF Publish, PublishLost, PublishRaises, HasReplay
<1>5. CASE Commit \/ CommitRaises \/ Crash
  BY <1>5 DEF Commit, CommitRaises, Crash
<1>6. CASE UNCHANGED vars
  BY <1>6 DEF vars
<1>7. QED
  BY <1>1, <1>2, <1>3, <1>4, <1>5, <1>6 DEF Next, Run, Batch

\* A group that reads a record adds at most a dead letter, for its share of it.
LEMMA ConsumeAdds ==
    ASSUME TypeOK, NEW g \in Groups, Consume(g)
    PROVE  Total' <= Total
<1> DEFINE c == raw[read[g] + 1]
<1>1. /\ raw \in Seq(Counts) /\ dlq \in Seq(Counts)
      /\ read \in [Groups -> 0..Len(raw)] /\ read[g] < Len(raw)
      /\ raw' = raw /\ Done' = Done
      /\ read' = [read EXCEPT ![g] = @ + 1]
      /\ dlq' \in {dlq, Append(dlq, c)}
  BY DEF Consume, TypeOK, Done, loop
<1>2. c \in Counts
  <2>1. read[g] + 1 \in 1..Len(raw)
    BY <1>1
  <2>2. QED
    BY <1>1, <2>1, RecordIsCount
<1>3. ToRead(raw, read') + Weight(c) <= ToRead(raw, read)
  BY <1>1, ToReadNext
<1>4. Weight(c) \in Nat
  BY <1>2, Weights
<1>5. /\ Done \in 0..Len(dlq) /\ Len(raw) \in Nat /\ ToRead(raw, read) \in Nat
      /\ ToReplay(dlq, Done) \in Nat
  BY DoneTyped
<1> HIDE DEF c
<1>6. ToReplay(dlq', Done) <= ToReplay(dlq, Done) + Weight(c)
  <2>1. CASE dlq' = dlq
    BY <1>4, <1>5, <2>1
  <2>2. CASE dlq' = Append(dlq, c)
    <3>1. ToReplay(dlq', Done) = ToReplay(dlq, Done) + Weight(c)
      BY <1>1, <1>2, <1>5, <2>2, ToReplayMore
    <3>2. QED
      BY <1>4, <1>5, <3>1
  <2>3. QED
    BY <1>1, <2>1, <2>2
<1>7. ToReplay(dlq', Done) \in Nat /\ ToRead(raw, read') \in Nat
  <2>1. dlq' \in Seq(Counts) /\ Done \in Nat
    BY <1>1, <1>2, <1>5
  <2>2. QED
    BY <1>1, <2>1, ToReplayTerms, ToReadTerms
<1>8. Total' = Len(raw) + ToRead(raw, read') + ToReplay(dlq', Done)
  BY <1>1 DEF Total
<1>9. QED
  BY <1>3, <1>4, <1>5, <1>6, <1>7, <1>8 DEF Total

\* The record of a replay takes the place of its dead letter.
LEMMA RaisedAdds ==
    ASSUME TypeOK, HasReplay
    PROVE  /\ Len(Raised) + ToRead(Raised, read)
                 = Len(raw) + ToRead(raw, read) + Weight(dlq[next])
           /\ Weight(dlq[next]) \in Nat /\ Weight(dlq[next]) <= Most
<1> DEFINE c == dlq[next]
<1>1. next \in 1..Len(dlq) /\ Len(Raised) = Len(raw) + 1
  BY RaisedTyped
<1>2. c \in Counts /\ c < ReplayLimit
  BY <1>1, RecordIsCount DEF HasReplay, TypeOK
<1>3. c + 1 \in Counts
  BY <1>2, ReplayAssumption DEF Counts
<1>4. Weight(c) = 1 + K * Weight(c + 1) /\ Weight(c) \in Nat /\ Weight(c) <= Most
  BY <1>2, Weights
<1>5. ToRead(Raised, read) = ToRead(raw, read) + K * Weight(c + 1)
  BY <1>3, ToReadMore DEF TypeOK, Raised
<1>6. K * Weight(c + 1) \in Nat
  BY <1>3, KNat, Weights
<1>7. Len(raw) \in Nat /\ ToRead(raw, read) \in Nat
  BY DoneTyped
<1> HIDE DEF c
<1>8. QED
  BY <1>1, <1>4, <1>5, <1>6, <1>7 DEF c

\* The steps without a fault add nothing.
LEMMA QuietStepAdds ==
    ASSUME TypeOK, AtMostABatch,
           \/ Start \/ Poll \/ EmptyPoll \/ StopInBatch \/ Expire \/ PublishLost
           \/ Publish \/ EndOfBatch \/ Commit
    PROVE  Total' <= Total /\ faults' = faults
<1> USE ReplayAssumption
<1>0. /\ Done \in Nat /\ Done <= Len(dlq) /\ Len(dlq) \in Nat
      /\ Len(raw) \in Nat /\ ToRead(raw, read) \in Nat
      /\ ToReplay(dlq, Done) \in Nat /\ dlq \in Seq(Counts)
  BY DoneTyped DEF TypeOK
<1>1. CASE Publish
  <2>1. /\ HasReplay /\ raw' = Raised /\ UNCHANGED <<dlq, read, faults>>
        /\ pc = "replay" /\ pc' = "replay" /\ next' = next + 1
    BY <1>1 DEF Publish, HasReplay
  <2>2. Done = next - 1 /\ Done' = next /\ next \in 1..Len(dlq)
    BY <2>1, RaisedTyped DEF Done
  <2>3. ToReplay(dlq, Done + 1) + Weight(dlq[Done + 1]) <= ToReplay(dlq, Done)
    BY <1>0, <2>2, ToReplayNext
  <2>4. Done + 1 = next
    BY <2>2
  <2>5. /\ Len(Raised) + ToRead(Raised, read)
              = Len(raw) + ToRead(raw, read) + Weight(dlq[next])
        /\ Weight(dlq[next]) \in Nat
    BY <2>1, RaisedAdds
  <2>6. ToReplay(dlq, next) \in Nat
    <3>1. next \in Nat
      BY <1>0, <2>2
    <3>2. QED
      BY <1>0, <3>1, ToReplayTerms
  <2>7. Total' = Len(Raised) + ToRead(Raised, read) + ToReplay(dlq, next)
    BY <2>1, <2>2 DEF Total
  <2>8. QED
    BY <1>0, <2>1, <2>3, <2>4, <2>5, <2>6, <2>7 DEF Total
<1>2. CASE ~Publish
  <2>1. UNCHANGED <<raw, read, dlq, faults>>
    BY <1>2
    DEF Start, Poll, EmptyPoll, StopInBatch, Expire, PublishLost, EndOfBatch,
        Commit, topics
  <2>2. Done' \in Nat /\ Done <= Done'
    <3> USE DEF TypeOK, AtMostABatch, Done
    <3>1. CASE Start \/ Poll \/ EmptyPoll
      BY <3>1 DEF Start, Poll, EmptyPoll
    <3>2. CASE StopInBatch \/ EndOfBatch
      BY <3>2 DEF StopInBatch, EndOfBatch
    <3>3. CASE Expire \/ PublishLost
      BY <3>3 DEF Expire, PublishLost, HasReplay
    <3>4. CASE Commit
      BY <3>4 DEF Commit
    <3>5. QED
      BY <1>2, <3>1, <3>2, <3>3, <3>4
  <2>3. ToReplay(dlq, Done') <= ToReplay(dlq, Done)
    BY <1>0, <2>2, ToReplayForward
  <2>4. ToReplay(dlq, Done') \in Nat
    BY <1>0, <2>2, ToReplayTerms
  <2>5. Total' = Len(raw) + ToRead(raw, read) + ToReplay(dlq, Done')
    BY <2>1 DEF Total
  <2>6. QED
    BY <1>0, <2>1, <2>3, <2>4, <2>5 DEF Total
<1>3. QED
  BY <1>1, <1>2

\* A fault adds no more than a batch may bring.
LEMMA FaultAdds ==
    ASSUME TypeOK, AtMostABatch,
           \/ \E g \in Groups : LetterTimesOut(g) \/ ReadAgain(g)
           \/ PublishRaises \/ CommitRaises \/ Crash
    PROVE  /\ faults' = faults + 1
           /\ Total' <= Total + BatchSize * Most
<1> USE ReplayAssumption
<1>0. /\ Done \in Nat /\ Done <= Len(dlq) /\ Len(dlq) \in Nat
      /\ Len(raw) \in Nat /\ ToRead(raw, read) \in Nat
      /\ ToReplay(dlq, Done) \in Nat /\ dlq \in Seq(Counts) /\ raw \in Seq(Counts)
      /\ committed \in Nat /\ Most \in Nat
  BY DoneTyped, Weights DEF TypeOK
<1>1. \A a, b \in Nat : (a + b) * Most = a * Most + b * Most
                        /\ a * Most \in Nat /\ b * Most \in Nat
  BY <1>0
<1>2. ASSUME NEW g \in Groups, ReadAgain(g)
      PROVE  faults' = faults + 1 /\ Total' <= Total + BatchSize * Most
  <2>1. /\ faults' = faults + 1 /\ UNCHANGED <<raw, dlq>> /\ Done' = Done
    BY <1>2 DEF ReadAgain, Fault, Done, loop
  <2>2. PICK n \in 1..BatchSize :
              n <= read[g] /\ read' = [read EXCEPT ![g] = @ - n]
    BY <1>2 DEF ReadAgain
  <2>3. n \in Nat /\ BatchSize - n \in Nat /\ BatchSize = n + (BatchSize - n)
    OBVIOUS
  <2>4. ToRead(raw, read') <= ToRead(raw, read) + n * Most
    BY <2>2, <2>3, ToReadBack DEF TypeOK
  <2>5. BatchSize * Most = n * Most + (BatchSize - n) * Most
    BY <1>1, <2>3
  <2>6. /\ ToRead(raw, read') \in Nat /\ n * Most \in Nat
        /\ (BatchSize - n) * Most \in Nat
    BY <1>0, <1>1, <2>3, ToReadTerms
  <2>7. Total' = Len(raw) + ToRead(raw, read') + ToReplay(dlq, Done)
    BY <2>1 DEF Total
  <2>8. \A a, b, c, d, x, y \in Nat :
            b <= c + x => a + b + d <= (a + c + d) + (x + y)
    OBVIOUS
  <2>9. Len(raw) + ToRead(raw, read') + ToReplay(dlq, Done)
          <= Total + (n * Most + (BatchSize - n) * Most)
    BY <1>0, <2>4, <2>6, <2>8 DEF Total
  <2> HIDE DEF Total
  <2>10. QED
    BY <2>1, <2>5, <2>7, <2>9
<1>3. ASSUME pc # "down", pc' = "down", UNCHANGED <<raw, dlq, read, committed>>
      PROVE  Total' <= Total + BatchSize * Most
  <2>1. Done' = committed /\ Done <= committed + BatchSize
    BY <1>3 DEF Done, TypeOK, AtMostABatch
  <2>2. BatchSize \in Nat
    OBVIOUS
  <2>3. ToReplay(dlq, committed) <= ToReplay(dlq, Done) + BatchSize * Most
    BY <1>0, <2>1, <2>2, ToReplayMoved
  <2>4. ToReplay(dlq, committed) \in Nat /\ BatchSize * Most \in Nat
    BY <1>0, <1>1, <2>2, ToReplayTerms
  <2>5. Total' = Len(raw) + ToRead(raw, read) + ToReplay(dlq, committed)
    BY <1>3, <2>1 DEF Total
  <2>6. QED
    BY <1>0, <2>3, <2>4, <2>5 DEF Total
<1>4. CASE CommitRaises \/ Crash
  <2>1. /\ pc # "down" /\ pc' = "down" /\ faults' = faults + 1
        /\ UNCHANGED <<raw, dlq, read, committed>>
    BY <1>4 DEF CommitRaises, Crash, Fault, topics
  <2>2. QED
    BY <1>3, <2>1
<1>5. CASE PublishRaises
  <2>1. /\ HasReplay /\ faults' = faults + 1 /\ pc = "replay" /\ pc' = "down"
        /\ UNCHANGED <<dlq, read, committed>> /\ raw' \in {raw, Raised}
    BY <1>5 DEF PublishRaises, Fault, HasReplay
  <2>2. CASE raw' = raw
    BY <1>3, <2>1, <2>2
  <2>3. CASE raw' = Raised
    <3>1. Done' = committed /\ Done = next - 1 /\ next <= position
          /\ position <= committed + BatchSize /\ next \in Nat /\ position \in Nat
      BY <2>1 DEF Done, AtMostABatch, HasReplay, TypeOK
    <3> DEFINE k == BatchSize - 1
    <3>2. k \in Nat /\ BatchSize = k + 1 /\ Done <= committed + k /\ 1 \in Nat
      BY <1>0, <3>1
    <3> HIDE DEF k
    <3>3. ToReplay(dlq, committed) <= ToReplay(dlq, Done) + k * Most
      BY <1>0, <3>2, ToReplayMoved
    <3>4. BatchSize * Most = k * Most + 1 * Most /\ 1 * Most = Most
          /\ k * Most \in Nat
      BY <1>0, <1>1, <3>2
    <3>5. /\ Len(Raised) + ToRead(Raised, read)
                = Len(raw) + ToRead(raw, read) + Weight(dlq[next])
          /\ Weight(dlq[next]) \in Nat /\ Weight(dlq[next]) <= Most
      BY <2>1, RaisedAdds
    <3>6. ToReplay(dlq, committed) \in Nat
      BY <1>0, ToReplayTerms
    <3>7. Total' = Len(Raised) + ToRead(Raised, read) + ToReplay(dlq, committed)
      BY <2>1, <2>3, <3>1 DEF Total
    <3>8. \A a, b, c, d, e, w, x, y \in Nat :
              e <= d + x /\ w <= y => (a + b + w) + e <= (a + b + d) + (x + y)
      OBVIOUS
    <3>9. (Len(raw) + ToRead(raw, read) + Weight(dlq[next]))
            + ToReplay(dlq, committed)
            <= Total + (k * Most + Most)
      BY <1>0, <3>3, <3>4, <3>5, <3>6, <3>8 DEF Total
    <3> HIDE DEF Total
    <3>10. QED
      BY <2>1, <3>4, <3>5, <3>7, <3>9
  <2>4. QED
    BY <2>1, <2>2, <2>3
<1>6. ASSUME NEW g \in Groups, LetterTimesOut(g)
      PROVE  faults' = faults + 1 /\ Total' <= Total + BatchSize * Most
  <2> DEFINE c == raw[read[g] + 1]
  <2>1. /\ faults' = faults + 1 /\ UNCHANGED <<raw, read>> /\ Done' = Done
        /\ dlq' = Append(dlq, c) /\ read[g] + 1 \in 1..Len(raw)
    BY <1>6 DEF LetterTimesOut, Fault, Done, loop, TypeOK
  <2>2. c \in Counts
    BY <1>0, <2>1, RecordIsCount
  <2>3. Weight(c) \in Nat /\ Weight(c) <= Most
    BY <2>2, Weights
  <2> HIDE DEF c
  <2>4. Done \in 0..Len(dlq)
    BY <1>0
  <2>5. ToReplay(dlq', Done) = ToReplay(dlq, Done) + Weight(c)
    BY <1>0, <2>1, <2>2, <2>4, ToReplayMore
  <2> DEFINE k == BatchSize - 1
  <2>6. k \in Nat /\ 1 \in Nat /\ BatchSize = k + 1
    OBVIOUS
  <2> HIDE DEF k
  <2>7. BatchSize * Most = k * Most + 1 * Most /\ 1 * Most = Most
        /\ k * Most \in Nat
    BY <1>0, <1>1, <2>6
  <2>8. Total' = Len(raw) + ToRead(raw, read) + ToReplay(dlq', Done)
    BY <2>1 DEF Total
  <2>9. Total' = Total + Weight(c) /\ Total \in Nat
    BY <1>0, <2>3, <2>5, <2>8 DEF Total
  <2> HIDE DEF Total
  <2>10. Total + Weight(c) <= Total + (k * Most + Most)
    BY <1>0, <2>3, <2>7, <2>9
  <2>11. QED
    BY <2>1, <2>7, <2>9, <2>10
<1>7. QED
  BY <1>2, <1>4, <1>5, <1>6

LEMMA StepCopies ==
    ASSUME TypeOK, TypeOK', CopiesInv, [Next]_vars
    PROVE  CopiesInv'
<1>1. AtMostABatch /\ Total <= Bound
  BY DEF CopiesInv, Total, Bound
<1>2. AtMostABatch'
  BY <1>1, StepAtMostABatch
<1>3. Total \in Nat /\ Total' \in Nat
  <2>1. /\ Len(raw) \in Nat /\ ToRead(raw, read) \in Nat
        /\ ToReplay(dlq, Done) \in Nat
    BY DoneTyped
  <2>2. Len(raw)' \in Nat /\ ToRead(raw, read)' \in Nat
        /\ ToReplay(dlq, Done)' \in Nat
    <3>1. dlq' \in Seq(Counts) /\ raw' \in Seq(Counts)
      BY DEF TypeOK
    <3>2. Done' \in Nat
      <4>1. Len(dlq') \in Nat
        BY <3>1
      <4>2. /\ position' \in 0..Len(dlq') /\ committed' \in 0..Len(dlq')
            /\ next' \in 1..position' + 1
        BY DEF TypeOK
      <4>3. \A n \in Nat : (\A k \in 0..n : k \in Nat)
                              /\ \A k \in 1..n + 1 : k - 1 \in Nat
        OBVIOUS
      <4>4. position' \in Nat /\ committed' \in Nat
        BY <4>1, <4>2, <4>3
      <4>5. next' - 1 \in Nat
        BY <4>2, <4>3, <4>4
      <4>6. QED
        BY <4>4, <4>5 DEF Done
    <3>3. Len(raw') \in Nat
      BY <3>1
    <3>4. ToRead(raw', read') \in Nat
      BY <3>1, ToReadTerms
    <3>5. ToReplay(dlq', Done') \in Nat
      BY <3>1, <3>2, ToReplayTerms
    <3>6. QED
      BY <3>3, <3>4, <3>5
  <2>4. QED
    BY <2>1, <2>2 DEF Total
<1>4. Bound \in Nat
  <2>1. Originals * Descendants[ReplayLimit] \in Nat
    BY DoneTyped
  <2>2. faults \in Nat /\ BatchSize \in Nat /\ Most \in Nat
    BY ReplayAssumption, Weights DEF TypeOK
  <2>3. faults * BatchSize \in Nat
    BY <2>2
  <2>4. (faults * BatchSize) * Most \in Nat
    BY <2>2, <2>3
  <2> HIDE DEF Descendants
  <2>5. QED
    BY <2>1, <2>4 DEF Bound
<1>5. ASSUME Total' <= Total, faults' = faults
      PROVE  Total' <= Bound'
  <2>1. Bound' = Bound
    BY <1>5 DEF Bound, Descendants, Most
  <2> HIDE DEF Total, Bound
  <2>2. QED
    BY <1>1, <1>3, <1>4, <1>5, <2>1
<1>6. ASSUME NEW g \in Groups, Consume(g)
      PROVE  Total' <= Bound'
  <2>1. faults' = faults
    BY <1>6 DEF Consume
  <2>2. QED
    BY <1>5, <1>6, <2>1, ConsumeAdds
<1>7. ASSUME \/ Start \/ Poll \/ EmptyPoll \/ StopInBatch \/ Expire \/ PublishLost
             \/ Publish \/ EndOfBatch \/ Commit
      PROVE  Total' <= Bound'
  BY <1>1, <1>5, <1>7, QuietStepAdds
<1>8. ASSUME \/ \E g \in Groups : LetterTimesOut(g) \/ ReadAgain(g)
             \/ PublishRaises \/ CommitRaises \/ Crash
      PROVE  Total' <= Bound'
  <2>1. faults' = faults + 1 /\ Total' <= Total + BatchSize * Most
    <3> HIDE DEF Total
    <3> QED
      BY <1>1, <1>8, FaultAdds
  <2>2. BatchSize \in Nat /\ BatchSize <= BatchSize
    BY ReplayAssumption
  <2>3. QED
    BY <1>1, <1>3, <2>1, <2>2, FaultAllows
<1>9. ASSUME UNCHANGED vars PROVE Total' <= Bound'
  <2>1. Total' = Total /\ faults' = faults
    BY <1>9 DEF vars, Total, Done
  <2>2. QED
    BY <1>3, <1>5, <2>1
<1>10. Total' <= Bound'
  BY <1>6, <1>7, <1>8, <1>9 DEF Next, Run, Batch
<1>11. QED
  BY <1>2, <1>10 DEF CopiesInv, Total, Bound

\* For any number of groups and events, replay limit and batch size: an event
\* comes back to raw-logs no more often than it has descendants, and a crash, a
\* failing commit or a send that raises or times out adds no more than one batch
\* does.
THEOREM CopiesAreBounded == Spec => []CopiesBounded
<1>1. TypeOK /\ CopiesInv => CopiesBounded
  <2> SUFFICES ASSUME TypeOK, CopiesInv PROVE CopiesBounded
    OBVIOUS
  <2>1. /\ Len(raw) \in Nat /\ ToRead(raw, read) \in Nat
        /\ ToReplay(dlq, Done) \in Nat
        /\ Originals * Descendants[ReplayLimit] \in Nat
    BY DoneTyped
  <2>2. faults * BatchSize \in Nat /\ Most \in Nat
    BY ReplayAssumption, Weights DEF TypeOK
  <2>3. (faults * BatchSize) * Most \in Nat
    BY <2>2
  <2> HIDE DEF Descendants
  <2>4. Len(raw) <= Originals * Descendants[ReplayLimit] + (faults * BatchSize) * Most
    BY <2>1, <2>3 DEF CopiesInv
  <2>5. CASE ReplayLimit = 0
    <3>1. (faults * BatchSize) * Most = 0
      BY <2>2, <2>5 DEF Most
    <3>2. QED
      BY <2>4, <2>5, <3>1 DEF CopiesBounded
  <2>6. CASE ReplayLimit # 0
    BY <2>4, <2>6 DEF CopiesBounded, Most
  <2>7. QED
    BY <2>5, <2>6
<1>2. TypeOK /\ TypeOK' /\ CopiesInv /\ [Next]_vars => CopiesInv'
  BY StepCopies
<1>3. QED
  BY <1>1, <1>2, InitCopies, ReplayTypeCorrect, PTL DEF Spec
=============================================================================
