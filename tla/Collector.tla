------------------------------ MODULE Collector ------------------------------
(***************************************************************************)
(* The syslog collector (src/logfilter/collector.py): listener threads     *)
(* publish events to the raw topic and, when LogProducer.send gives up,    *)
(* append them to BoundedNDJSONSpool, a file rewritten in place under one  *)
(* lock; a drain thread replays the file under the same lock.              *)
(*                                                                         *)
(* Events are 1..MaxEvents in the order in which they reach publish() and  *)
(* pass its checks (not blank, allowed source).  A line of the file is     *)
(*   ids  the events whose text it holds,                                  *)
(*   ok   does it parse as one JSON object?                                *)
(*   nl   does it end in a newline?                                        *)
(*   utf8 does it decode, or does it end inside a character?               *)
(* Only the last line may lack the last two: it is what a rewrite that was *)
(* cut short left.                                                         *)
(***************************************************************************)
EXTENDS Integers, Sequences, FiniteSetsExt

CONSTANTS Publishers,         (* UDP listener and TCP client threads       *)
          Drainer,            (* the _spool_drain_loop thread              *)
          Nobody,             (* holds the lock when it is free            *)
          HasSpool,           (* is SYSLOG_SPOOL_PATH set?                 *)
          MaxBytes,           (* max_spool_bytes                           *)
          Bytes,              (* Bytes[e]: size of event e's line          *)
          AsciiOnly,          (* are all characters one byte long?         *)
          Huge,               (* events too large for the Kafka client: the
                                 envelope is over max_request_size         *)
          Attempts,           (* attempts of LogProducer.send              *)
          MaxEvents,          (* bound: events received                    *)
          MaxFaults           (* bound: crashes, stops, disk errors and
                                 sends with an unknown outcome             *)

ASSUME CollectorAssumption ==
    /\ Drainer \notin Publishers
    /\ Nobody \notin Publishers \cup {Drainer}
    /\ HasSpool \in BOOLEAN
    /\ MaxBytes \in Nat
    /\ MaxEvents \in Nat
    /\ Bytes \in [1..MaxEvents -> Nat \ {0}]
    /\ AsciiOnly \in BOOLEAN
    /\ Huge \subseteq 1..MaxEvents
    /\ Attempts \in Nat \ {0}
    /\ MaxFaults \in Nat

VARIABLES kafka,              (* does the broker accept records?           *)
          copies,             (* copies[e]: copies of e on the raw topic   *)
          received,           (* events taken from the sockets             *)
          ended,              (* events whose publish() has ended          *)
          pc, ev, tries,      (* per thread: where, event in hand, attempt *)
          lock,               (* holder of the spool lock, or Nobody     *)
          todo, keep, quarantined, (* drain(): lines left, remaining, bad  *)
          buf,                (* lines the lock holder is about to write   *)
          file,               (* the spool file                            *)
          bad,                (* events with a line in the .bad file       *)
          evicted,            (* events dropped by the byte bound          *)
          torn,               (* events gone in a rewrite cut short        *)
          refused,            (* events write() turned away, unable to
                                 read the file                             *)
          stop,               (* stop_event                                *)
          faults              (* faults so far                             *)

threads == <<pc, ev, tries, lock, todo, keep, quarantined, buf>>
disk == <<file, bad, evicted, torn, refused>>
vars == <<kafka, copies, received, ended, threads, disk, stop, faults>>

Events == 1..MaxEvents
Threads == Publishers \cup {Drainer}
Line == [ids : SUBSET Events, ok : BOOLEAN, nl : BOOLEAN, utf8 : BOOLEAN]
Record(e) == [ids |-> {e}, ok |-> TRUE, nl |-> TRUE, utf8 |-> TRUE]

\* readlines() decodes the whole file or raises.
Readable(lines) == \A i \in DOMAIN lines : lines[i].utf8

IdsOf(lines) == UNION {lines[i].ids : i \in DOMAIN lines}

\* f[1] + ... + f[n].
SumTo(f, n) ==
    LET sum[i \in 0..n] == IF i = 0 THEN 0 ELSE sum[i - 1] + f[i]
    IN  sum[n]

LineBytes(l) ==
    SumTo([e \in Events |-> IF e \in l.ids THEN Bytes[e] ELSE 0], MaxEvents)
TotalBytes(lines) ==
    SumTo([i \in DOMAIN lines |-> LineBytes(lines[i])], Len(lines))

\* The first line from which on the rest fits, or the end if none does.
FirstKept(lines) ==
    Min({k \in 1..Len(lines) + 1 :
            \/ k = Len(lines) + 1
            \/ TotalBytes(SubSeq(lines, k, Len(lines))) <= MaxBytes})

\* Mutated form: the bound is checked before the oldest line is counted.
EnforceBoundLate(lines) ==
    SubSeq(lines, IF FirstKept(lines) > 1 THEN FirstKept(lines) - 1 ELSE 1,
           Len(lines))

\* _enforce_bound: the oldest lines go until the rest fits.
EnforceBound(lines) == SubSeq(lines, FirstKept(lines), Len(lines))

\* writelines: a line without a newline runs into the one written after it.
Glued(lines) ==
    LET n == Len(lines) IN
    IF n >= 2 /\ ~lines[n - 1].nl
    THEN Append(SubSeq(lines, 1, n - 2),
                [lines[n] EXCEPT !.ids = @ \cup lines[n - 1].ids,
                                 !.ok = FALSE])
    ELSE lines

\* What a rewrite leaves that is cut short after open("w") truncated the file:
\* some lines, and perhaps one more that lacks its newline, or its end, or the
\* end of a character too.
CutShort(lines) ==
    LET n == Len(lines)
        cuts(l) == {[l EXCEPT !.nl = FALSE],
                    [l EXCEPT !.nl = FALSE, !.ok = FALSE],
                    [l EXCEPT !.nl = FALSE, !.ok = FALSE, !.utf8 = AsciiOnly]}
    IN  {Glued(SubSeq(lines, 1, k)) : k \in 0..n}
        \cup UNION {{Glued(Append(SubSeq(lines, 1, k), l)) :
                        l \in cuts(lines[k + 1])} : k \in 0 .. n - 1}

NewProcess ==
    /\ pc' = [t \in Threads |-> "idle"]
    /\ ev' = [t \in Threads |-> 0]
    /\ tries' = [t \in Threads |-> 0]
    /\ lock' = Nobody
    /\ todo' = <<>> /\ keep' = <<>> /\ buf' = <<>> /\ quarantined' = {}
    /\ stop' = FALSE

Init ==
    /\ kafka = TRUE
    /\ copies = [e \in Events |-> 0]
    /\ received = 0
    /\ ended = {}
    /\ pc = [t \in Threads |-> "idle"]
    /\ ev = [t \in Threads |-> 0]
    /\ tries = [t \in Threads |-> 0]
    /\ lock = Nobody
    /\ todo = <<>> /\ keep = <<>> /\ buf = <<>> /\ quarantined = {}
    /\ file = <<>>
    /\ bad = {} /\ evicted = {} /\ torn = {} /\ refused = {}
    /\ stop = FALSE
    /\ faults = 0

Fault == faults < MaxFaults /\ faults' = faults + 1

Goto(t, label) == pc' = [pc EXCEPT ![t] = label]
-----------------------------------------------------------------------------
(* publish(), lines 179-206: the event passes the checks and is sent. *)
Receive(p) ==
    /\ pc[p] = "idle"
    /\ ~stop
    /\ received < MaxEvents
    /\ received' = received + 1
    /\ ev' = [ev EXCEPT ![p] = received + 1]
    /\ tries' = [tries EXCEPT ![p] = 1]
    /\ Goto(p, "send")
    /\ UNCHANGED <<kafka, copies, ended, lock, todo, keep, quarantined, buf,
                   disk, stop, faults>>

\* Mutated form: the line stays in the file although its event was sent.
ReturnsKeeping(t) ==
    /\ IF t = Drainer
       THEN /\ Goto(t, "drain")
            /\ todo' = Tail(todo)
            /\ keep' = Append(keep, Head(todo))
            /\ UNCHANGED ended
       ELSE /\ Goto(t, "idle")
            /\ ended' = ended \cup {ev[t]}
            /\ UNCHANGED <<todo, keep>>
    /\ UNCHANGED tries

\* What follows LogProducer.send when it returns.
Returns(t) ==
    /\ IF t = Drainer
       THEN /\ Goto(t, "drain")
            /\ todo' = Tail(todo)
            /\ UNCHANGED ended
       ELSE /\ Goto(t, "idle")
            /\ ended' = ended \cup {ev[t]}
            /\ UNCHANGED todo
    /\ UNCHANGED <<tries, keep>>

\* Mutated form: one attempt too many.
LastAttemptLate(t) == tries[t] > Attempts

LastAttempt(t) == tries[t] = Attempts

\* ... and when an attempt raises: the decorator tries again, and after the
\* last attempt drain() keeps the line (150-151) and publish() spools the
\* event, or, without a spool, raises to a listener that only logs (216-236).
Raises(t) ==
    \/ /\ ~LastAttempt(t)
       /\ tries' = [tries EXCEPT ![t] = @ + 1]
       /\ UNCHANGED <<pc, ended, todo, keep>>
    \/ /\ LastAttempt(t)
       /\ IF t = Drainer
          THEN /\ Goto(t, "drain")
               /\ todo' = Tail(todo)
               /\ keep' = Append(keep, Head(todo))
               /\ UNCHANGED ended
          ELSE /\ Goto(t, IF HasSpool THEN "spool" ELSE "idle")
               /\ ended' = IF HasSpool THEN ended ELSE ended \cup {ev[t]}
               /\ UNCHANGED <<todo, keep>>
       /\ UNCHANGED tries

SendSucceeds(t) ==
    /\ pc[t] = "send"
    /\ kafka /\ ev[t] \notin Huge
    /\ copies' = [copies EXCEPT ![ev[t]] = @ + 1]
    /\ Returns(t)
    /\ UNCHANGED <<kafka, received, ev, lock, quarantined, buf, disk, stop,
                   faults>>

\* The broker refuses or cannot be reached, or the client itself raises, which has
\* the default max_request_size (producer.py:60-71) of as many bytes as the
\* collector takes in a line (line 60): the record was not appended.
SendRefused(t) ==
    /\ pc[t] = "send"
    /\ ~kafka \/ ev[t] \in Huge
    /\ Raises(t)
    /\ UNCHANGED <<kafka, copies, received, ev, lock, quarantined, buf, disk,
                   stop, faults>>

\* future.get(timeout=10) gives up on a record the client may still deliver.
SendTimesOut(t) ==
    /\ pc[t] = "send" /\ ev[t] \notin Huge
    /\ Fault
    /\ \E n \in 0..1 : copies' = [copies EXCEPT ![ev[t]] = @ + n]
    /\ Raises(t)
    /\ UNCHANGED <<kafka, received, ev, lock, quarantined, buf, disk, stop>>
-----------------------------------------------------------------------------
(* BoundedNDJSONSpool.write, lines 123-130. *)
WriteBegin(p) ==
    /\ pc[p] = "spool"
    /\ lock = Nobody
    /\ Readable(file)
    /\ lock' = p
    /\ buf' = EnforceBound(Append(file, Record(ev[p])))
    /\ Goto(p, "write")
    /\ UNCHANGED <<kafka, copies, received, ended, ev, tries, todo, keep,
                   quarantined, disk, stop, faults>>

\* Line 126 raises UnicodeDecodeError out of publish() to a listener.
WriteRefused(p) ==
    /\ pc[p] = "spool"
    /\ lock = Nobody
    /\ ~Readable(file)
    /\ refused' = refused \cup {ev[p]}
    /\ ended' = ended \cup {ev[p]}
    /\ Goto(p, "idle")
    /\ UNCHANGED <<kafka, copies, received, ev, tries, lock, todo, keep,
                   quarantined, buf, file, bad, evicted, torn, stop, faults>>

\* Mutated form: the file is read, and its lines replayed, without the lock.
DrainBeginUnlocked ==
    /\ pc[Drainer] = "idle"
    /\ HasSpool
    /\ ~stop
    /\ file # <<>> /\ Readable(file)
    /\ todo' = file /\ keep' = <<>> /\ quarantined' = {}
    /\ Goto(Drainer, "drain")
    /\ UNCHANGED <<kafka, copies, received, ended, ev, tries, lock, buf, disk,
                   stop, faults>>

\* BoundedNDJSONSpool.drain, lines 134-137: an empty file ends
\* it at once, and one that does not decode raises to the loop.
DrainBegin ==
    /\ pc[Drainer] = "idle"
    /\ HasSpool
    /\ ~stop
    /\ lock = Nobody
    /\ file # <<>> /\ Readable(file)
    /\ lock' = Drainer
    /\ todo' = file /\ keep' = <<>> /\ quarantined' = {}
    /\ Goto(Drainer, "drain")
    /\ UNCHANGED <<kafka, copies, received, ended, ev, tries, buf, disk, stop,
                   faults>>

\* Lines 144-145: the next line parses and is replayed.
DrainRecord ==
    /\ pc[Drainer] = "drain"
    /\ todo # <<>>
    /\ Head(todo).ok
    /\ \E e \in Head(todo).ids : ev' = [ev EXCEPT ![Drainer] = e]
    /\ tries' = [tries EXCEPT ![Drainer] = 1]
    /\ Goto(Drainer, "send")
    /\ UNCHANGED <<kafka, copies, received, ended, lock, todo, keep,
                   quarantined, buf, disk, stop, faults>>

\* Mutated form: a malformed line is kept like one that could not be sent.
DrainMalformedKept ==
    /\ pc[Drainer] = "drain"
    /\ todo # <<>>
    /\ ~Head(todo).ok
    /\ keep' = Append(keep, Head(todo))
    /\ todo' = Tail(todo)
    /\ UNCHANGED <<kafka, copies, received, ended, pc, ev, tries, lock,
                   quarantined, buf, disk, stop, faults>>

\* Lines 147-149.
DrainMalformed ==
    /\ pc[Drainer] = "drain"
    /\ todo # <<>>
    /\ ~Head(todo).ok
    /\ quarantined' = quarantined \cup Head(todo).ids
    /\ todo' = Tail(todo)
    /\ UNCHANGED <<kafka, copies, received, ended, pc, ev, tries, lock, keep,
                   buf, disk, stop, faults>>

\* Lines 152-154: bad lines go to the .bad file, then the file is rewritten.
DrainEnd ==
    /\ pc[Drainer] = "drain"
    /\ todo = <<>>
    /\ bad' = bad \cup quarantined
    /\ buf' = keep
    /\ Goto(Drainer, "write")
    /\ UNCHANGED <<kafka, copies, received, ended, ev, tries, lock, todo, keep,
                   quarantined, file, evicted, torn, refused, stop, faults>>

\* The event in hand; drain() replays events the file already holds.
InHand(t) == IF t = Drainer THEN {} ELSE {ev[t]}

\* The lock is released on every way out of the with block.
Unlock(t) ==
    /\ lock' = Nobody
    /\ Goto(t, "idle")
    /\ ended' = ended \cup InHand(t)

\* Line 153 raises: the file still holds every line that was read.
DrainEndFails ==
    /\ pc[Drainer] = "drain"
    /\ todo = <<>>
    /\ quarantined # {}
    /\ Fault
    /\ Unlock(Drainer)
    /\ UNCHANGED <<kafka, copies, received, ev, tries, todo, keep, quarantined,
                   buf, disk, stop>>

\* _write_lines succeeds.
Write(t) ==
    /\ pc[t] = "write"
    /\ file' = Glued(buf)
    /\ evicted' = IF t = Drainer THEN evicted
                  ELSE evicted \cup ((IdsOf(file) \cup {ev[t]}) \ IdsOf(buf))
    /\ Unlock(t)
    /\ UNCHANGED <<kafka, copies, received, ev, tries, todo, keep, quarantined,
                   buf, bad, torn, refused, stop, faults>>

\* _write_lines raises (the disk is full, an I/O error): write() raises out of
\* publish() to a listener that logs it, drain() to its loop.
WriteFails(t) ==
    /\ pc[t] = "write"
    /\ Fault
    /\ file' \in {file} \cup CutShort(buf)
    /\ torn' = torn \cup ((IdsOf(file) \cup InHand(t)) \ IdsOf(file'))
    /\ Unlock(t)
    /\ UNCHANGED <<kafka, copies, received, ev, tries, todo, keep, quarantined,
                   buf, bad, evicted, refused, stop>>
-----------------------------------------------------------------------------
(* run() and the environment. *)

\* The process ends where its threads are, and its successor starts.
Killed ==
    /\ file' \in IF \E t \in Threads : pc[t] = "write"
                 THEN {file} \cup CutShort(buf)
                 ELSE {file}
    /\ torn' = torn \cup (IdsOf(file) \ IdsOf(file'))
    /\ NewProcess
    /\ UNCHANGED <<kafka, copies, received, ended, bad, evicted, refused>>

Crash == Fault /\ Killed

\* SIGTERM sets stop_event: the loops end when they next look at it.
Stop ==
    /\ ~stop
    /\ Fault
    /\ stop' = TRUE
    /\ UNCHANGED <<kafka, copies, received, ended, threads, disk>>

\* Lines 478-486: join(timeout=5.0) waits for the listeners and the drain
\* thread, and for no TCP client; then the process ends, its daemon threads
\* with it.
Exit ==
    /\ stop
    /\ Killed
    /\ UNCHANGED faults

Flip ==
    /\ kafka' = ~kafka
    /\ UNCHANGED <<copies, received, ended, threads, disk, stop, faults>>

Thread(t) == SendSucceeds(t) \/ SendRefused(t) \/ SendTimesOut(t)
             \/ Write(t) \/ WriteFails(t)

Publisher(p) == Receive(p) \/ WriteBegin(p) \/ WriteRefused(p) \/ Thread(p)

Drain == \/ DrainBegin \/ DrainRecord   \/ DrainMalformed
         \/ DrainEnd   \/ DrainEndFails \/ Thread(Drainer)

Next == (\E p \in Publishers : Publisher(p)) \/ Drain
        \/ Crash \/ Stop \/ Exit \/ Flip

Spec == Init /\ [][Next]_vars

\* Threads are scheduled, the drain interval passes, and a process told to
\* stop ends.  Nothing makes the broker reachable or a lock fair.
Fairness ==
    /\ \A p \in Publishers : WF_vars(Publisher(p))
    /\ WF_vars(Drain)
    /\ WF_vars(Exit)

FairSpec == Spec /\ Fairness
-----------------------------------------------------------------------------
(* Properties. *)

Label == {"idle", "send", "spool", "write", "drain"}

TypeOK ==
    /\ kafka \in BOOLEAN
    /\ copies \in [Events -> Nat]
    /\ received \in 0..MaxEvents
    /\ ended \subseteq Events
    /\ pc \in [Threads -> Label]
    /\ ev \in [Threads -> 0..MaxEvents]
    /\ tries \in [Threads -> 0..Attempts]
    /\ lock \in Threads \cup {Nobody}
    /\ todo \in Seq(Line) /\ keep \in Seq(Line)
    /\ buf \in Seq(Line) /\ file \in Seq(Line)
    /\ quarantined \subseteq Events /\ bad \subseteq Events
    /\ evicted \subseteq Events /\ torn \subseteq Events
    /\ refused \subseteq Events
    /\ stop \in BOOLEAN
    /\ faults \in 0..MaxFaults

Sent == {e \in Events : copies[e] > 0}

\* An event publish() is done with is on the raw topic, in the spool file or
\* in the .bad file, unless the byte bound dropped it, or a rewrite of the file
\* was cut short, which loses the lines it held and, when the cut fell inside a
\* character, every event spooled from then on: no interleaving of publishers
\* and drain loses one.
NothingLost ==
    ended \subseteq
        Sent \cup IdsOf(file) \cup bad \cup evicted \cup torn \cup refused

\* An event reaches the raw topic at most once more than there were faults:
\* spooling and replaying by themselves never repeat one.
FewDuplicates == \A e \in Events : copies[e] <= 1 + faults

\* The file never outgrows max_spool_bytes, whatever cut a rewrite short.
SpoolBounded == TotalBytes(file) <= MaxBytes

(* The strengthening the proofs use. *)

InHands(p) == pc[p] \in {"send", "spool", "write"}
Replaying == pc[Drainer] \in {"drain", "send"}
HoldsLock(t) == pc[t] \in {"drain", "write"} \/ (t = Drainer /\ pc[t] = "send")

\* A busy publisher has an event, and drain() sends the first of its lines.
HandInv ==
    /\ \A p \in Publishers : pc[p] # "drain" /\ (InHands(p) => ev[p] \in Events)
    /\ pc[Drainer] # "spool"
    /\ pc[Drainer] = "send" =>
          todo # <<>> /\ Head(todo).ok /\ ev[Drainer] \in Head(todo).ids

LockInv == \A t \in Threads : HoldsLock(t) => lock = t

\* A line that parses is one event's.
Whole(lines) ==
    \A i \in DOMAIN lines : lines[i].ok => \E e \in Events : lines[i].ids = {e}

WholeInv == Whole(file) /\ Whole(todo) /\ Whole(keep) /\ Whole(buf)

\* What drain() has read is in its hands, on the topic or in the .bad file.
DrainAccount ==
    /\ Replaying =>
          IdsOf(file) \subseteq IdsOf(todo) \cup IdsOf(keep) \cup quarantined \cup Sent
    /\ pc[Drainer] = "write" => IdsOf(file) \subseteq IdsOf(buf) \cup bad \cup Sent

AccountInv == NothingLost /\ DrainAccount

\* No event is in two lines.
Apart(lines) ==
    \A i, j \in DOMAIN lines : i # j => lines[i].ids \cap lines[j].ids = {}

\* An event is in one place: the hands of one publisher, or one line.
SpoolPlace ==
    /\ Apart(file)
    /\ IdsOf(file) \subseteq 1..received
    /\ \A e \in Events : e > received => copies[e] = 0

HandPlace ==
    \A p \in Publishers : InHands(p) =>
        /\ ev[p] <= received /\ ev[p] \notin IdsOf(file)
        /\ \A q \in Publishers : InHands(q) /\ ev[q] = ev[p] => q = p

WritePlace ==
    \A t \in Threads : pc[t] = "write" =>
        Apart(buf) /\ IdsOf(buf) \subseteq IdsOf(file) \cup InHand(t)

DrainPlace ==
    Replaying =>
        /\ Apart(todo) /\ Apart(keep)
        /\ IdsOf(todo) \cap IdsOf(keep) = {}
        /\ IdsOf(todo) \cup IdsOf(keep) \subseteq IdsOf(file)

PlaceInv == SpoolPlace /\ HandPlace /\ WritePlace /\ DrainPlace

\* The events in the lines that are still to be replayed.
Spooled == IF Replaying THEN IdsOf(todo) \cup IdsOf(keep)
           ELSE IF pc[Drainer] = "write" THEN IdsOf(buf) ELSE IdsOf(file)

Pending(e) == e \in Spooled \/ \E p \in Publishers : InHands(p) /\ ev[p] = e

One(condition) == IF condition THEN 1 ELSE 0

\* A copy costs the place an event had, or a fault; a stop is a fault whose
\* copies come when the process exits.
CopiesInv ==
    \A e \in Events : copies[e] + One(Pending(e)) + One(stop) <= 1 + faults

\* drain() never has more in its hands than the file holds.
BytesInv ==
    /\ SpoolBounded
    /\ (\E t \in Threads : pc[t] = "write") => TotalBytes(buf) <= MaxBytes
    /\ Replaying => TotalBytes(todo) + TotalBytes(keep) <= MaxBytes

\* Once the broker stays reachable the spool empties, unless it no longer
\* decodes, of all but the lines that the Kafka client refuses for their size,
\* which are tried and kept for ever: every other event it took is replayed or
\* quarantined, and neither a malformed line nor one of those holds it up.
Drains ==
    <>[]kafka =>
        <>[](\/ \A i \in DOMAIN file : file[i].ok /\ file[i].ids \subseteq Huge
             \/ ~Readable(file))
=============================================================================
