----------------------------- MODULE TcpFraming -----------------------------
(***************************************************************************)
(* The TCP side of the syslog collector (src/logfilter/collector.py):      *)
(* serve_tcp accepts connections while a slot is free, and one thread per  *)
(* connection cuts the byte stream into messages, which are octet-counted  *)
(* (RFC 6587: length, space, payload) or end in a newline.                 *)
(*                                                                         *)
(* A client sends a script of messages over one connection; the network    *)
(* cuts the bytes into chunks anywhere.  A step of a thread is a read, one *)
(* turn of the loop that cuts its buffer, or the end of that loop.         *)
(***************************************************************************)
EXTENDS Naturals, Sequences, FiniteSetsExt

CONSTANTS Clients,            (* senders, one connection each              *)
          Text,               (* bytes that are neither digits nor blanks  *)
          Scripts,            (* what a client may send: sequences of
                                 messages                                  *)
          MaxLine,            (* max_tcp_line_bytes                        *)
          MaxConnections,     (* max_tcp_connections                       *)
          MaxFailures         (* bound: connections reset and threads that
                                 cannot be started                         *)

Digit == [d \in {"0", "1", "2", "3", "4", "5", "6", "7", "8", "9"} |->
             CASE d = "0" -> 0 [] d = "1" -> 1 [] d = "2" -> 2
               [] d = "3" -> 3 [] d = "4" -> 4 [] d = "5" -> 5
               [] d = "6" -> 6 [] d = "7" -> 7 [] d = "8" -> 8
               [] d = "9" -> 9]
Blank == {"SP", "NL"}
Byte == DOMAIN Digit \cup Blank \cup Text

\* "bare" is a last line without its newline; count is for "octet" only.
Message == [framing : {"octet", "line", "bare"},
            count : Seq(DOMAIN Digit),
            payload : Seq(Byte)]

\* bytes.find, counting from 1; 0 when there is none.
Find(s, byte) ==
    LET at == {i \in 1..Len(s) : s[i] = byte}
    IN  IF at = {} THEN 0 ELSE Min(at)

\* int() of the first n bytes of s, which are digits.
Number(s, n) ==
    LET value[i \in 0..n] ==
            IF i = 0 THEN 0 ELSE 10 * value[i - 1] + Digit[s[i]]
    IN  value[n]

\* Lines 320-327: the buffer starts with an octet count.
OctetHeader(s) ==
    LET space == Find(s, "SP") IN
    /\ space > 1
    /\ \A i \in 1 .. space - 1 : s[i] \in DOMAIN Digit

\* A counted message has its length in front, without leading zeros.  Any other
\* message holds no newline and starts with no number and a space (the collector
\* could not tell it from an octet count); only the last has no newline at its
\* end, and then it is not empty.
Sendable(msgs) ==
    /\ msgs \in Seq(Message)
    /\ \A i \in DOMAIN msgs :
          /\ msgs[i].framing = "octet" =>
                /\ msgs[i].count # <<>>
                /\ msgs[i].count[1] = "0" => Len(msgs[i].count) = 1
                /\ Number(msgs[i].count, Len(msgs[i].count)) =
                      Len(msgs[i].payload)
          /\ msgs[i].framing # "octet" =>
                /\ Find(msgs[i].payload, "NL") = 0
                /\ ~OctetHeader(msgs[i].payload)
          /\ msgs[i].framing = "bare" =>
                i = Len(msgs) /\ msgs[i].payload # <<>>

ASSUME FramingAssumption ==
    /\ MaxLine \in Nat \ {0}
    /\ MaxConnections \in Nat \ {0}
    /\ MaxFailures \in Nat
    /\ Text \cap (DOMAIN Digit \cup Blank) = {}
    /\ \A msgs \in Scripts : Sendable(msgs)

VARIABLES script,             (* the messages of each client               *)
          conn,               (* state of each client's connection: new,
                                 rejected, open (in recv), cutting, closed,
                                 cut or dropped                            *)
          wire,               (* bytes not yet received                    *)
          buffer,             (* the thread's buffer                       *)
          out,                (* payloads that passed publish()'s checks   *)
          slots,              (* free slots of _tcp_slots                  *)
          listening,          (* is the serve_tcp thread alive?            *)
          stop_event,         (* is the stop event set?                    *)
          failures            (* failures so far                           *)

framing_vars == <<script, conn, wire, buffer, out, slots, listening,
                  stop_event, failures>>

\* The bytes of a message.
Wire(msg) ==
    CASE msg.framing = "octet" -> Append(msg.count, "SP") \o msg.payload
      [] msg.framing = "line"  -> Append(msg.payload, "NL")
      [] msg.framing = "bare"  -> msg.payload

\* The bytes of the last n messages.
Rest(msgs, n) ==
    LET rest[i \in 0..n] ==
            IF i = 0 THEN <<>>
            ELSE Wire(msgs[Len(msgs) - i + 1]) \o rest[i - 1]
    IN  rest[n]

FramingInit ==
    /\ script \in [Clients -> Scripts]
    /\ conn = [c \in Clients |-> "new"]
    /\ wire = [c \in Clients |-> Rest(script[c], Len(script[c]))]
    /\ buffer = [c \in Clients |-> <<>>]
    /\ out = [c \in Clients |-> <<>>]
    /\ slots = MaxConnections
    /\ listening = TRUE /\ stop_event = FALSE
    /\ failures = 0

Failure == failures < MaxFailures /\ failures' = failures + 1
Put(f, c, value) == [f EXCEPT ![c] = value]
-----------------------------------------------------------------------------
(* The front of the buffer. *)

FrameLen(s) == Number(s, Find(s, "SP") - 1)

\* Mutated form: the space after the count is taken for payload.
FrameEndShort(s) == Find(s, "SP") + FrameLen(s) - 1

FrameEnd(s) == Find(s, "SP") + FrameLen(s)

PendingOctetFrame(s) ==
    OctetHeader(s) /\ FrameLen(s) <= MaxLine /\ Len(s) < FrameEnd(s)

\* Lines 319, 337-338 and 345-346: there is nothing more to cut.
Incomplete(s) ==
    \/ PendingOctetFrame(s)
    \/ ~OctetHeader(s) /\ Find(s, "NL") = 0

\* Lines 329 and 348: the message in front is longer than the bound.
Oversized(s) ==
    IF OctetHeader(s) THEN FrameLen(s) > MaxLine
    ELSE Find(s, "NL") > MaxLine + 1

\* Mutated form: what is kept is not measured.
OverflowsNever(s) == FALSE

\* Line 358: what is left is no message the collector would accept.
Overflows(s) == Len(s) > MaxLine /\ ~PendingOctetFrame(s)

\* publish(): strip, and nothing for a blank payload.
Strip(s) ==
    LET text == {i \in DOMAIN s : s[i] \notin Blank}
    IN  IF text = {} THEN <<>> ELSE SubSeq(s, Min(text), Max(text))

Publish(published, payload) ==
    IF Strip(payload) = <<>> THEN published
    ELSE Append(published, Strip(payload))
-----------------------------------------------------------------------------
(* Connections. *)

\* Lines 396 and 404-410: a slot is free and a thread serves the connection.
Accept(c) ==
    /\ conn[c] \in {"new", "rejected"}
    /\ listening /\ ~stop_event
    /\ slots > 0
    /\ slots' = slots - 1
    /\ conn' = Put(conn, c, "open")
    /\ UNCHANGED <<script, wire, buffer, out, listening, stop_event, failures>>

\* Line 409 raises, outside any try: the slot is gone and serve_tcp ends.
ThreadNotStarted(c) ==
    /\ conn[c] \in {"new", "rejected"}
    /\ listening /\ ~stop_event
    /\ slots > 0
    /\ Failure
    /\ slots' = slots - 1
    /\ conn' = Put(conn, c, "rejected")
    /\ listening' = FALSE
    /\ UNCHANGED <<script, wire, buffer, out, stop_event>>

\* Lines 396-403; the client tries again.
Reject(c) ==
    /\ conn[c] = "new"
    /\ listening /\ ~stop_event
    /\ slots = 0
    /\ conn' = Put(conn, c, "rejected")
    /\ UNCHANGED <<script, wire, buffer, out, slots, listening, stop_event,
                   failures>>

\* Lines 310 and 318; the stop event may be set while the thread is in recv.
Recv(c) ==
    /\ conn[c] = "open"
    /\ \E n \in 1..Len(wire[c]) :
          /\ buffer' = Put(buffer, c, buffer[c] \o SubSeq(wire[c], 1, n))
          /\ wire' = Put(wire, c, SubSeq(wire[c], n + 1, Len(wire[c])))
    /\ conn' = Put(conn, c, "cutting")
    /\ UNCHANGED <<script, out, slots, listening, stop_event, failures>>

\* The first n bytes of the buffer are done with; payload is published.
Cut(c, n, payload) ==
    /\ out' = Put(out, c, Publish(out[c], payload))
    /\ buffer' = Put(buffer, c, SubSeq(buffer[c], n + 1, Len(buffer[c])))
    /\ UNCHANGED <<script, conn, wire, slots, listening, stop_event, failures>>

\* Lines 336-344: a whole counted message.
CutFrame(c) ==
    LET s == buffer[c] IN
    /\ conn[c] = "cutting"
    /\ OctetHeader(s)
    /\ FrameLen(s) <= MaxLine
    /\ Len(s) >= FrameEnd(s)
    /\ Cut(c, FrameEnd(s), SubSeq(s, Find(s, "SP") + 1, FrameEnd(s)))

\* Lines 345-356: a whole line.
CutLine(c) ==
    LET s == buffer[c] IN
    /\ conn[c] = "cutting"
    /\ ~OctetHeader(s)
    /\ Find(s, "NL") \in 1 .. MaxLine + 1
    /\ Cut(c, Find(s, "NL"), SubSeq(s, 1, Find(s, "NL") - 1))

\* Mutated form: only a thread that reads to the end gives its slot back.
ReleaseAtEnd(c) ==
    slots' = IF conn'[c] = "dropped" THEN slots ELSE slots + 1

\* Lines 385-389: the finally clause.
Release(c) == slots' = slots + 1

\* Lines 329-335, 348-354 and 358-366: the thread returns.
Drop(c) ==
    /\ conn[c] = "cutting"
    /\ \/ Oversized(buffer[c])
       \/ Incomplete(buffer[c]) /\ Overflows(buffer[c])
    /\ conn' = Put(conn, c, "dropped")
    /\ buffer' = Put(buffer, c, <<>>)
    /\ Release(c)
    /\ UNCHANGED <<script, wire, out, listening, stop_event, failures>>

\* Lines 338, 346 and 358: the thread keeps what is left.
Keeps(c) ==
    conn[c] = "cutting" /\ Incomplete(buffer[c]) /\ ~Overflows(buffer[c])

\* Line 308: it reads on.
KeepReading(c) ==
    /\ Keeps(c) /\ ~stop_event
    /\ conn' = Put(conn, c, "open")
    /\ UNCHANGED <<script, wire, buffer, out, slots, listening, stop_event,
                   failures>>

\* Lines 368-383: after the loop, what is left counts as a message.
Remainder(c) ==
    IF PendingOctetFrame(buffer[c]) \/ Len(buffer[c]) > MaxLine
    THEN out[c]
    ELSE Publish(out[c], buffer[c])

Leave(c, how) ==
    /\ out' = Put(out, c, Remainder(c))
    /\ buffer' = Put(buffer, c, <<>>)
    /\ conn' = Put(conn, c, how)
    /\ Release(c)
    /\ UNCHANGED <<script, wire, listening, stop_event>>

\* Line 315: the client closed the connection and all was received.
EndOfStream(c) ==
    /\ conn[c] = "open" /\ wire[c] = <<>>
    /\ Leave(c, "closed")
    /\ UNCHANGED failures

\* Lines 313-314: recv raises.
Reset(c) == conn[c] = "open" /\ Failure /\ Leave(c, "cut")

\* Line 308, after a chunk or after recv timed out: the collector stops.
Stopped(c) ==
    /\ stop_event
    /\ conn[c] = "open" \/ Keeps(c)
    /\ Leave(c, "cut")
    /\ UNCHANGED failures

SetStopEvent ==
    /\ ~stop_event
    /\ stop_event' = TRUE
    /\ UNCHANGED <<script, conn, wire, buffer, out, slots, listening, failures>>

Serve(c) ==
    \/ Recv(c)
    \/ CutFrame(c) \/ CutLine(c) \/ Drop(c) \/ KeepReading(c)
    \/ EndOfStream(c) \/ Stopped(c)

FramingNext ==
    \/ \E c \in Clients : \/ Accept(c) \/ Reject(c) \/ ThreadNotStarted(c)
                          \/ Serve(c)  \/ Reset(c)
    \/ SetStopEvent

FramingSpec == FramingInit /\ [][FramingNext]_framing_vars

\* Threads are scheduled, a client sends and then closes (a silent one would
\* keep its slot: recv's time-outs are not counted), and tries again when it is
\* rejected.
FramingFairness ==
    \A c \in Clients :
        WF_framing_vars(Accept(c)) /\ WF_framing_vars(Serve(c))

FairFramingSpec == FramingSpec /\ FramingFairness
-----------------------------------------------------------------------------
(* Properties. *)

\* The connections a thread serves.
Served == {c \in Clients : conn[c] \in {"open", "cutting"}}

\* A slot is free or serves a connection, but for the one that is lost when a
\* thread cannot be started (which ends the listener); between two reads a
\* buffer holds at most MaxLine bytes and, in front of them, an octet count.
FramingTypeOK ==
    /\ script \in [Clients -> Scripts]
    /\ conn \in [Clients -> {"new", "rejected", "open", "cutting", "closed",
                             "cut", "dropped"}]
    /\ wire \in [Clients -> Seq(Byte)]
    /\ buffer \in [Clients -> Seq(Byte)]
    /\ out \in [Clients -> Seq(Seq(Byte))]
    /\ \A c \in Clients :
          conn[c] = "open" =>
                Len(buffer[c]) <=
                    MaxLine + IF OctetHeader(buffer[c])
                              THEN Find(buffer[c], "SP") - 1 ELSE 0
    /\ slots \in Nat
    /\ slots + Cardinality(Served) =
          IF listening THEN MaxConnections ELSE MaxConnections - 1
    /\ listening \in BOOLEAN /\ stop_event \in BOOLEAN
    /\ failures \in 0..MaxFailures

TooLong(msg) == Len(msg.payload) > MaxLine

\* None of the first k messages is too long.
Short(msgs, k) == \A i \in 1..k : ~TooLong(msgs[i])

\* What the first k messages should have become.
Payloads(msgs, k) ==
    LET published[i \in 0..k] ==
            IF i = 0 THEN <<>>
            ELSE Publish(published[i - 1], msgs[i].payload)
    IN  published[k]

\* What may pass for a message when the stream ends inside one: of a counted
\* message only the digits of its count.
Pieces(msg) ==
    LET bytes == IF msg.framing = "octet" THEN msg.count ELSE msg.payload
    IN  {SubSeq(bytes, 1, n) : n \in 1..Len(bytes)}

\* However the stream was cut into chunks, the payloads published are those of
\* the messages sent, whole and in order: of all when the connection was read
\* to its end, and of those in front of the first that is too long when it was
\* dropped; only a connection that was reset or stopped may end in one piece of
\* a message, which passes for a line without a newline.
FramesExact ==
    \A c \in Clients :
        /\ conn[c] = "closed" =>
              /\ Short(script[c], Len(script[c]))
              /\ out[c] = Payloads(script[c], Len(script[c]))
        /\ conn[c] = "dropped" =>
              \E k \in 1..Len(script[c]) :
                  /\ Short(script[c], k - 1) /\ TooLong(script[c][k])
                  /\ out[c] = Payloads(script[c], k - 1)
        /\ conn[c] \in {"open", "cutting"} =>
              \E k \in 0..Len(script[c]) :
                  Short(script[c], k) /\ out[c] = Payloads(script[c], k)
        /\ conn[c] = "cut" =>
              \E k \in 0..Len(script[c]) :
                  /\ Short(script[c], k)
                  /\ \/ out[c] = Payloads(script[c], k)
                     \/ /\ k < Len(script[c])
                        /\ \E piece \in Pieces(script[c][k + 1]) :
                              out[c] = Publish(Payloads(script[c], k), piece)

\* Why: a thread has published the first k messages, none of them too long, and
\* holds or will read the bytes of the others; when it reads, no message in its
\* buffer is complete and what is there may still become one.
Progress(c, k) ==
    /\ Short(script[c], k)
    /\ out[c] = Payloads(script[c], k)
    /\ buffer[c] \o wire[c] = Rest(script[c], Len(script[c]) - k)

ProgressInv ==
    \A c \in Clients :
        /\ conn[c] \in {"new", "rejected"} => buffer[c] = <<>>
        /\ conn[c] = "open" =>
              Incomplete(buffer[c]) /\ ~Overflows(buffer[c])
        /\ conn[c] \in {"new", "rejected", "open", "cutting"} =>
              \E k \in 0..Len(script[c]) : Progress(c, k)

\* Every way out of a client thread gives its slot back: as long as the
\* collector runs and its listener lives, every client is served in the end.
EveryClientServed ==
    <>(\/ stop_event
       \/ ~listening
       \/ \A c \in Clients : conn[c] \in {"closed", "cut", "dropped"})
=============================================================================
