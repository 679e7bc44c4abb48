---------------------------- MODULE MCTcpFraming ----------------------------
(* A bounded instance of TcpFraming for TLC; MaxLine is 3.                  *)
EXTENDS TcpFraming

Written(n) ==
    LET digit(i) == CHOOSE d \in DOMAIN Digit : Digit[d] = i
    IN  IF n < 10 THEN <<digit(n)>> ELSE <<digit(n \div 10), digit(n % 10)>>

Octet(payload) ==
    [framing |-> "octet", count |-> Written(Len(payload)), payload |-> payload]
Line(payload) == [framing |-> "line", count |-> <<>>, payload |-> payload]
Bare(payload) == [framing |-> "bare", count |-> <<>>, payload |-> payload]

\* A newline inside a frame, a frame inside a frame, frames that end in a
\* newline of their own (as SyslogSender writes them), lines that start with a
\* digit, blank and missing ends, and messages that are too long.
MCScripts ==
    { <<Octet(<<"x", "NL", "y">>), Octet(<<"x">>)>>,
      <<Octet(<<"1", "SP", "x">>), Line(<<>>), Octet(<<"y">>)>>,
      <<Line(<<"1", "x">>), Octet(<<"x", "NL">>), Bare(<<"2", "y">>)>>,
      <<Line(<<"SP", "x", "y">>), Line(<<"SP">>), Bare(<<"x">>)>>,
      <<Line(<<"x">>), Line(<<"x", "x", "x", "x", "x">>), Octet(<<"y">>)>>,
      <<Octet(<<"x">>), Octet(<<"x", "y", "y", "y">>), Line(<<"y">>)>>,
      <<Octet([i \in 1..10 |-> "x"]), Line(<<"y">>)>> }
=============================================================================
