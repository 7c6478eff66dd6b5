---------------------------- MODULE MCSmppServer ----------------------------
EXTENDS SmppServerProperties
CONSTANTS c1, c2, c3, m1, m2, t1, t2, s1, s2

Bind(mode, s, ok) == [type |-> "Bind", mode |-> mode, sysid |-> s, ok |-> ok]
Submit(m) == [type |-> "SubmitSm", sm |-> m]
DlrResp(m) == [type |-> "DeliverSmResp", sm |-> m]
Plain(type) == [type |-> type]

\* A transmitter and two receivers of one system id; one of them answers its
\* report.
PairScript ==
  [c \in Conn |-> IF c = c1 THEN <<Bind("TX", s1, TRUE), Submit(m1)>>
                  ELSE IF c = c2 THEN <<Bind("RX", s1, TRUE), DlrResp(m1)>>
                  ELSE <<Bind("RX", s1, TRUE)>>]

\* Two accounts; the client of the first sends one message that has no
\* destination, that of the second first tries the name of the other.  A third
\* connection may find the server full, and its client is out of step.
AccountsScript ==
  [c \in Conn |-> IF c = c1 THEN <<Bind("TRX", s1, TRUE), Submit(m1), Submit(m2),
                                   Plain("Unbind")>>
                  ELSE IF c = c2 THEN <<Bind("TRX", s1, FALSE), Bind("TRX", s2, TRUE)>>
                  ELSE <<Plain("BadSequence")>>]

\* A client that speaks before it is bound, and one that makes mistakes.
ErrorScript ==
  [c \in Conn |-> IF c = c1 THEN <<Plain("EnquireLink"), Bind("TRX", s1, TRUE),
                                   Plain("QuerySm"), Plain("MalformedResp"),
                                   Plain("EnquireLink")>>
                  ELSE <<Bind("TRX", s1, FALSE), Plain("Unsupported"),
                         Plain("Unsupported")>>]

=============================================================================
