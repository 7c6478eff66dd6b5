-------------------------- MODULE MCClientsManager --------------------------
(* Small instances of ClientsManager.                                      *)
EXTENDS ClientsManagerProperties

CONSTANTS main, w1, w2, nodst, noreq, d1, d2, d3, d4, d5, a, b, c, x1

\* Characters are numbers by kind: 1.. ASCII, 101.. wide, 201 lost, 301 stuck.
MCAscii == 1 .. 30
MCWide == 101 .. 130
MCLost == {201}
MCStuck == {301}
MCInserted == <<21, 22>>
\* What the Linux build puts in front of a text is not UTF-8.
MCHeader == <<121, 301>>

AsciiText(n) == [i \in 1 .. n |-> i]
WideText(n) == [i \in 1 .. n |-> 100 + i]

\* Requests are records; the operators read them.
MCTextOf(r) == r.text
MCDstsOf(r) == r.dsts

\* A client is its system id and whether it may send.
MCSysIdOf(client) == client[1]
MCCanSend(client) == client[2]

\* The configuration of the API run: a client that sends and whose reports are
\* fetched first, a receiver, and another sender, each with a system id of its
\* own.  StartIndex makes the first batch go to c; the second skips a to b.
ApiClients == << <<c, TRUE>>, <<a, FALSE>>, <<b, TRUE>> >>
ApiRequests ==
  { [text |-> AsciiText(4), dsts |-> <<d1>>],
    [text |-> <<101, 201>>, dsts |-> <<nodst, d3>>] }
ApiArrivals == {ApiRequests}

\* Every length across the limits, in both encodings and mixed ones.
SplitTexts ==
  {AsciiText(n) : n \in 1 .. 10} \union {WideText(n) : n \in 1 .. 10}
    \union {<<1>> \o WideText(2), <<101, 201, 102>>, <<1, 301>>, <<201, 201, 201, 201>>}
SplitRequests ==
  {[text |-> t, dsts |-> <<d1, nodst, d2, d3, d4, d5>>] : t \in SplitTexts}
    \union {[text |-> AsciiText(2), dsts |-> <<nodst>>]}
SplitArrivals == {{r} : r \in SplitRequests}
\* Two of the clients share a data source.
SplitClients == << <<a, FALSE>>, <<b, FALSE>>, <<a, FALSE>> >>

=============================================================================
