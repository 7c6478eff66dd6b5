---------------------------- MODULE MCSmppClient ----------------------------
EXTENDS SmppClientProperties, TLC
CONSTANTS m1, m2, m3, c1, c2

OneTrx == [c \in Client |-> "TRX"]
TxRx == (c1 :> "TX") @@ (c2 :> "RX")

OneBatch == {<<m1>>}
TwoBatches == {<<m1>>, <<m2>>}
BothAtOnce == {<<m1, m2>>}
LongBatches == {<<m1>>, <<m2, m3>>}
LongTotal == [m \in Msg |-> IF m = m1 THEN 1 ELSE 2]
LongPart == [m \in Msg |-> IF m = m3 THEN 2 ELSE 1]
ShortTotal == [m \in Msg |-> 1]

FaultsOf(S) == [k \in FaultKinds |-> IF k \in S THEN 1 ELSE 0]
NoFaults == FaultsOf({})
NetFaults == FaultsOf({"net", "late"})
RefuseFaults == FaultsOf({"net", "refuse"})
MostFaults == FaultsOf({"net", "length", "late", "noack", "reject", "partial"})
StopFaults == FaultsOf({"net"})
=============================================================================
