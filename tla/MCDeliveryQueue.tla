--------------------------- MODULE MCDeliveryQueue ---------------------------
(* DeliveryQueue on two entries, with a recovery at startup and drains of    *)
(* one or two channel accounts.                                            *)
EXTENDS DeliveryQueue

CONSTANTS startup, drain1, drain2, live2, account

MCEntries == 1..2
MCNone == {}
MCFirst == {1}
MCRecoveries == {startup}
MCOneDrain == {drain1}
MCTwoDrains == {drain1, drain2}
MCLive == {live2}
MCEntryOf == [w \in LiveCalls |-> 2]
MCKeyOf == [w \in Drains |-> account]
MCMatchAll == [w \in Drains |-> MCEntries]
MCMatchSecond == [w \in Drains |-> {2}]
=============================================================================
