-------------------------- MODULE MCGatewayRestart --------------------------
(* GatewayRestart on one session lane with two entries, two requests and a  *)
(* waiter for each restart they can lead to.                               *)
EXTENDS GatewayRestart

CONSTANTS session, s1, s2, w1, w2

MCLanes == {session}
MCEntries == {s1, s2}
MCOneEntry == {s1}
MCLaneOf == [e \in Entries |-> session]
MCNone == {}
MCWaiters == {w1, w2}
MCDelays == {0, 2}
=============================================================================
