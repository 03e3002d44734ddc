-------------------------- MODULE MCGatewayRunLoop --------------------------
(* GatewayRunLoop on a session lane with two entries and a main lane with   *)
(* one; one request is given a waiter.                                     *)
EXTENDS GatewayRunLoop

CONSTANTS main, session, m1, s1, s2, w1

MCLanes == {main, session}
MCEntries == {m1, s1, s2}
MCLaneOf == [e \in MCEntries |-> IF e = m1 THEN main ELSE session]
MCNone == {}
MCOneRestart == {w1}
=============================================================================
