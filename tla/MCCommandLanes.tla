--------------------------- MODULE MCCommandLanes ---------------------------
(* CommandLanes on one configured lane (as "main") with one entry and one    *)
(* session lane that is never configured, with two.                        *)
EXTENDS CommandLanes

CONSTANTS main, session, m1, s1, s2, w1

MCLanes == {main, session}
MCEntries == {m1, s1, s2}
MCLaneOf == [e \in MCEntries |-> IF e = m1 THEN main ELSE session]
MCConfigured == {main}
MCConcurrency == {0, 2}
MCWaiters == {w1}
=============================================================================
