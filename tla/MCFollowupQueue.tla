--------------------------- MODULE MCFollowupQueue ---------------------------
(* FollowupQueue for TLC: three messages, two of one route and one of      *)
(* another, and the queue settings a run lets its messages have.           *)
EXTENDS FollowupQueue

CONSTANTS m1, m2, m3

MCMessages == {m1, m2, m3}
MCKeyOf == [m \in MCMessages |-> IF m = m3 THEN "other chat" ELSE "chat"]

MCRedelivered == [m \in MCMessages |-> IF m = m1 THEN 2 ELSE 1]
MCOnce == [m \in MCMessages |-> 1]

Setting(mode, policy) == [mode |-> mode, policy |-> policy]
MCSettingsOf ==
  m1 :> {Setting("collect", "summarize")} @@ m2 :> {Setting("followup", "summarize")}
  @@ m3 :> {Setting("collect", "new")}
MCFollowup == [m \in MCMessages |-> {Setting("followup", "summarize")}]
MCCollect == [m \in MCMessages |-> {Setting("collect", "summarize")}]
=============================================================================
