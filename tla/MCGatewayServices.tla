-------------------------- MODULE MCGatewayServices --------------------------
(***************************************************************************)
(* The services of a gateway process that share no state, side by side for *)
(* TLC: a behaviour is one of one of them, named by service, and the       *)
(* others stay as they begin, with none of their fair actions enabled.     *)
(***************************************************************************)
EXTENDS HeartbeatWake, ExecApprovals, KeyedAsyncQueue, SessionWriteLock, ChannelManager, TLC

CONSTANTS ta, tb, p1, p2, c1, c2, c3

MCRequests == {<<ta, 1>>, <<ta, 2>>, <<tb, 1>>}
MCProcessOf == c1 :> p1 @@ c2 :> p1 @@ c3 :> p2

VARIABLE service

servicesVars == <<service, wakeVars, approvalVars, keyedVars, lockVars, channelVars>>

ServicesInit ==
  /\ service \in {"wake", "approvals", "queue", "lock", "channel"}
  /\ WakeInit /\ ApprovalsInit /\ KeyedInit /\ LockInit /\ ChannelInit
  /\ service # "lock" => starttime
  /\ service # "channel" => stopHook

(* Bound: a lock taken from a working process is followed further with      *)
(* start times and without deaths only.                                    *)
LockBound == disturbed => starttime /\ crashes = 0

WakeMoves      == service = "wake" /\ WakeNext /\ UNCHANGED <<service, approvalVars, keyedVars, lockVars, channelVars>>
ApprovalsMove  == service = "approvals" /\ ApprovalsNext /\ UNCHANGED <<service, wakeVars, keyedVars, lockVars, channelVars>>
QueueMoves     == service = "queue" /\ KeyedNext /\ UNCHANGED <<service, wakeVars, approvalVars, lockVars, channelVars>>
LockMoves      == service = "lock" /\ LockBound /\ LockNext /\ UNCHANGED <<service, wakeVars, approvalVars, keyedVars, channelVars>>
ChannelMoves   == service = "channel" /\ ChannelNext /\ UNCHANGED <<service, wakeVars, approvalVars, keyedVars, lockVars>>

ServicesNext == WakeMoves \/ ApprovalsMove \/ QueueMoves \/ LockMoves \/ ChannelMoves

ServicesSpec ==
  /\ ServicesInit /\ [][ServicesNext]_servicesVars
  /\ WakeFairness /\ KeyedFairness /\ ChannelFairness

(* Every service keeps its types. *)
ServicesTypeOK == WakeTypeOK /\ ApprovalsTypeOK /\ KeyedTypeOK /\ LockTypeOK /\ ChannelTypeOK
=============================================================================
