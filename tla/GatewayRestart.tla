--------------------------- MODULE GatewayRestart ---------------------------
(***************************************************************************)
(* Who asks the run loop to restart: the scheduler of infra/restart.ts and *)
(* the config watcher's requestGatewayRestart (gateway/server-reload-      *)
(* handlers.ts), composed with GatewayRunLoop.  The requests that          *)
(* GatewayRunLoop takes at any time come here from emitGatewayRestart.     *)
(*                                                                         *)
(* The run loop listens for SIGUSR1 as long as the process runs, so        *)
(* process.emit calls onSigusr1 inside emitGatewayRestart: the signal is   *)
(* authorized, consumed and marked handled in the same step, and the       *)
(* tokens are equal between steps.  Time is counted in units of which the  *)
(* cooldown lasts Cooldown.                                                *)
(***************************************************************************)
EXTENDS GatewayRunLoop

CONSTANTS Delays,      \* the delays restarts are requested with
          Cooldown,    \* RESTART_COOLDOWN_MS
          MaxRequests  \* bound on the requests

ASSUME GatewayRestartAssumption ==
  Delays \subseteq Nat /\ 0 \in Delays /\ Cooldown \in Nat /\ MaxRequests \in Nat

VARIABLES
  pendingRestartTimer,  \* time to pendingRestartDueAt, or NoTimer
  cooldown,             \* time to lastRestartEmittedAt + RESTART_COOLDOWN_MS
  activeDeferralPolls,  \* who set the polls that run
  restartPending,       \* the flag of the current server's reload handlers
  requests              \* number of requests so far

schedulerVars == <<pendingRestartTimer, cooldown, activeDeferralPolls, restartPending, requests>>
restartVars == <<allVars, schedulerVars>>

NoTimer == -1
Pollers == {"schedule", "watcher"}

RestartTypeOK ==
  /\ RunTypeOK
  /\ pendingRestartTimer \in Nat \cup {NoTimer}
  /\ cooldown \in 0..Cooldown
  /\ activeDeferralPolls \subseteq Pollers
  /\ restartPending \in BOOLEAN
  /\ requests \in 0..MaxRequests

RestartInit ==
  /\ RunInit
  /\ pendingRestartTimer = NoTimer
  /\ cooldown = 0
  /\ activeDeferralPolls = {}
  /\ restartPending = FALSE
  /\ requests = 0

(* Mutant: an emission leaves the timer running. *)
EmitGatewayRestart_KeepsTimer(w, timeoutIsPositive, runsActive) ==
  /\ UNCHANGED pendingRestartTimer
  /\ activeDeferralPolls' = {}
  /\ cooldown' = Cooldown
  /\ IF shuttingDown THEN UNCHANGED allVars
     ELSE MoreRestarts /\ RequestRestart(w, timeoutIsPositive, runsActive)

(* emitGatewayRestart, onSigusr1 and request("restart"), which ignores the  *)
(* signal during a shutdown.                                               *)
EmitGatewayRestart(w, timeoutIsPositive, runsActive) ==
  /\ pendingRestartTimer' = NoTimer
  /\ activeDeferralPolls' = {}
  /\ cooldown' = Cooldown
  /\ IF shuttingDown THEN UNCHANGED allVars
     ELSE MoreRestarts /\ RequestRestart(w, timeoutIsPositive, runsActive)

(* What the restart waits for: the lanes' tasks and, by otherWork, replies, *)
(* embedded runs and task runs.                                            *)
Pending(otherWork) ==
  otherWork \/ \E l \in Lanes : queue[l] # <<>> \/ activeTaskIds[l] # {}

Quiet == Alive /\ Idle /\ loop # "iterate"

-----------------------------------------------------------------------------
(* Requests. *)

(* scheduleGatewaySigusr1Restart: a pending timer is pulled earlier or takes*)
(* the request over.                                                       *)
ScheduleGatewaySigusr1Restart(delay) ==
  /\ Quiet /\ requests < MaxRequests
  /\ LET due == delay + cooldown IN
       pendingRestartTimer' =
         IF pendingRestartTimer = NoTimer \/ due < pendingRestartTimer
         THEN due ELSE pendingRestartTimer
  /\ requests' = requests + 1
  /\ UNCHANGED <<allVars, cooldown, activeDeferralPolls, restartPending>>

(* config.apply, config.patch, update.run, /restart and the gateway tool. *)
RestartIsRequested ==
  WorkArrives /\ \E delay \in Delays : ScheduleGatewaySigusr1Restart(delay)

(* onSigusr1 without an authorization, where external signals are allowed. *)
ExternalSigusr1 == ~shuttingDown /\ ScheduleGatewaySigusr1Restart(0)

(* requestGatewayRestart of the running server, for a config change. *)
RequestGatewayRestart(w, timeoutIsPositive, otherWork) ==
  /\ Quiet /\ server /\ loop = "waiting"
  /\ requests < MaxRequests
  /\ requests' = requests + 1
  /\ IF Pending(otherWork)
     THEN /\ restartPending' = TRUE
          /\ activeDeferralPolls' =
               IF restartPending THEN activeDeferralPolls
               ELSE activeDeferralPolls \cup {"watcher"}
          /\ UNCHANGED <<allVars, pendingRestartTimer, cooldown>>
     ELSE EmitGatewayRestart(w, timeoutIsPositive, FALSE) /\ UNCHANGED restartPending

-----------------------------------------------------------------------------
(* Timers. *)

(* Mutant: a restart whose time comes while work is pending is given up. *)
ScheduledTimeComes_GivesUp(w, timeoutIsPositive, otherWork) ==
  /\ Quiet /\ pendingRestartTimer = 0
  /\ IF Pending(otherWork)
     THEN pendingRestartTimer' = NoTimer /\ UNCHANGED <<allVars, cooldown, activeDeferralPolls>>
     ELSE EmitGatewayRestart(w, timeoutIsPositive, FALSE)
  /\ UNCHANGED <<restartPending, requests>>

(* The scheduled time has come: deferGatewayRestartUntilIdle. *)
ScheduledTimeComes(w, timeoutIsPositive, otherWork) ==
  /\ Quiet /\ pendingRestartTimer = 0
  /\ IF Pending(otherWork)
     THEN /\ pendingRestartTimer' = NoTimer
          /\ activeDeferralPolls' = activeDeferralPolls \cup {"schedule"}
          /\ UNCHANGED <<allVars, cooldown>>
     ELSE EmitGatewayRestart(w, timeoutIsPositive, FALSE)
  /\ UNCHANGED <<restartPending, requests>>

(* A poll finds nothing pending, fails, or has waited for maxWaitMs.  A     *)
(* watcher's poll clears the flag of its own server's handlers.            *)
PollEmits(p, w, timeoutIsPositive, runsActive) ==
  /\ Quiet /\ p \in activeDeferralPolls
  /\ EmitGatewayRestart(w, timeoutIsPositive, runsActive)
  /\ restartPending' = (restartPending /\ p # "watcher")
  /\ UNCHANGED requests

Earlier(t) == IF t > 0 THEN t - 1 ELSE t

Tick ==
  /\ Quiet /\ (cooldown > 0 \/ pendingRestartTimer > 0)
  /\ cooldown' = Earlier(cooldown)
  /\ pendingRestartTimer' = Earlier(pendingRestartTimer)
  /\ UNCHANGED <<allVars, activeDeferralPolls, restartPending, requests>>

-----------------------------------------------------------------------------
(* Mutant: the flag outlives the server that set it. *)
ServerStarts_KeepsFlag == StartSucceeds /\ UNCHANGED schedulerVars

(* A new server has reload handlers of its own. *)
ServerStarts ==
  /\ StartSucceeds
  /\ restartPending' = FALSE
  /\ UNCHANGED <<pendingRestartTimer, cooldown, activeDeferralPolls, requests>>

LoopSteps ==
  \/ ServerStarts
  \/ (Iterate \/ StartFails \/ FailedStartWaits) /\ UNCHANGED schedulerVars

RequestSteps ==
  \/ RestartIsRequested
  \/ ExternalSigusr1
  \/ \E w \in Waiters, positive, otherWork \in BOOLEAN : RequestGatewayRestart(w, positive, otherWork)

TimerSteps ==
  \/ Tick
  \/ \E w \in Waiters, positive, otherWork \in BOOLEAN : ScheduledTimeComes(w, positive, otherWork)
  \/ \E p \in Pollers, w \in Waiters, positive, runsActive \in BOOLEAN :
       PollEmits(p, w, positive, runsActive)

RestartNext ==
  \/ LoopSteps \/ RequestSteps \/ TimerSteps
  \/ (LaneStep \/ HandlerStep \/ RequestStop) /\ UNCHANGED schedulerVars

RestartSpec == RestartInit /\ [][RestartNext]_restartVars

(* Synchronous code ends, timers fire, time passes, a poll, which has a     *)
(* time limit, ends, the lock is released and start() returns.  Nothing    *)
(* else is assumed: tasks may hang, and so may server.close(), which is    *)
(* what forceExitTimer is for.                                             *)
RestartFairSpec ==
  /\ RestartSpec
  /\ WF_restartVars(Alive /\ SyncStep /\ UNCHANGED <<runVars, schedulerVars>>)
  /\ \A w \in Waiters :
       WF_restartVars(Alive /\ WaiterTimesOut(w) /\ UNCHANGED <<runVars, schedulerVars>>)
  /\ WF_restartVars(LoopSteps)
  /\ WF_restartVars((DrainEnds \/ ForceExit) /\ UNCHANGED schedulerVars)
  /\ WF_restartVars((LockIsReleased \/ RespawnExits \/ RespawnFallsBack \/ LockIsReacquired \/ LockIsTaken)
                     /\ UNCHANGED schedulerVars)
  /\ WF_restartVars(TimerSteps)

-----------------------------------------------------------------------------
(* Within RESTART_COOLDOWN_MS of an emission no scheduled restart is        *)
(* emitted: a timer that is set in that time, or was set before it, is due *)
(* after it, and no poll of an earlier timer is left.  Config changes are  *)
(* not held to it.                                                         *)
ScheduledRestartsCoolDown ==
  /\ pendingRestartTimer # NoTimer => pendingRestartTimer >= cooldown
  /\ "schedule" \in activeDeferralPolls => cooldown = 0

(* A config change that was told that the restart is being waited for is    *)
(* right: the poll that will restart the server it was told by is there, or*)
(* the emission that cleared it is being handled.                          *)
PendingIsPolled ==
  Alive /\ server /\ loop = "waiting" /\ restartPending =>
    "watcher" \in activeDeferralPolls \/ shuttingDown

(* A restart accepted while the loop waits leads the loop to iterate, or    *)
(* ends the process, though tasks and server.close() hang and requests are *)
(* coalesced, deferred or ignored on the way.                              *)
AcceptedRestartHappens ==
  loop = "waiting" /\ (pendingRestartTimer # NoTimer \/ activeDeferralPolls # {})
    ~> loop = "iterate" \/ ~Alive

=============================================================================
