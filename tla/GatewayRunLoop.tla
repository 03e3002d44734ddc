--------------------------- MODULE GatewayRunLoop ---------------------------
(***************************************************************************)
(* The gateway's run loop (src/cli/gateway-cli/run-loop.ts) on top of the  *)
(* command lanes: start the server, wait for a restart, and on SIGUSR1 or  *)
(* SIGTERM drain, close the server, release the lock and respawn, exit or  *)
(* iterate in this process, where restart-recovery.ts's hook resets the    *)
(* lanes.                                                                  *)
(*                                                                         *)
(* The handler of a request runs concurrently with the loop: it parks at   *)
(* its awaits (handler.stage) while tasks, timers and the start of the     *)
(* server go on.  External, and modelled by the choices they leave the     *)
(* loop: startGatewayServer, server.close (which may hang), the lock file, *)
(* the embedded runs' registry and the respawn of the process.             *)
(***************************************************************************)
EXTENDS CommandLanes

CONSTANT RestartDuringStart  \* may a signal arrive before start() returns?

ASSUME GatewayRunLoopAssumption == RestartDuringStart \in BOOLEAN

VARIABLES
  loop,          \* where the for(;;) is: see Loops
  isFirstStart,
  server,        \* server # null
  lock,          \* this process holds the gateway lock
  shuttingDown,
  handler,       \* the request being handled: see Handlers
  exitCode       \* -1: the process runs

runVars == <<loop, isFirstStart, server, lock, shuttingDown, handler, exitCode>>
allVars == <<vars, runVars>>

(* iterate: about to call onIteration and start; starting: start() pending; *)
(* failed: start() failed, the lock is being released; waiting: in the     *)
(* promise restartResolver resolves.                                       *)
Loops == {"iterate", "starting", "failed", "waiting"}
Stages == {"none", "draining", "closing", "release", "respawn", "reacquire"}
NoWaiter == "no waiter"
Handlers == [stage : Stages, restart : BOOLEAN, waiter : Waiters \cup {NoWaiter}, hadLock : BOOLEAN]
NoHandler == [stage |-> "none", restart |-> FALSE, waiter |-> NoWaiter, hadLock |-> FALSE]

RunTypeOK ==
  /\ TypeOK
  /\ loop \in Loops
  /\ isFirstStart \in BOOLEAN /\ server \in BOOLEAN /\ lock \in BOOLEAN /\ shuttingDown \in BOOLEAN
  /\ handler \in Handlers
  /\ shuttingDown <=> handler.stage # "none"
  /\ exitCode \in {-1, 0, 1}

(* The lock has been acquired and the signal handlers are registered. *)
RunInit ==
  /\ Init
  /\ loop = "iterate" /\ isFirstStart = TRUE
  /\ server = FALSE /\ lock = TRUE
  /\ shuttingDown = FALSE
  /\ handler = NoHandler
  /\ exitCode = -1

Alive == exitCode = -1

-----------------------------------------------------------------------------
(* The loop. *)

(* Mutant: the hook takes every call for the first one. *)
OnIteration_AlwaysFirst == UNCHANGED vars

(* The hook of restart-recovery.ts: every call but the first resets the     *)
(* lanes.  A first start that fails ends the process, so the first call is *)
(* the one that finds isFirstStart.                                        *)
OnIteration ==
  \/ isFirstStart /\ UNCHANGED vars
  \/ ~isFirstStart /\ ResetAllLanes

(* onIteration and the call of start(). *)
Iterate ==
  /\ Alive /\ Idle /\ loop = "iterate"
  /\ loop' = "starting"
  /\ OnIteration
  /\ UNCHANGED <<isFirstStart, server, lock, shuttingDown, handler, exitCode>>

StartSucceeds ==
  /\ Alive /\ Idle /\ loop = "starting"
  /\ server' = TRUE
  /\ isFirstStart' = FALSE
  /\ loop' = "waiting"
  /\ UNCHANGED <<vars, lock, shuttingDown, handler, exitCode>>

(* The first start's error propagates and ends the process; a later one     *)
(* leaves it alive, without a server, releasing the lock.                  *)
StartFails ==
  /\ Alive /\ Idle /\ loop = "starting"
  /\ lock' = FALSE
  /\ server' = FALSE
  /\ IF isFirstStart THEN exitCode' = 1 /\ UNCHANGED loop
     ELSE loop' = "failed" /\ UNCHANGED exitCode
  /\ UNCHANGED <<vars, isFirstStart, shuttingDown, handler>>

FailedStartWaits ==
  /\ Alive /\ Idle /\ loop = "failed"
  /\ loop' = "waiting"
  /\ UNCHANGED <<vars, isFirstStart, server, lock, shuttingDown, handler, exitCode>>

-----------------------------------------------------------------------------
(* The request handler. *)

(* A signal may be delivered at any await of the loop.  The continuation of *)
(* restartResolver() is a microtask, which no signal interrupts.           *)
SignalPossible ==
  /\ Alive /\ Idle
  /\ loop = "waiting" \/ (RestartDuringStart /\ loop \in {"starting", "failed"})
  /\ ~shuttingDown

(* await server?.close() parks the handler only if there is a server. *)
CloseStage == IF server THEN "closing" ELSE "release"

(* Mutant: the drain is not announced to the lanes. *)
RequestRestart_KeepsAccepting(w, timeoutIsPositive, runsActive) ==
  /\ SignalPossible
  /\ waiters[w].state = "idle"
  /\ shuttingDown' = TRUE
  /\ LET tasksActive == ActiveIds(activeTaskIds) # {} IN
       /\ waiters' = IF tasksActive THEN Asked(w, timeoutIsPositive) ELSE waiters
       /\ handler' = [stage |-> IF tasksActive \/ runsActive THEN "draining" ELSE CloseStage,
                      restart |-> TRUE, waiter |-> IF tasksActive THEN w ELSE NoWaiter, hadLock |-> FALSE]
  /\ UNCHANGED <<gatewayDraining, laneVars, nextTaskId, entryVars, stack, loop, isFirstStart,
                 server, lock, exitCode>>

(* request("restart", "SIGUSR1") up to its first await: mark the gateway    *)
(* draining and, if tasks or embedded runs are active, wait for them.      *)
RequestRestart(w, timeoutIsPositive, runsActive) ==
  /\ SignalPossible
  /\ waiters[w].state = "idle"
  /\ shuttingDown' = TRUE
  /\ gatewayDraining' = TRUE
  /\ LET tasksActive == ActiveIds(activeTaskIds) # {} IN
       /\ waiters' = IF tasksActive THEN Asked(w, timeoutIsPositive) ELSE waiters
       /\ handler' = [stage |-> IF tasksActive \/ runsActive THEN "draining" ELSE CloseStage,
                      restart |-> TRUE, waiter |-> IF tasksActive THEN w ELSE NoWaiter, hadLock |-> FALSE]
  /\ UNCHANGED <<laneVars, nextTaskId, entryVars, stack, loop, isFirstStart, server, lock, exitCode>>

(* request("stop", "SIGTERM" or "SIGINT") *)
RequestStop ==
  /\ SignalPossible
  /\ shuttingDown' = TRUE
  /\ handler' = [NoHandler EXCEPT !.stage = CloseStage]
  /\ UNCHANGED <<vars, loop, isFirstStart, server, lock, exitCode>>

(* Both waits have been answered, drained or timed out. *)
DrainEnds ==
  /\ Alive /\ Idle /\ handler.stage = "draining"
  /\ handler.waiter # NoWaiter => waiters[handler.waiter].state # "waiting"
  /\ handler' = [handler EXCEPT !.stage = CloseStage]
  /\ UNCHANGED <<vars, loop, isFirstStart, server, lock, shuttingDown, exitCode>>

(* server.close() has settled, and the finally clause runs. *)
ServerCloses ==
  /\ Alive /\ Idle /\ handler.stage = "closing"
  /\ server' = FALSE
  /\ handler' = [handler EXCEPT !.stage = "release"]
  /\ UNCHANGED <<vars, loop, isFirstStart, lock, shuttingDown, exitCode>>

(* Mutant: only a stop sets the timer. *)
ForceExit_StopOnly ==
  /\ Alive /\ Idle /\ handler.stage = "closing" /\ ~handler.restart
  /\ exitCode' = 1
  /\ UNCHANGED <<vars, loop, isFirstStart, server, lock, shuttingDown, handler>>

(* forceExitTimer: it is set beyond the drain's time-outs, so it can only   *)
(* find the server closing.                                                *)
ForceExit ==
  /\ Alive /\ Idle /\ handler.stage = "closing"
  /\ exitCode' = 1
  /\ UNCHANGED <<vars, loop, isFirstStart, server, lock, shuttingDown, handler>>

(* Mutant: a stop exits before it releases the lock. *)
LockIsReleased_RestartOnly ==
  /\ Alive /\ Idle /\ handler.stage = "release"
  /\ IF handler.restart
     THEN /\ handler' = [handler EXCEPT !.stage = "respawn", !.hadLock = lock]
          /\ lock' = FALSE
          /\ UNCHANGED exitCode
     ELSE exitCode' = 0 /\ UNCHANGED <<handler, lock>>
  /\ UNCHANGED <<vars, loop, isFirstStart, server, shuttingDown>>

(* releaseLockIfHeld; a stop exits here. *)
LockIsReleased ==
  /\ Alive /\ Idle /\ handler.stage = "release"
  /\ lock' = FALSE
  /\ IF handler.restart
     THEN /\ handler' = [handler EXCEPT !.stage = "respawn", !.hadLock = lock]
          /\ UNCHANGED exitCode
     ELSE exitCode' = 0 /\ UNCHANGED handler
  /\ UNCHANGED <<vars, loop, isFirstStart, server, shuttingDown>>

(* restartGatewayProcessWithFreshPid: spawned or supervised, and the        *)
(* process exits; or disabled or failed, and it restarts in process.       *)
RespawnExits ==
  /\ Alive /\ Idle /\ handler.stage = "respawn"
  /\ exitCode' = 0
  /\ UNCHANGED <<vars, loop, isFirstStart, server, lock, shuttingDown, handler>>

(* Mutant: shuttingDown stays set. *)
RestartsInProcess_StaysShuttingDown ==
  /\ handler' = NoHandler
  /\ loop' = IF loop = "waiting" THEN "iterate" ELSE loop
  /\ UNCHANGED shuttingDown

(* shuttingDown = false and restartResolver?.(): it wakes the loop when the *)
(* loop is in the promise of its current iteration, and else does nothing. *)
RestartsInProcess ==
  /\ shuttingDown' = FALSE
  /\ handler' = NoHandler
  /\ loop' = IF loop = "waiting" THEN "iterate" ELSE loop

RespawnFallsBack ==
  /\ Alive /\ Idle /\ handler.stage = "respawn"
  /\ IF handler.hadLock
     THEN handler' = [handler EXCEPT !.stage = "reacquire"] /\ UNCHANGED <<loop, shuttingDown>>
     ELSE RestartsInProcess
  /\ UNCHANGED <<vars, isFirstStart, server, lock, exitCode>>

(* reacquireLockForInProcessRestart *)
LockIsReacquired ==
  /\ Alive /\ Idle /\ handler.stage = "reacquire"
  /\ lock' = TRUE
  /\ RestartsInProcess
  /\ UNCHANGED <<vars, isFirstStart, server, exitCode>>

LockIsTaken ==
  /\ Alive /\ Idle /\ handler.stage = "reacquire"
  /\ exitCode' = 1
  /\ UNCHANGED <<vars, loop, isFirstStart, server, lock, shuttingDown, handler>>

-----------------------------------------------------------------------------
(* The lanes while the process runs.  Work is enqueued by the server, by a  *)
(* start() in progress and by running tasks.                               *)
WorkArrives == server \/ loop = "starting" \/ \E e \in Entries : phase[e] = "running"

LaneStep ==
  /\ Alive
  /\ \/ SyncStep
     \/ \E e \in Entries : (WorkArrives /\ EnqueueCommandInLane(e)) \/ TaskSettles(e)
     \/ \E w \in Waiters : WaiterTimesOut(w)
  /\ UNCHANGED runVars

LoopStep == Iterate \/ StartSucceeds \/ StartFails \/ FailedStartWaits

HandlerStep ==
  \/ DrainEnds \/ ServerCloses \/ ForceExit \/ LockIsReleased
  \/ RespawnExits \/ RespawnFallsBack \/ LockIsReacquired \/ LockIsTaken

(* MaxGeneration bounds the restarts. *)
MoreRestarts == \A l \in Lanes : generation[l] < MaxGeneration

Request ==
  \/ RequestStop
  \/ /\ MoreRestarts
     /\ \E w \in Waiters, positive, runsActive \in BOOLEAN :
          RequestRestart(w, positive, runsActive)

RunNext == LaneStep \/ LoopStep \/ HandlerStep \/ Request

RunSpec == RunInit /\ [][RunNext]_allVars

-----------------------------------------------------------------------------
(* The lanes refuse work only while a restart is being handled: once the    *)
(* loop has iterated, no flag of the previous lifecycle keeps the new       *)
(* server from accepting commands.                                         *)
DrainingMeansRestarting ==
  Alive /\ gatewayDraining => handler.restart \/ loop = "iterate"

(* From the request on, until the loop iterates, no new command is accepted *)
(* into a lane that the restart is about to abandon.                       *)
RefusedWhileRestarting ==
  [][handler.restart =>
       \A e \in Entries : phase[e] = "new" => phase'[e] \in {"new", "refused"}]_allVars

(* A process that exits with 0, because it was stopped or because another   *)
(* process takes over, has released the gateway lock, whatever the handler *)
(* met on its way.                                                         *)
CleanExitReleasesLock == exitCode = 0 => ~lock

(* A restart that waited for the active tasks and was told they are drained *)
(* closes the server while none of the tasks it waited for runs.           *)
ClosesAfterDrain ==
  handler.stage = "closing" /\ handler.waiter # NoWaiter =>
    LET w == waiters[handler.waiter] IN
    w.state = "drained" => \A e \in Entries : phase[e] = "running" => taskId[e] \notin w.ids

(* A shutdown ends, though tasks or server.close() hang: the process exits  *)
(* or restarts and hears signals again.                                    *)
ShutdownEnds == shuttingDown ~> ~shuttingDown \/ ~Alive

(* A restart handled while the loop waits starts a server on lanes that     *)
(* accept work, or ends the process: the handler's call of restartResolver *)
(* reaches the loop, and the loop forgets the drain.                       *)
RestartHappens ==
  handler.restart /\ loop = "waiting" ~> (loop = "starting" /\ ~gatewayDraining) \/ ~Alive

(* What docs/concepts/queue.md promises of a session: one run at a time.    *)
(* Only runs of the same lifecycle exclude each other.                     *)
SessionExclusive ==
  \A e, f \in Entries :
    LaneOf[e] = LaneOf[f] /\ LaneOf[e] \notin ConfiguredLanes
      /\ phase[e] = "running" /\ phase[f] = "running" => e = f
=============================================================================
