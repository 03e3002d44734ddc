--------------------------- MODULE ChannelManager ---------------------------
(***************************************************************************)
(* gateway/server-channels.ts for one account of a channel: it is started, *)
(* restarted with a backoff when its provider exits, and stopped, while    *)
(* every one of these waits in the middle.  The accounts share no state.   *)
(*                                                                         *)
(* The starts that get past the first checks are numbered (boots): a boot  *)
(* is its start gate, its abort controller and its task at once, and the   *)
(* maps hold the number of the boot whose object they have, or 0.          *)
(***************************************************************************)
EXTENDS Integers, FiniteSets

CONSTANTS Stops,          \* calls of stopChannel
          MaxBoots,       \* bound on the boots
          MaxRestarts     \* MAX_RESTART_ATTEMPTS

ASSUME ChannelAssumption == MaxBoots \in Nat /\ MaxRestarts \in Nat

VARIABLES
  stopHook,         \* the plugin has a stopAccount
  boots,            \* per boot: where it is, its signal, whether it is an auto-restart
  booted,           \* number of boots
  tasks, starting, aborts,     \* the account's entries in the maps of the store
  manuallyStopped, restartAttempts,
  stops             \* per call of stopChannel: where it is, the task it took

channelVars == <<stopHook, boots, booted, tasks, starting, aborts, manuallyStopped, restartAttempts, stops>>

(* A boot awaits isConfigured, then the approval bootstrap; its provider    *)
(* runs; the approval runtime is cleaned up; the backoff passes.  One that *)
(* does not get as far as its provider "fails", its abort still in place.  *)
BootPhases == {"configuring", "bootstrapping", "running", "cleaning", "backoff", "failing", "over"}

ChannelTypeOK ==
  /\ stopHook \in BOOLEAN /\ manuallyStopped \in BOOLEAN
  /\ booted \in 0..MaxBoots
  /\ boots \in [1..booted -> [phase : BootPhases, aborted : BOOLEAN, auto : BOOLEAN]]
  /\ tasks \in 0..booted /\ starting \in 0..booted /\ aborts \in 0..booted
  /\ restartAttempts \in Nat /\ (~stopHook => restartAttempts <= MaxRestarts + 1)
  /\ stops \in [Stops -> [phase : {"none", "hook", "waiting"}, task : 0..MaxBoots]]

ChannelInit ==
  /\ stopHook \in BOOLEAN
  /\ boots = [b \in 1..0 |-> 0] /\ booted = 0
  /\ tasks = 0 /\ starting = 0 /\ aborts = 0
  /\ manuallyStopped = FALSE /\ restartAttempts = 0
  /\ stops = [s \in Stops |-> [phase |-> "none", task |-> 0]]

At(b, phase) == b \in 1..booted /\ boots[b].phase = phase

(* Of a boot that is over nothing is kept, of one past "configuring" not    *)
(* what began it.                                                          *)
Past(boot, phase) ==
  [phase |-> phase, aborted |-> boot.aborted /\ phase # "over", auto |-> FALSE]
BootGoes(b, phase) == boots' = [boots EXCEPT ![b] = Past(@, phase)]
GateOpens(b) == starting' = IF starting = b THEN 0 ELSE starting
Forget(b) ==
  /\ tasks' = IF tasks = b THEN 0 ELSE tasks
  /\ aborts' = IF aborts = b THEN 0 ELSE aborts

(* A stop whose task is over goes on before the next event: it is the rest  *)
(* of a microtask queue.                                                   *)
CanFinish(s) == stops[s].phase = "waiting" /\ (stops[s].task # 0 => At(stops[s].task, "over"))
NoneCanFinish == \A s \in Stops : ~CanFinish(s)

-----------------------------------------------------------------------------
(* A boot past the checks of tasks and starting; the store is withBoots.    *)
Reserve(auto, withBoots) ==
  /\ booted < MaxBoots
  /\ booted' = booted + 1
  /\ boots' = [b \in 1..booted' |-> IF b <= booted THEN withBoots[b]
               ELSE [phase |-> "configuring", aborted |-> FALSE, auto |-> auto]]
  /\ starting' = booted' /\ aborts' = booted'

(* Mutant: a start that is still in progress is not looked at. *)
StartChannel_NoGate ==
  /\ NoneCanFinish
  /\ tasks = 0
  /\ Reserve(FALSE, boots)
  /\ UNCHANGED <<stopHook, tasks, manuallyStopped, restartAttempts, stops>>

(* startChannel.  With a task, or a start in progress, nothing happens but  *)
(* a wait for the latter.                                                  *)
StartChannel ==
  /\ NoneCanFinish
  /\ tasks = 0 /\ starting = 0
  /\ Reserve(FALSE, boots)
  /\ UNCHANGED <<stopHook, tasks, manuallyStopped, restartAttempts, stops>>

(* It is left with no task: disabled, not configured, or an error. *)
BootFails(b) ==
  /\ NoneCanFinish
  /\ At(b, "configuring") \/ At(b, "bootstrapping")
  /\ BootGoes(b, "failing") /\ GateOpens(b)
  /\ UNCHANGED <<stopHook, booted, tasks, aborts, manuallyStopped, restartAttempts, stops>>

(* isConfigured answers yes. *)
IsConfigured(b) ==
  /\ NoneCanFinish
  /\ At(b, "configuring")
  /\ manuallyStopped' = (manuallyStopped /\ boots[b].auto)
  /\ IF boots[b].aborted \/ manuallyStopped'
     THEN BootGoes(b, "failing") /\ GateOpens(b) /\ UNCHANGED restartAttempts
     ELSE /\ BootGoes(b, "bootstrapping")
          /\ restartAttempts' = IF boots[b].auto THEN restartAttempts ELSE 0
          /\ UNCHANGED starting
  /\ UNCHANGED <<stopHook, booted, tasks, aborts, stops>>

(* Mutant: every abort of the account is deleted. *)
FailedBootCleanedUp_AnyAbort(b) ==
  /\ At(b, "failing")
  /\ BootGoes(b, "over")
  /\ aborts' = 0
  /\ UNCHANGED <<stopHook, booted, tasks, starting, manuallyStopped, restartAttempts, stops>>

(* After the cleanup of a boot without a task. *)
FailedBootCleanedUp(b) ==
  /\ At(b, "failing")
  /\ BootGoes(b, "over")
  /\ aborts' = IF aborts = b THEN 0 ELSE aborts
  /\ UNCHANGED <<stopHook, booted, tasks, starting, manuallyStopped, restartAttempts, stops>>

(* The approval bootstrap is there: startAccount is called with the signal, *)
(* aborted or not.                                                         *)
Bootstrapped(b) ==
  /\ NoneCanFinish
  /\ At(b, "bootstrapping")
  /\ BootGoes(b, "running")
  /\ tasks' = b /\ GateOpens(b)
  /\ UNCHANGED <<stopHook, booted, aborts, manuallyStopped, restartAttempts, stops>>

-----------------------------------------------------------------------------
ProviderExits(b) ==
  /\ At(b, "running")
  /\ BootGoes(b, "cleaning")
  /\ UNCHANGED <<stopHook, booted, tasks, starting, aborts, manuallyStopped, restartAttempts, stops>>

(* Mutant: the attempts are counted and never exhausted. *)
ProviderCleanedUp_NeverGivesUp(b) ==
  /\ NoneCanFinish
  /\ At(b, "cleaning")
  /\ IF manuallyStopped
     THEN BootGoes(b, "over") /\ Forget(b) /\ UNCHANGED restartAttempts
     ELSE BootGoes(b, "backoff") /\ restartAttempts' = restartAttempts + 1 /\ UNCHANGED <<tasks, aborts>>
  /\ UNCHANGED <<stopHook, booted, starting, manuallyStopped, stops>>

(* The approval runtime is cleaned up: the task ends, of an account that    *)
(* was stopped or exited too often, or the backoff begins.                 *)
ProviderCleanedUp(b) ==
  LET attempt == restartAttempts + 1 IN
  /\ NoneCanFinish
  /\ At(b, "cleaning")
  /\ restartAttempts' = IF manuallyStopped THEN restartAttempts ELSE attempt
  /\ IF manuallyStopped \/ attempt > MaxRestarts
     THEN BootGoes(b, "over") /\ Forget(b)
     ELSE BootGoes(b, "backoff") /\ UNCHANGED <<tasks, aborts>>
  /\ UNCHANGED <<stopHook, booted, starting, manuallyStopped, stops>>

BackoffAborted(b) ==
  /\ At(b, "backoff") /\ boots[b].aborted
  /\ BootGoes(b, "over") /\ Forget(b)
  /\ UNCHANGED <<stopHook, booted, starting, manuallyStopped, restartAttempts, stops>>

(* The backoff is over: the boot forgets its own entries and starts again,  *)
(* unless another start or task is there.                                  *)
BackoffEnds(b) ==
  /\ NoneCanFinish
  /\ At(b, "backoff") /\ ~boots[b].aborted
  /\ IF manuallyStopped \/ tasks \notin {0, b} \/ starting # 0
     THEN BootGoes(b, "over") /\ Forget(b) /\ UNCHANGED <<booted, starting>>
     ELSE tasks' = 0 /\ Reserve(TRUE, [boots EXCEPT ![b] = Past(@, "over")])
  /\ UNCHANGED <<stopHook, manuallyStopped, restartAttempts, stops>>

-----------------------------------------------------------------------------
(* stopChannel: with nothing to stop it returns; otherwise the abort and    *)
(* the task are taken, and the hook, if there is one, is awaited first.    *)
StopChannel(s) ==
  /\ NoneCanFinish
  /\ stops[s].phase = "none"
  /\ aborts # 0 \/ tasks # 0 \/ stopHook
  /\ manuallyStopped' = TRUE
  /\ boots' = [b \in 1..booted |-> IF b = aborts THEN [boots[b] EXCEPT !.aborted = TRUE] ELSE boots[b]]
  /\ stops' = [stops EXCEPT ![s] = [phase |-> IF stopHook THEN "hook" ELSE "waiting", task |-> tasks]]
  /\ UNCHANGED <<stopHook, booted, tasks, starting, aborts, restartAttempts>>

(* stopAccount returns, or throws and with it the stop. *)
StopHookReturns(s, phase) ==
  /\ stops[s].phase = "hook"
  /\ stops' = [stops EXCEPT ![s] = [phase |-> phase, task |-> IF phase = "none" THEN 0 ELSE @.task]]
  /\ UNCHANGED <<stopHook, boots, booted, tasks, starting, aborts, manuallyStopped, restartAttempts>>

(* The task, if there was one, is over. *)
StopEnds(s) ==
  /\ CanFinish(s)
  /\ stops' = [stops EXCEPT ![s] = [phase |-> "none", task |-> 0]]
  /\ tasks' = 0 /\ aborts' = 0
  /\ UNCHANGED <<stopHook, boots, booted, starting, manuallyStopped, restartAttempts>>

(* The health monitor, before it starts the account again. *)
ResetRestartAttempts ==
  /\ restartAttempts' = 0
  /\ UNCHANGED <<stopHook, boots, booted, tasks, starting, aborts, manuallyStopped, stops>>

BootGoesOn(b) ==
  \/ BootFails(b) \/ IsConfigured(b) \/ FailedBootCleanedUp(b) \/ Bootstrapped(b)
  \/ ProviderCleanedUp(b) \/ BackoffAborted(b) \/ BackoffEnds(b)

ChannelNext ==
  \/ StartChannel \/ ResetRestartAttempts
  \/ \E b \in 1..MaxBoots : BootGoesOn(b) \/ ProviderExits(b)
  \/ \E s \in Stops :
       \/ StopChannel(s) \/ StopEnds(s)
       \/ \E phase \in {"none", "waiting"} : StopHookReturns(s, phase)

(* The awaits within a boot end, and a provider exits when its     *)
(* signal is aborted.                                                      *)
ChannelFairness ==
  /\ \A b \in 1..MaxBoots :
       WF_channelVars(BootGoesOn(b) \/ (b \in 1..booted /\ boots[b].aborted /\ ProviderExits(b)))
  /\ \A s \in Stops : WF_channelVars(StopEnds(s))

ChannelSpec == ChannelInit /\ [][ChannelNext]_channelVars /\ ChannelFairness

-----------------------------------------------------------------------------
(* However starts, stops and restarts overlap, two boots of an account that *)
(* have not been told to stop never have a provider between them, nor are  *)
(* about to have one, and after a stop none is.  Excused: a plugin with a  *)
(* stopAccount, whose stop may delete the entries of a boot that began     *)
(* while it waited.                                                        *)
Live(b) == boots[b].phase \in {"bootstrapping", "running", "backoff"} /\ ~boots[b].aborted

OneProvider ==
  ~stopHook =>
    /\ \A b, c \in 1..booted : Live(b) /\ Live(c) => b = c
    /\ manuallyStopped => \A b \in 1..booted : ~Live(b)

(* A stop ends: the task it waits for has been told to.                     *)
StopsEnd == \A s \in Stops : ~stopHook /\ stops[s].phase # "none" ~> stops[s].phase = "none"
=============================================================================
