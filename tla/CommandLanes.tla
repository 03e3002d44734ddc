---------------------------- MODULE CommandLanes ----------------------------
(***************************************************************************)
(* The in-process command queue of the gateway                             *)
(* (src/process/command-queue.ts): named lanes, each a FIFO of entries     *)
(* with a concurrency limit, shared by every agent run, cron job and       *)
(* command of the process, and what a gateway restart does to them.        *)
(*                                                                         *)
(* JavaScript runs to completion: an event (a call from another part of    *)
(* the gateway, a timer, the settlement of a task's promise) runs until    *)
(* the call stack is empty.  But the queue calls entry.task() itself, so   *)
(* the synchronous prefix of a task, which may enqueue again or throw,     *)
(* runs nested inside pump().  "stack" is that call stack, its top last;   *)
(* an event may start only when it is empty.                               *)
(*                                                                         *)
(* The lane of an entry is fixed (LaneOf).  Logging, onWait and the wait   *)
(* times are left out.  MaxGeneration bounds the number of restarts.       *)
(***************************************************************************)
EXTENDS Integers, Sequences, FiniteSets

CONSTANTS Lanes,            \* lane names
          Entries,          \* calls of enqueueCommandInLane
          LaneOf,           \* the lane each entry is enqueued in
          ConfiguredLanes,  \* lanes setCommandLaneConcurrency is called for
          ConcurrencyInputs,\* the numbers it is called with
          Waiters,          \* calls of waitForActiveTasks
          MaxGeneration     \* bound on resetAllLanes

ASSUME CommandLanesAssumption ==
  /\ LaneOf \in [Entries -> Lanes]
  /\ ConfiguredLanes \subseteq Lanes
  /\ ConcurrencyInputs \subseteq Int
  /\ MaxGeneration \in Nat

VARIABLES
  gatewayDraining,  \* new enqueues are refused
  queue,            \* per lane: entries waiting, in order
  activeTaskIds,    \* per lane: ids of the tasks that hold a slot
  maxConcurrent,    \* per lane: number of slots
  draining,         \* per lane: pump() is on the stack
  generation,       \* per lane: number of resets
  nextTaskId,
  phase,            \* per entry: where its promise stands
  taskId,           \* per entry: the id its closure captured (0: not started)
  taskGeneration,   \* per entry: the generation its closure captured
  waiters,          \* per waitForActiveTasks call
  stack             \* the synchronous call stack, top last

laneVars  == <<queue, activeTaskIds, maxConcurrent, draining, generation>>
entryVars == <<phase, taskId, taskGeneration>>
vars == <<gatewayDraining, laneVars, nextTaskId, entryVars, waiters, stack>>

Phases == {"new", "queued", "running", "settling",
           "resolved", "rejected", "cleared", "refused"}
Outcomes == {"resolved", "rejected"}
WaiterStates == {"idle", "waiting", "drained", "timedOut"}

PumpFrame(l)      == [op |-> "pump", lane |-> l]
TaskFrame(e)      == [op |-> "task", entry |-> e]
SettleFrame(e, o) == [op |-> "settle", entry |-> e, outcome |-> o]
ResetFrame(S)     == [op |-> "reset", lanes |-> S]
Frames == [op : {"pump"}, lane : Lanes]
          \cup [op : {"task"}, entry : Entries]
          \cup [op : {"settle"}, entry : Entries, outcome : Outcomes]
          \cup [op : {"reset"}, lanes : SUBSET Lanes]

TypeOK ==
  /\ gatewayDraining \in BOOLEAN
  /\ queue \in [Lanes -> Seq(Entries)]
  /\ activeTaskIds \in [Lanes -> SUBSET Nat]
  /\ \A l \in Lanes : IsFiniteSet(activeTaskIds[l])
  /\ maxConcurrent \in [Lanes -> Nat \ {0}]
  /\ draining \in [Lanes -> BOOLEAN]
  /\ generation \in [Lanes -> Nat]
  /\ nextTaskId \in Nat \ {0}
  /\ phase \in [Entries -> Phases]
  /\ taskId \in [Entries -> Nat]
  /\ taskGeneration \in [Entries -> Nat]
  /\ waiters \in [Waiters -> [state : WaiterStates, ids : SUBSET Nat]]
  /\ stack \in Seq(Frames)

Init ==
  /\ gatewayDraining = FALSE
  /\ queue = [l \in Lanes |-> <<>>]
  /\ activeTaskIds = [l \in Lanes |-> {}]
  /\ maxConcurrent = [l \in Lanes |-> 1]
  /\ draining = [l \in Lanes |-> FALSE]
  /\ generation = [l \in Lanes |-> 0]
  /\ nextTaskId = 1
  /\ phase = [e \in Entries |-> "new"]
  /\ taskId = [e \in Entries |-> 0]
  /\ taskGeneration = [e \in Entries |-> 0]
  /\ waiters = [w \in Waiters |-> [state |-> "idle", ids |-> {}]]
  /\ stack = <<>>

-----------------------------------------------------------------------------
(* The call stack. *)

Idle == stack = <<>>
Top == stack[Len(stack)]
TopIs(op) == stack # <<>> /\ Top.op = op
Popped == SubSeq(stack, 1, Len(stack) - 1)

(* drainLane: enter pump() on top of the frames rest, unless the lane is    *)
(* marked draining already.                                                *)
DrainLane(l, rest) ==
  IF draining[l]
  THEN stack' = rest /\ UNCHANGED draining
  ELSE stack' = Append(rest, PumpFrame(l)) /\ draining' = [draining EXCEPT ![l] = TRUE]

(* All ids that hold a slot when the lanes' sets are act. *)
ActiveIds(act) == UNION {act[l] : l \in Lanes}

(* Mutant: a waiter is answered when one of its tasks is done. *)
Notified_AnyDone(ws, act) ==
  [w \in Waiters |->
     IF ws[w].state = "waiting" /\ ~(ws[w].ids \subseteq ActiveIds(act))
     THEN [ws[w] EXCEPT !.state = "drained"] ELSE ws[w]]

(* notifyActiveTaskWaiters, on waiters ws when the lanes' sets are act.     *)
Notified(ws, act) ==
  [w \in Waiters |->
     IF ws[w].state = "waiting" /\ ws[w].ids \cap ActiveIds(act) = {}
     THEN [ws[w] EXCEPT !.state = "drained"] ELSE ws[w]]

-----------------------------------------------------------------------------
(* enqueueCommandInLane: an event, or a call from a task's synchronous      *)
(* prefix.                                                                 *)
EnqueueCommandInLane(e) ==
  /\ Idle \/ TopIs("task")
  /\ phase[e] = "new"
  /\ IF gatewayDraining
     THEN /\ phase' = [phase EXCEPT ![e] = "refused"]
          /\ UNCHANGED <<queue, draining, stack>>
     ELSE /\ phase' = [phase EXCEPT ![e] = "queued"]
          /\ queue' = [queue EXCEPT ![LaneOf[e]] = Append(@, e)]
          /\ DrainLane(LaneOf[e], stack)
  /\ UNCHANGED <<gatewayDraining, activeTaskIds, maxConcurrent, generation,
                 nextTaskId, taskId, taskGeneration, waiters>>

(* Mutant: one task too many may start. *)
MayStart_OffByOne(l) == queue[l] # <<>> /\ Cardinality(activeTaskIds[l]) <= maxConcurrent[l]

MayStart(l) == queue[l] # <<>> /\ Cardinality(activeTaskIds[l]) < maxConcurrent[l]

(* Mutant: the next task gets the same id. *)
PumpStart_ReusesId(l) ==
  /\ TopIs("pump") /\ Top.lane = l
  /\ MayStart(l)
  /\ LET e == Head(queue[l]) IN
       /\ phase' = [phase EXCEPT ![e] = "running"]
       /\ taskId' = [taskId EXCEPT ![e] = nextTaskId]
       /\ taskGeneration' = [taskGeneration EXCEPT ![e] = generation[l]]
       /\ stack' = Append(stack, TaskFrame(e))
  /\ queue' = [queue EXCEPT ![l] = Tail(@)]
  /\ activeTaskIds' = [activeTaskIds EXCEPT ![l] = @ \cup {nextTaskId}]
  /\ UNCHANGED <<gatewayDraining, maxConcurrent, draining, generation, nextTaskId, waiters>>

(* One turn of pump's loop: take the head entry, give it a slot and call    *)
(* its task.                                                               *)
PumpStart(l) ==
  /\ TopIs("pump") /\ Top.lane = l
  /\ MayStart(l)
  /\ LET e == Head(queue[l]) IN
       /\ phase' = [phase EXCEPT ![e] = "running"]
       /\ taskId' = [taskId EXCEPT ![e] = nextTaskId]
       /\ taskGeneration' = [taskGeneration EXCEPT ![e] = generation[l]]
       /\ stack' = Append(stack, TaskFrame(e))
  /\ queue' = [queue EXCEPT ![l] = Tail(@)]
  /\ activeTaskIds' = [activeTaskIds EXCEPT ![l] = @ \cup {nextTaskId}]
  /\ nextTaskId' = nextTaskId + 1
  /\ UNCHANGED <<gatewayDraining, maxConcurrent, draining, generation, waiters>>

(* Mutant: the flag is not cleared. *)
PumpExit_KeepsFlag(l) ==
  /\ TopIs("pump") /\ Top.lane = l
  /\ ~MayStart(l)
  /\ stack' = Popped
  /\ UNCHANGED <<gatewayDraining, laneVars, nextTaskId, entryVars, waiters>>

(* pump's loop ends and its finally clause clears the flag. *)
PumpExit(l) ==
  /\ TopIs("pump") /\ Top.lane = l
  /\ ~MayStart(l)
  /\ draining' = [draining EXCEPT ![l] = FALSE]
  /\ stack' = Popped
  /\ UNCHANGED <<gatewayDraining, queue, activeTaskIds, maxConcurrent, generation,
                 nextTaskId, entryVars, waiters>>

(* The task reaches its first await: control returns to pump's loop. *)
TaskAwaits ==
  /\ TopIs("task")
  /\ stack' = Popped
  /\ UNCHANGED <<gatewayDraining, laneVars, nextTaskId, entryVars, waiters>>

(* entry.task() has settled, above the frames rest: completeTask, and, in   *)
(* the lane's current generation, notify, pump and only then settle the    *)
(* entry.  The promise of a stale task is settled and nothing else.        *)
Complete(e, o, rest) ==
  LET l == LaneOf[e] IN
  /\ IF taskGeneration[e] = generation[l]
     THEN /\ activeTaskIds' = [activeTaskIds EXCEPT ![l] = @ \ {taskId[e]}]
          /\ waiters' = Notified(waiters, activeTaskIds')
          /\ phase' = [phase EXCEPT ![e] = "settling"]
          /\ stack' = Append(Append(rest, SettleFrame(e, o)), PumpFrame(l))
     ELSE /\ phase' = [phase EXCEPT ![e] = o]
          /\ stack' = rest
          /\ UNCHANGED <<activeTaskIds, waiters>>
  /\ UNCHANGED <<gatewayDraining, queue, maxConcurrent, draining, generation,
                 nextTaskId, taskId, taskGeneration>>

(* The task throws in its synchronous prefix. *)
TaskThrows == TopIs("task") /\ Complete(Top.entry, "rejected", Popped)

(* The promise of a task that awaits settles. *)
TaskSettles(e) ==
  /\ Idle
  /\ phase[e] = "running"
  /\ \E o \in Outcomes : Complete(e, o, stack)

(* entry.resolve or entry.reject, after pump has returned. *)
SettleEntry ==
  /\ TopIs("settle")
  /\ phase' = [phase EXCEPT ![Top.entry] = Top.outcome]
  /\ stack' = Popped
  /\ UNCHANGED <<gatewayDraining, laneVars, nextTaskId, taskId, taskGeneration, waiters>>

-----------------------------------------------------------------------------
(* Mutant: the limit is taken as given. *)
Slots_AsGiven(n) == n

Slots(n) == IF n > 1 THEN n ELSE 1

(* setCommandLaneConcurrency *)
SetCommandLaneConcurrency(l, n) ==
  /\ Idle
  /\ maxConcurrent' = [maxConcurrent EXCEPT ![l] = Slots(n)]
  /\ DrainLane(l, stack)
  /\ UNCHANGED <<gatewayDraining, queue, activeTaskIds, generation, nextTaskId,
                 entryVars, waiters>>

(* clearCommandLane: reject what waits, leave what runs. *)
ClearCommandLane(l) ==
  /\ Idle
  /\ queue[l] # <<>>
  /\ queue' = [queue EXCEPT ![l] = <<>>]
  /\ phase' = [e \in Entries |->
                 IF \E i \in 1..Len(queue[l]) : queue[l][i] = e THEN "cleared" ELSE phase[e]]
  /\ UNCHANGED <<gatewayDraining, activeTaskIds, maxConcurrent, draining, generation,
                 nextTaskId, taskId, taskGeneration, waiters, stack>>

(* markGatewayDraining *)
MarkGatewayDraining ==
  /\ Idle
  /\ gatewayDraining' = TRUE
  /\ UNCHANGED <<laneVars, nextTaskId, entryVars, waiters, stack>>

(* resetAllLanes' first pass over every lane, after which the generations   *)
(* are gens, the next task gets firstId and the lanes toDrain are drained  *)
(* one after the other.                                                    *)
ResetPass(gens, firstId, toDrain) ==
  /\ Idle
  /\ gatewayDraining' = FALSE
  /\ generation' = gens
  /\ activeTaskIds' = [l \in Lanes |-> {}]
  /\ draining' = [l \in Lanes |-> FALSE]
  /\ nextTaskId' = firstId
  /\ stack' = <<ResetFrame(toDrain)>>
  /\ UNCHANGED <<queue, maxConcurrent, entryVars, waiters>>

NextGenerations == [l \in Lanes |-> generation[l] + 1]
LanesWithWork == {l \in Lanes : queue[l] # <<>>}

(* Mutants: the generation is not bumped; task ids start again at 1; the    *)
(* preserved entries are not drained.                                      *)
ResetAllLanes_SameGeneration == ResetPass(generation, nextTaskId, LanesWithWork)
ResetAllLanes_ReusesIds == ResetPass(NextGenerations, 1, LanesWithWork)
ResetAllLanes_NoDrain == ResetPass(NextGenerations, nextTaskId, {})

(* resetAllLanes: the generation is bumped, task ids go on, and the lanes   *)
(* with preserved entries are drained.                                     *)
ResetAllLanes == ResetPass(NextGenerations, nextTaskId, LanesWithWork)

ResetDrainsLane(l) ==
  /\ TopIs("reset") /\ l \in Top.lanes
  /\ DrainLane(l, Append(Popped, ResetFrame(Top.lanes \ {l})))
  /\ UNCHANGED <<gatewayDraining, queue, activeTaskIds, maxConcurrent, generation,
                 nextTaskId, entryVars, waiters>>

(* Mutant: resetAllLanes does not notify the waiters. *)
ResetReturns_NoNotify ==
  /\ TopIs("reset") /\ Top.lanes = {}
  /\ stack' = Popped
  /\ UNCHANGED <<gatewayDraining, laneVars, nextTaskId, entryVars, waiters>>

ResetReturns ==
  /\ TopIs("reset") /\ Top.lanes = {}
  /\ waiters' = Notified(waiters, activeTaskIds)
  /\ stack' = Popped
  /\ UNCHANGED <<gatewayDraining, laneVars, nextTaskId, entryVars>>

(* waitForActiveTasks(timeoutMs): waiter w waits for a snapshot of the       *)
(* active ids; the value of waiters after the call.                        *)
Asked(w, timeoutIsPositive) ==
  LET ids == ActiveIds(activeTaskIds)
      answer(s) == [waiters EXCEPT ![w] = [state |-> s, ids |-> ids]]
  IN IF ids = {} THEN answer("drained")
     ELSE IF ~timeoutIsPositive THEN answer("timedOut")
     ELSE Notified(answer("waiting"), activeTaskIds)

WaitForActiveTasks(w, timeoutIsPositive) ==
  /\ Idle
  /\ waiters[w].state = "idle"
  /\ waiters' = Asked(w, timeoutIsPositive)
  /\ UNCHANGED <<gatewayDraining, laneVars, nextTaskId, entryVars, stack>>

WaiterTimesOut(w) ==
  /\ Idle
  /\ waiters[w].state = "waiting"
  /\ waiters' = [waiters EXCEPT ![w].state = "timedOut"]
  /\ UNCHANGED <<gatewayDraining, laneVars, nextTaskId, entryVars, stack>>

-----------------------------------------------------------------------------
(* The steps that run to completion, the events of the queue's users other *)
(* than the restart, and the restart.                                      *)
SyncStep ==
  \/ \E l \in Lanes : PumpStart(l) \/ PumpExit(l) \/ ResetDrainsLane(l)
  \/ TaskAwaits \/ TaskThrows \/ SettleEntry \/ ResetReturns

UserStep ==
  \/ \E e \in Entries : EnqueueCommandInLane(e) \/ TaskSettles(e)
  \/ \E l \in ConfiguredLanes, n \in ConcurrencyInputs : SetCommandLaneConcurrency(l, n)
  \/ \E l \in Lanes : ClearCommandLane(l)

RestartStep ==
  \/ MarkGatewayDraining
  \/ (\A l \in Lanes : generation[l] < MaxGeneration) /\ ResetAllLanes
  \/ \E w \in Waiters :
       \/ \E positive \in BOOLEAN : WaitForActiveTasks(w, positive)
       \/ WaiterTimesOut(w)

Next == SyncStep \/ UserStep \/ RestartStep

Spec == Init /\ [][Next]_vars

(* A task of the current generation settles sooner or later (runs have      *)
(* time-outs), and the event loop does not starve its completion.  A stale *)
(* task may hang forever.                                                  *)
FairSpec ==
  /\ Spec
  /\ WF_vars(SyncStep)
  /\ \A e \in Entries :
       SF_vars(TaskSettles(e) /\ taskGeneration[e] = generation[LaneOf[e]])

-----------------------------------------------------------------------------
(* Entries that run in lane l and were started since its last reset. *)
CurrentRuns(l) ==
  {e \in Entries : LaneOf[e] = l /\ phase[e] = "running" /\ taskGeneration[e] = generation[l]}

(* The slots of a lane are exactly the ids of the tasks of the current      *)
(* generation that still run: completeTask frees a slot once, a stale      *)
(* completion frees none, and none leaks across resets and sync throws.    *)
SlotsMatchRuns == \A l \in Lanes : activeTaskIds[l] = {taskId[e] : e \in CurrentRuns(l)}

(* The lanes as FifoLanes sees them: what runs is what runs in the lane's   *)
(* current generation.                                                     *)
Came == {e \in Entries : phase[e] \notin {"new", "refused"}}

Fifo == INSTANCE FifoLanes WITH
  came <- Came,
  waiting <- queue,
  running <- [l \in Lanes |-> CurrentRuns(l)],
  limit <- maxConcurrent,
  Resizable <- ConfiguredLanes

(* A lane starts its entries in the order they came in, each once, within   *)
(* its limit: ids, flags, nested pumps and late completions of an earlier  *)
(* lifecycle are how enqueueCommandInLane, pump and resetAllLanes do it     *)
(* and show nowhere in what they do.                                       *)
LanesAreFifo == Fifo!FifoSpec

(* A lane nobody configures (a session lane: getLaneState gives it one     *)
(* slot) never runs two tasks of the current generation.                   *)
SerialLaneIsSerial ==
  \A l \in Lanes \ ConfiguredLanes : \A e, f \in CurrentRuns(l) : e = f

(* When the call stack is empty no lane has both a free slot and waiting    *)
(* entries, and no lane is left marked draining: the early return of       *)
(* drainLane, the completions, the resets and the concurrency changes lose *)
(* no wake-up.                                                             *)
NoLostWakeup == Idle => \A l \in Lanes : ~MayStart(l) /\ ~draining[l]

(* waitForActiveTasks answers "drained" only when every task it waited for  *)
(* has left its lane or was made stale by a reset: ids are never reused.   *)
DrainedIsTrue ==
  \A w \in Waiters : waiters[w].state = "drained" =>
    \A l \in Lanes : \A e \in CurrentRuns(l) : taskId[e] \notin waiters[w].ids

(* A waiter that still waits has a task to wait for: completions and        *)
(* resets notify it, so it never sits out its time-out for nothing.        *)
WaiterHasReason ==
  Idle => \A w \in Waiters : waiters[w].state = "waiting" =>
            waiters[w].ids \cap ActiveIds(activeTaskIds) # {}

(* Every queued entry is started or cleared, restarts included: queued work *)
(* is preserved by resetAllLanes and pumped without a further enqueue.     *)
QueuedWorkRuns == \A e \in Entries : phase[e] = "queued" ~> phase[e] # "queued"
=============================================================================
