------------------------- MODULE GatewayRestartProofs -------------------------
(***************************************************************************)
(* Proofs about the gateway's run loop and its restart scheduler.          *)
(*                                                                         *)
(* The run loop, for any lanes, entries and waiters and any number of      *)
(* restarts: a clean exit releases the lock, no command is accepted from a *)
(* restart's request to the next iteration, and a drain that succeeded     *)
(* closes the server on none of the tasks it waited for.                   *)
(*                                                                         *)
(* The gateway with its restart scheduler implements the run loop that     *)
(* takes a restart at any time, so what is proved of the run loop holds of *)
(* it; and what the scheduler adds: the cooldown and the watcher's flag.   *)
(* For any delays, cooldown and number of requests.                        *)
(***************************************************************************)
EXTENDS GatewayRestart, CommandLanesProofs

(* The run loop. *)

(* The request's handler and the loop take turns: when the loop is about to *)
(* iterate no request is being handled, and until then the drain stays     *)
(* announced.                                                              *)
HandlerInv ==
  /\ loop = "iterate" => handler = NoHandler
  /\ handler.restart => gatewayDraining

(* The lock is given up before the respawn, and before any clean exit. *)
LockInv ==
  /\ handler.stage \in {"respawn", "reacquire"} => ~lock
  /\ exitCode = 0 => ~lock

(* A task whose id the handler's waiter holds was not made stale: no reset  *)
(* happens while a request is being handled.                               *)
DrainInv ==
  handler.waiter # NoWaiter =>
    \A e \in Entries :
      phase[e] = "running" /\ taskId[e] \in waiters[handler.waiter].ids
        => taskGeneration[e] = generation[LaneOf[e]]

RunInv == IInv /\ WaitersInv /\ RunTypeOK /\ HandlerInv /\ LockInv /\ DrainInv

-----------------------------------------------------------------------------
(* The steps the lanes take while the process runs. *)
LaneAlone ==
  \/ SyncStep
  \/ \E e \in Entries : EnqueueCommandInLane(e) \/ TaskSettles(e)
  \/ \E w \in Waiters : WaiterTimesOut(w)

(* They are steps of the queue. *)
LEMMA LaneAloneIsLane == LaneAlone => LaneAction
BY DEF LaneAlone, LaneAction, QuietStep, SyncStep

(* What a step leaves of an entry: it runs as before, or has been started   *)
(* with a new id; and a new one is accepted only if the gateway does not   *)
(* drain.                                                                  *)
EntryKept(e) ==
  /\ phase'[e] = "running" =>
       \/ phase[e] = "running" /\ taskId'[e] = taskId[e] /\ taskGeneration'[e] = taskGeneration[e]
       \/ taskId'[e] = nextTaskId
  /\ phase[e] = "new" => phase'[e] \in {"new", "refused"} \/ ~gatewayDraining

(* A completion leaves the ids the waiters wait for alone. *)
LEMMA CompleteKeeps ==
  ASSUME TypeOK, NEW e \in Entries, NEW o \in Outcomes, NEW rest, phase[e] = "running",
         Complete(e, o, rest)
  PROVE  /\ UNCHANGED <<gatewayDraining, generation>>
         /\ \A w \in Waiters : waiters'[w].ids = waiters[w].ids
         /\ \A f \in Entries : EntryKept(f)
<1>1. /\ UNCHANGED <<gatewayDraining, generation, taskId, taskGeneration>>
      /\ phase'[e] # "running" /\ \A f \in Entries : f # e => phase'[f] = phase[f]
  BY CompleteFrame DEF Complete, Outcomes
<1>2. waiters' = waiters \/ waiters' = Notified(waiters, activeTaskIds')
  BY DEF Complete
<1>3. ASSUME NEW w \in Waiters PROVE waiters'[w].ids = waiters[w].ids
  <2>1. waiters \in [Waiters -> [state : WaiterStates, ids : SUBSET Nat]]
    BY DEF TypeOK
  <2>2. Notified(waiters, activeTaskIds')[w].ids = waiters[w].ids
    BY <2>1, NotifiedWaiters
  <2> QED
    BY <1>2, <2>2
<1> QED
  BY <1>1, <1>3 DEF EntryKept

(* The lanes alone neither reset nor end the drain, and keep the waiters'   *)
(* ids.                                                                    *)
LEMMA LaneAloneKeeps ==
  ASSUME TypeOK, QueueInv, StackInv, LaneAlone
  PROVE  /\ UNCHANGED <<gatewayDraining, generation>>
         /\ \A w \in Waiters : waiters'[w].ids = waiters[w].ids
         /\ \A f \in Entries : EntryKept(f)
<1> DEFINE Kept == /\ UNCHANGED <<gatewayDraining, generation>>
                   /\ \A w \in Waiters : waiters'[w].ids = waiters[w].ids
                   /\ \A f \in Entries : EntryKept(f)
<1>1. ASSUME UNCHANGED <<gatewayDraining, generation, entryVars>>,
             \A w \in Waiters : waiters'[w].ids = waiters[w].ids
      PROVE  Kept
  BY <1>1 DEF EntryKept, entryVars
<1>2. ASSUME NEW l \in Lanes, PumpStart(l) PROVE Kept
  <2> DEFINE h == Head(queue[l])
  <2>1. h \in Entries /\ phase[h] = "queued"
    BY <1>2, PumpHead DEF PumpStart
  <2>2. /\ phase' = [phase EXCEPT ![h] = "running"] /\ taskId' = [taskId EXCEPT ![h] = nextTaskId]
        /\ taskGeneration' = [taskGeneration EXCEPT ![h] = generation[l]]
        /\ UNCHANGED <<gatewayDraining, generation, waiters>>
    BY <1>2 DEF PumpStart
  <2> HIDE DEF h
  <2>3. ASSUME NEW f \in Entries PROVE EntryKept(f)
    <3>1. CASE f = h
      BY <2>1, <2>2, <3>1 DEF EntryKept, TypeOK
    <3>2. CASE f # h
      BY <2>1, <2>2, <3>2 DEF EntryKept, TypeOK
    <3> QED
      BY <3>1, <3>2
  <2> QED
    BY <2>2, <2>3
<1>3. ASSUME NEW l \in Lanes, PumpExit(l) \/ ResetDrainsLane(l) PROVE Kept
  BY <1>1, <1>3 DEF PumpExit, ResetDrainsLane
<1>4. ASSUME TaskAwaits PROVE Kept
  BY <1>1, <1>4 DEF TaskAwaits, laneVars
<1>5. ASSUME TaskThrows PROVE Kept
  <2>1. Complete(Top.entry, "rejected", Popped) /\ Top.entry \in Entries /\ phase[Top.entry] = "running"
    BY <1>5, CompletesRunning DEF TaskThrows
  <2> QED
    BY <2>1, CompleteKeeps, "rejected" \in Outcomes DEF Outcomes
<1>6. ASSUME SettleEntry PROVE Kept
  <2>1. /\ Top.entry \in Entries /\ Top.outcome \in Outcomes /\ phase[Top.entry] = "settling"
        /\ phase' = [phase EXCEPT ![Top.entry] = Top.outcome]
        /\ UNCHANGED <<gatewayDraining, generation, waiters, taskId, taskGeneration>>
    BY <1>6, TopTypes, CompletesRunning DEF SettleEntry, TopIs, TypeOK, laneVars
  <2> QED
    BY <2>1 DEF EntryKept, TypeOK, Outcomes
<1>7. ASSUME ResetReturns PROVE Kept
  <2>1. UNCHANGED <<gatewayDraining, generation, entryVars>> /\ waiters' = Notified(waiters, activeTaskIds)
    BY <1>7 DEF ResetReturns, laneVars
  <2>2. \A w \in Waiters : waiters'[w].ids = waiters[w].ids
    BY <2>1, NotifiedWaiters DEF TypeOK
  <2> QED
    BY <1>1, <2>1, <2>2
<1>8. ASSUME NEW e \in Entries, EnqueueCommandInLane(e) PROVE Kept
  <2>1. /\ phase[e] = "new" /\ UNCHANGED <<gatewayDraining, generation, waiters, taskId, taskGeneration>>
        /\ phase' = [phase EXCEPT ![e] = IF gatewayDraining THEN "refused" ELSE "queued"]
    BY <1>8 DEF EnqueueCommandInLane
  <2> QED
    BY <2>1 DEF EntryKept, TypeOK
<1>9. ASSUME NEW e \in Entries, TaskSettles(e) PROVE Kept
  <2>1. PICK o \in Outcomes : Complete(e, o, stack)
    BY <1>9 DEF TaskSettles
  <2> QED
    BY <1>9, <2>1, CompleteKeeps DEF TaskSettles
<1>10. ASSUME NEW w \in Waiters, WaiterTimesOut(w) PROVE Kept
  <2>1. /\ waiters' = [waiters EXCEPT ![w].state = "timedOut"]
        /\ UNCHANGED <<gatewayDraining, generation, entryVars>>
    BY <1>10 DEF WaiterTimesOut, laneVars
  <2>2. \A v \in Waiters : waiters'[v].ids = waiters[v].ids
    BY <2>1 DEF TypeOK
  <2> QED
    BY <1>1, <2>1, <2>2
<1> QED
  BY <1>2, <1>3, <1>4, <1>5, <1>6, <1>7, <1>8, <1>9, <1>10 DEF LaneAlone, SyncStep

-----------------------------------------------------------------------------
(* An id that holds a slot is the id of a task of the current generation.   *)
LEMMA ActiveAreCurrent ==
  ASSUME TypeOK, IdsInv, SlotsMatchRuns, NEW e \in Entries,
         phase[e] = "running", taskId[e] \in ActiveIds(activeTaskIds)
  PROVE  taskGeneration[e] = generation[LaneOf[e]]
<1>1. PICK l \in Lanes : taskId[e] \in activeTaskIds[l]
  BY DEF ActiveIds
<1>2. PICK f \in CurrentRuns(l) : taskId[e] = taskId[f]
  BY <1>1 DEF SlotsMatchRuns
<1>3. f \in Entries /\ phase[f] = "running" /\ taskGeneration[f] = generation[LaneOf[f]]
  BY <1>2 DEF CurrentRuns
<1>4. e = f
  BY <1>2, <1>3 DEF IdsInv
<1> QED
  BY <1>3, <1>4

(* The waiter's answer is typed, and holds the ids that hold a slot.        *)
LEMMA AskedType ==
  ASSUME TypeOK, NEW w \in Waiters, NEW p \in BOOLEAN
  PROVE  /\ Asked(w, p) \in [Waiters -> [state : WaiterStates, ids : SUBSET Nat]]
         /\ Asked(w, p)[w].ids = ActiveIds(activeTaskIds)
<1> DEFINE ids == ActiveIds(activeTaskIds)
           answer(s) == [waiters EXCEPT ![w] = [state |-> s, ids |-> ids]]
<1>1. ids \in SUBSET Nat
  BY DEF ActiveIds, TypeOK
<1>2. ASSUME NEW s \in WaiterStates
      PROVE  answer(s) \in [Waiters -> [state : WaiterStates, ids : SUBSET Nat]] /\ answer(s)[w].ids = ids
  BY <1>1 DEF TypeOK
<1>3. "drained" \in WaiterStates /\ "timedOut" \in WaiterStates /\ "waiting" \in WaiterStates
  BY DEF WaiterStates
<1>4. \/ Asked(w, p) = answer("drained") \/ Asked(w, p) = answer("timedOut")
      \/ Asked(w, p) = Notified(answer("waiting"), activeTaskIds)
  BY DEF Asked
<1>5. /\ Notified(answer("waiting"), activeTaskIds) \in [Waiters -> [state : WaiterStates, ids : SUBSET Nat]]
      /\ Notified(answer("waiting"), activeTaskIds)[w].ids = ids
  <2>1. answer("waiting") \in [Waiters -> [state : WaiterStates, ids : SUBSET Nat]] /\ answer("waiting")[w].ids = ids
    BY <1>2, <1>3
  <2> HIDE DEF answer
  <2>2. Notified(answer("waiting"), activeTaskIds) \in [Waiters -> [state : WaiterStates, ids : SUBSET Nat]]
    BY <2>1 DEF Notified, WaiterStates
  <2> QED
    BY <2>1, <2>2, NotifiedWaiters
<1> HIDE DEF answer
<1> QED
  BY <1>2, <1>3, <1>4, <1>5

-----------------------------------------------------------------------------
(* What the steps of the run loop do to the lanes: a step of the lanes, the *)
(* reset of an iteration, nothing, or a restart's request.                 *)
LEMMA LanesMove ==
  ASSUME [RunNext]_allVars
  PROVE  LaneAction \/ \E w \in Waiters, p, runs \in BOOLEAN : RequestRestart(w, p, runs)
<1>1. ASSUME LaneStep PROVE LaneAction
  <2>1. LaneAlone
    BY <1>1 DEF LaneStep, LaneAlone
  <2> QED
    BY <2>1, LaneAloneIsLane
<1>2. ASSUME LoopStep \/ HandlerStep \/ RequestStop \/ UNCHANGED allVars PROVE LaneAction
  <2>1. CASE Iterate
    BY <2>1 DEF Iterate, OnIteration, LaneAction, QuietStep
  <2>2. CASE UNCHANGED vars
    BY <2>2 DEF LaneAction
  <2> QED
    BY <1>2, <2>1, <2>2
    DEF LoopStep, StartSucceeds, StartFails, FailedStartWaits, HandlerStep, DrainEnds, ServerCloses,
        ForceExit, LockIsReleased, RespawnExits, RespawnFallsBack, LockIsReacquired, LockIsTaken,
        RequestStop, allVars
<1> QED
  BY <1>1, <1>2 DEF RunNext, Request

(* The lanes' part of the invariant is kept.                               *)
LEMMA LanesStep ==
  ASSUME RunInv, [RunNext]_allVars
  PROVE  IInv' /\ WaitersInv'
<1>1. IInv /\ WaitersInv
  BY DEF RunInv
<1>2. ASSUME LaneAction PROVE IInv' /\ WaitersInv'
  BY <1>1, <1>2, IInvStep, WaitersStep
<1>5. ASSUME NEW w \in Waiters, NEW p \in BOOLEAN, NEW runs \in BOOLEAN, RequestRestart(w, p, runs)
      PROVE  IInv' /\ WaitersInv'
  <2>1. /\ gatewayDraining' = TRUE /\ UNCHANGED <<laneVars, nextTaskId, entryVars, stack>>
        /\ waiters' = waiters \/ waiters' = Asked(w, p)
    BY <1>5 DEF RequestRestart
  <2>2. TypeOK'
    <3>1. waiters' \in [Waiters -> [state : WaiterStates, ids : SUBSET Nat]]
      BY <1>1, <2>1, AskedType DEF IInv, TypeOK
    <3> QED
      BY <1>1, <2>1, <3>1 DEF IInv, TypeOK, laneVars, entryVars
  <2>3. UNCHANGED <<QueueInv, IdsInv, StackInv, OneSlotInv, SlotsMatchRuns, SerialLaneIsSerial, WakeupInv>>
    BY <2>1 DEF QueueInv, IdsInv, StackInv, FramesOK, OneSlotInv, SlotsMatchRuns, SerialLaneIsSerial,
                CurrentRuns, WakeupInv, MayStart, PumpOn, ResetOn, laneVars, entryVars
  <2>4. WaitersInv'
    <3>1. CASE waiters' = waiters
      BY <1>1, <2>1, <3>1, WaitersKept DEF laneVars
    <3>2. CASE waiters' = Asked(w, p)
      BY <1>1, <2>1, <3>2, WaitersAsk DEF IInv, laneVars
    <3> QED
      BY <2>1, <3>1, <3>2
  <2> QED
    BY <1>1, <2>2, <2>3, <2>4 DEF IInv
<1> QED
  BY <1>2, <1>5, LanesMove

-----------------------------------------------------------------------------
(* The steps of the run loop by name. *)
LEMMA RunSplit ==
  ASSUME [RunNext]_allVars
  PROVE  \/ LaneStep \/ Iterate \/ StartSucceeds \/ StartFails \/ FailedStartWaits
         \/ DrainEnds \/ ServerCloses \/ ForceExit \/ LockIsReleased
         \/ RespawnExits \/ RespawnFallsBack \/ LockIsReacquired \/ LockIsTaken
         \/ RequestStop
         \/ \E w \in Waiters, p, runs \in BOOLEAN : RequestRestart(w, p, runs)
         \/ UNCHANGED allVars
BY DEF RunNext, LoopStep, HandlerStep, Request

(* The loop, the handler, the lock and the exit code keep their types, and  *)
(* shuttingDown says that a request is being handled.                      *)
LEMMA RunTypeKept ==
  ASSUME RunTypeOK, TypeOK', [RunNext]_allVars
  PROVE  RunTypeOK'
<1>0. /\ loop \in Loops /\ isFirstStart \in BOOLEAN /\ server \in BOOLEAN /\ lock \in BOOLEAN
      /\ shuttingDown \in BOOLEAN /\ handler \in Handlers /\ exitCode \in {-1, 0, 1}
      /\ shuttingDown <=> handler.stage # "none"
  BY DEF RunTypeOK
<1>a. ASSUME loop' \in Loops, isFirstStart' \in BOOLEAN, server' \in BOOLEAN, lock' \in BOOLEAN,
             shuttingDown' \in BOOLEAN, handler' \in Handlers, exitCode' \in {-1, 0, 1},
             shuttingDown' <=> handler'.stage # "none"
      PROVE  RunTypeOK'
  BY <1>a DEF RunTypeOK
<1>b. ASSUME NEW s \in Stages
      PROVE  [handler EXCEPT !.stage = s] \in Handlers /\ [handler EXCEPT !.stage = s].stage = s
  BY <1>0 DEF Handlers
<1>c. /\ CloseStage \in Stages /\ CloseStage # "none"
      /\ {"release", "respawn", "reacquire"} \subseteq Stages
      /\ {"iterate", "starting", "failed", "waiting"} \subseteq Loops
  BY DEF CloseStage, Stages, Loops
<1>d. NoHandler \in Handlers /\ NoHandler.stage = "none"
  BY DEF NoHandler, Handlers, Stages
<1>1. ASSUME LaneStep \/ UNCHANGED allVars PROVE RunTypeOK'
  <2>1. UNCHANGED runVars
    BY <1>1 DEF LaneStep, allVars
  <2> QED
    BY <1>0, <1>a, <2>1 DEF runVars
<1>2. ASSUME Iterate \/ StartSucceeds \/ StartFails \/ FailedStartWaits PROVE RunTypeOK'
  BY <1>0, <1>a, <1>c, <1>2 DEF Iterate, StartSucceeds, StartFails, FailedStartWaits
<1>3. ASSUME DrainEnds \/ ServerCloses PROVE RunTypeOK'
  <2>1. PICK s \in Stages \ {"none"} : handler' = [handler EXCEPT !.stage = s]
    BY <1>3, <1>c DEF DrainEnds, ServerCloses
  <2>2. handler' \in Handlers /\ handler'.stage # "none"
    BY <1>b, <2>1
  <2>3. shuttingDown = TRUE /\ server' \in BOOLEAN /\ UNCHANGED <<loop, isFirstStart, lock, shuttingDown, exitCode>>
    BY <1>0, <1>3 DEF DrainEnds, ServerCloses
  <2> QED
    BY <1>0, <1>a, <2>2, <2>3
<1>4. ASSUME RequestStop PROVE RunTypeOK'
  <2>1. [NoHandler EXCEPT !.stage = CloseStage] \in Handlers /\ [NoHandler EXCEPT !.stage = CloseStage].stage = CloseStage
    BY <1>c, <1>d DEF Handlers
  <2> QED
    BY <1>0, <1>a, <1>c, <1>4, <2>1 DEF RequestStop
<1>5. ASSUME ForceExit \/ RespawnExits \/ LockIsTaken PROVE RunTypeOK'
  BY <1>0, <1>a, <1>5 DEF ForceExit, RespawnExits, LockIsTaken
<1>6. ASSUME LockIsReleased PROVE RunTypeOK'
  <2>1. handler' \in Handlers /\ handler'.stage # "none"
    <3>1. CASE handler' = handler
      BY <1>0, <1>6, <3>1 DEF LockIsReleased
    <3>2. CASE handler' = [handler EXCEPT !.stage = "respawn", !.hadLock = lock]
      BY <1>0, <1>c, <3>2 DEF Handlers
    <3> QED
      BY <1>6, <3>1, <3>2 DEF LockIsReleased
  <2>2. /\ shuttingDown = TRUE /\ lock' \in BOOLEAN /\ exitCode' \in {-1, 0, 1}
        /\ UNCHANGED <<loop, isFirstStart, server, shuttingDown>>
    BY <1>0, <1>6 DEF LockIsReleased
  <2> QED
    BY <1>0, <1>a, <2>1, <2>2
<1>7. ASSUME RestartsInProcess, lock' \in BOOLEAN, UNCHANGED <<isFirstStart, server, exitCode>> PROVE RunTypeOK'
  BY <1>0, <1>a, <1>c, <1>d, <1>7 DEF RestartsInProcess
<1>8. ASSUME RespawnFallsBack \/ LockIsReacquired PROVE RunTypeOK'
  <2>1. UNCHANGED <<isFirstStart, server, exitCode>> /\ lock' \in BOOLEAN
    BY <1>0, <1>8 DEF RespawnFallsBack, LockIsReacquired
  <2>2. CASE RestartsInProcess
    BY <1>7, <2>1, <2>2
  <2>3. CASE handler' = [handler EXCEPT !.stage = "reacquire"] /\ UNCHANGED <<loop, shuttingDown>>
    <3>1. handler' \in Handlers /\ handler'.stage = "reacquire"
      BY <1>b, <1>c, <2>3
    <3>2. shuttingDown = TRUE
      BY <1>0, <1>8 DEF RespawnFallsBack, LockIsReacquired
    <3> QED
      BY <1>0, <1>a, <2>1, <2>3, <3>1, <3>2
  <2> QED
    BY <1>8, <2>2, <2>3 DEF RespawnFallsBack, LockIsReacquired
<1>9. ASSUME NEW w \in Waiters, NEW p \in BOOLEAN, NEW runs \in BOOLEAN, RequestRestart(w, p, runs)
      PROVE  RunTypeOK'
  <2>1. PICK s \in Stages \ {"none"}, v \in Waiters \cup {NoWaiter} :
          handler' = [stage |-> s, restart |-> TRUE, waiter |-> v, hadLock |-> FALSE]
    BY <1>9, <1>c DEF RequestRestart, Stages
  <2>2. handler' \in Handlers /\ handler'.stage # "none"
    BY <2>1 DEF Handlers
  <2> QED
    BY <1>0, <1>a, <1>9, <2>2 DEF RequestRestart
<1> QED
  BY <1>1, <1>2, <1>3, <1>4, <1>5, <1>6, <1>8, <1>9, RunSplit

(* Until the loop iterates the drain of a restart stays announced: requests *)
(* begin only when the loop does not, and end before it does.              *)
LEMMA HandlerKept ==
  ASSUME RunInv, [RunNext]_allVars
  PROVE  HandlerInv'
<1> USE DEF HandlerInv
<1>0. /\ HandlerInv /\ NoHandler.stage = "none" /\ NoHandler.restart = FALSE
      /\ handler \in Handlers
  BY DEF RunInv, RunTypeOK, NoHandler
<1>1. ASSUME LaneStep PROVE HandlerInv'
  <2>1. gatewayDraining' = gatewayDraining
    BY <1>1, LaneAloneKeeps DEF RunInv, IInv, LaneStep, LaneAlone
  <2> QED
    BY <1>0, <1>1, <2>1 DEF LaneStep, runVars
<1>2. ASSUME Iterate \/ StartSucceeds \/ StartFails \/ FailedStartWaits \/ UNCHANGED allVars
      PROVE  HandlerInv'
  BY <1>0, <1>2 DEF Iterate, StartSucceeds, StartFails, FailedStartWaits, allVars, runVars, vars
<1>3. ASSUME DrainEnds \/ ServerCloses \/ LockIsReleased PROVE HandlerInv'
  <2>1. handler'.restart = handler.restart /\ gatewayDraining' = gatewayDraining /\ loop' = loop
    BY <1>0, <1>3 DEF DrainEnds, ServerCloses, LockIsReleased, Handlers, vars
  <2>2. handler.stage # "none"
    BY <1>3 DEF DrainEnds, ServerCloses, LockIsReleased
  <2> QED
    BY <1>0, <2>1, <2>2
<1>4. ASSUME ForceExit \/ RespawnExits \/ LockIsTaken PROVE HandlerInv'
  BY <1>0, <1>4 DEF ForceExit, RespawnExits, LockIsTaken, vars
<1>5. ASSUME RespawnFallsBack \/ LockIsReacquired PROVE HandlerInv'
  <2>1. CASE handler' = NoHandler
    BY <1>0, <2>1
  <2>2. CASE handler' = [handler EXCEPT !.stage = "reacquire"] /\ loop' = loop
    <3>1. handler.stage # "none" /\ gatewayDraining' = gatewayDraining
      BY <1>5 DEF RespawnFallsBack, LockIsReacquired, vars
    <3> QED
      BY <1>0, <2>2, <3>1 DEF Handlers
  <2> QED
    BY <1>5, <2>1, <2>2 DEF RespawnFallsBack, LockIsReacquired, RestartsInProcess
<1>6. ASSUME RequestStop \/ \E w \in Waiters, p, runs \in BOOLEAN : RequestRestart(w, p, runs)
      PROVE  HandlerInv'
  <2>1. loop' = loop /\ loop # "iterate"
    BY <1>6 DEF RequestStop, RequestRestart, SignalPossible
  <2>2. CASE RequestStop
    BY <1>0, <2>1, <2>2 DEF RequestStop, NoHandler
  <2>3. CASE gatewayDraining' = TRUE
    BY <2>1, <2>3
  <2> QED
    BY <1>6, <2>2, <2>3 DEF RequestRestart
<1> QED
  BY <1>1, <1>2, <1>3, <1>4, <1>5, <1>6, RunSplit

(* The lock is only taken again on the way back to the loop, and a process  *)
(* that exits with 0 has released it, itself or before the respawn.        *)
LEMMA LockKept ==
  ASSUME RunInv, [RunNext]_allVars
  PROVE  LockInv'
<1>0. LockInv /\ handler \in Handlers /\ lock \in BOOLEAN
  BY DEF RunInv, RunTypeOK
<1>1. ASSUME lock' = FALSE PROVE LockInv'
  BY <1>1 DEF LockInv
<1>2. ASSUME lock' = lock \/ lock' = FALSE, exitCode' # 0 \/ exitCode' = exitCode,
             handler' = handler \/ handler'.stage \in {"none", "draining", "closing", "release"}
      PROVE  LockInv'
  BY <1>0, <1>2 DEF LockInv
<1>3. CloseStage \in {"closing", "release"}
  BY DEF CloseStage
<1>4. ASSUME LaneStep \/ Iterate \/ StartSucceeds \/ StartFails \/ FailedStartWaits \/ UNCHANGED allVars
      PROVE  LockInv'
  <2>1. CASE StartFails
    BY <1>1, <2>1 DEF StartFails
  <2>2. CASE LaneStep \/ Iterate \/ StartSucceeds \/ FailedStartWaits \/ UNCHANGED allVars
    <3>1. UNCHANGED <<lock, handler, exitCode>>
      BY <2>2 DEF LaneStep, Iterate, StartSucceeds, FailedStartWaits, allVars, runVars
    <3> QED
      BY <1>2, <3>1
  <2> QED
    BY <1>4, <2>1, <2>2
<1>5. ASSUME DrainEnds \/ ServerCloses PROVE LockInv'
  <2>1. handler'.stage \in {"closing", "release"}
    BY <1>0, <1>3, <1>5 DEF DrainEnds, ServerCloses, Handlers
  <2>2. UNCHANGED <<lock, exitCode>>
    BY <1>5 DEF DrainEnds, ServerCloses
  <2> QED
    BY <1>2, <2>1, <2>2
<1>6. ASSUME LockIsReleased PROVE LockInv'
  BY <1>1, <1>6 DEF LockIsReleased
<1>7. ASSUME ForceExit \/ LockIsTaken PROVE LockInv'
  <2>1. UNCHANGED <<lock, handler>> /\ exitCode' = 1
    BY <1>7 DEF ForceExit, LockIsTaken
  <2> QED
    BY <1>2, <2>1
<1>8. ASSUME RespawnExits PROVE LockInv'
  <2>1. lock' = FALSE
    BY <1>0, <1>8 DEF RespawnExits, LockInv
  <2> QED
    BY <1>1, <2>1
<1>9. ASSUME RespawnFallsBack PROVE LockInv'
  <2>1. lock' = FALSE
    BY <1>0, <1>9 DEF RespawnFallsBack, LockInv
  <2> QED
    BY <1>1, <2>1
<1>10. ASSUME LockIsReacquired PROVE LockInv'
  <2>1. handler'.stage = "none" /\ exitCode' = -1
    BY <1>10 DEF LockIsReacquired, RestartsInProcess, NoHandler, Alive
  <2> QED
    BY <2>1 DEF LockInv
<1>11. ASSUME RequestStop \/ \E w \in Waiters, p, runs \in BOOLEAN : RequestRestart(w, p, runs)
       PROVE  LockInv'
  <2>1. handler'.stage \in {"draining", "closing", "release"}
    BY <1>3, <1>11 DEF RequestStop, RequestRestart, NoHandler
  <2>2. UNCHANGED <<lock, exitCode>>
    BY <1>11 DEF RequestStop, RequestRestart
  <2> QED
    BY <1>2, <2>1, <2>2
<1> QED
  BY <1>4, <1>5, <1>6, <1>7, <1>8, <1>9, <1>10, <1>11, RunSplit

(* Tasks started while the handler waits get ids above those it waits for,  *)
(* and no reset comes before the handler is done.                          *)
LEMMA DrainKept ==
  ASSUME RunInv, [RunNext]_allVars
  PROVE  DrainInv'
<1>0. /\ DrainInv /\ HandlerInv /\ WaitersInv /\ handler \in Handlers
      /\ TypeOK /\ QueueInv /\ IdsInv /\ StackInv /\ SlotsMatchRuns
  BY DEF RunInv, RunTypeOK, IInv
<1>n. NoHandler.waiter = NoWaiter
  BY DEF NoHandler
<1>1. ASSUME handler'.waiter = NoWaiter PROVE DrainInv'
  BY <1>1 DEF DrainInv
<1>2. ASSUME UNCHANGED vars, handler'.waiter = handler.waiter PROVE DrainInv'
  <2>1. UNCHANGED <<phase, taskId, taskGeneration, generation, waiters>>
    BY <1>2 DEF vars, entryVars, laneVars
  <2> QED
    BY <1>0, <1>2, <2>1 DEF DrainInv
<1>3. ASSUME LaneStep PROVE DrainInv'
  <2> SUFFICES ASSUME handler.waiter # NoWaiter, NEW e \in Entries, phase'[e] = "running",
                      taskId'[e] \in waiters'[handler.waiter].ids
               PROVE  taskGeneration'[e] = generation'[LaneOf[e]]
    BY <1>3 DEF LaneStep, runVars, DrainInv
  <2>1. handler.waiter \in Waiters
    BY <1>0 DEF Handlers
  <2>2. LaneAlone
    BY <1>3 DEF LaneStep, LaneAlone
  <2>3. /\ generation' = generation /\ waiters'[handler.waiter].ids = waiters[handler.waiter].ids
        /\ EntryKept(e)
    BY <1>0, <2>1, <2>2, LaneAloneKeeps
  <2>4. \A i \in waiters[handler.waiter].ids : i < nextTaskId
    BY <1>0, <2>1 DEF WaitersInv
  <2>5. taskId'[e] # nextTaskId
    BY <1>0, <2>3, <2>4 DEF TypeOK
  <2>6. phase[e] = "running" /\ taskId'[e] = taskId[e] /\ taskGeneration'[e] = taskGeneration[e]
    BY <2>3, <2>5 DEF EntryKept
  <2> QED
    BY <1>0, <2>3, <2>6 DEF DrainInv
<1>4. ASSUME Iterate PROVE DrainInv'
  BY <1>0, <1>1, <1>4, <1>n DEF Iterate, HandlerInv
<1>5. ASSUME StartSucceeds \/ StartFails \/ FailedStartWaits \/ ForceExit \/ RespawnExits \/ LockIsTaken
             \/ UNCHANGED allVars
      PROVE  DrainInv'
  BY <1>2, <1>5 DEF StartSucceeds, StartFails, FailedStartWaits, ForceExit, RespawnExits, LockIsTaken,
                    allVars, runVars
<1>6. ASSUME DrainEnds \/ ServerCloses \/ LockIsReleased PROVE DrainInv'
  <2>1. UNCHANGED vars /\ handler'.waiter = handler.waiter
    BY <1>0, <1>6 DEF DrainEnds, ServerCloses, LockIsReleased, Handlers
  <2> QED
    BY <1>2, <2>1
<1>7. ASSUME RespawnFallsBack \/ LockIsReacquired PROVE DrainInv'
  <2>1. CASE handler' = NoHandler
    BY <1>1, <1>n, <2>1
  <2>2. CASE handler' = [handler EXCEPT !.stage = "reacquire"]
    <3>1. UNCHANGED vars /\ handler'.waiter = handler.waiter
      BY <1>0, <1>7, <2>2 DEF RespawnFallsBack, LockIsReacquired, Handlers
    <3> QED
      BY <1>2, <3>1
  <2> QED
    BY <1>7, <2>1, <2>2 DEF RespawnFallsBack, LockIsReacquired, RestartsInProcess
<1>8. ASSUME RequestStop PROVE DrainInv'
  <2>1. handler'.waiter = NoWaiter
    BY <1>8, <1>n DEF RequestStop, NoHandler
  <2> QED
    BY <1>1, <2>1
<1>9. ASSUME NEW w \in Waiters, NEW p \in BOOLEAN, NEW runs \in BOOLEAN, RequestRestart(w, p, runs)
      PROVE  DrainInv'
  <2>1. UNCHANGED <<phase, taskId, taskGeneration, generation>>
    BY <1>9 DEF RequestRestart, entryVars, laneVars
  <2>2. CASE ActiveIds(activeTaskIds) # {}
    <3>1. handler'.waiter = w /\ waiters' = Asked(w, p)
      BY <1>9, <2>2 DEF RequestRestart
    <3>2. waiters'[w].ids = ActiveIds(activeTaskIds)
      BY <1>0, <3>1, AskedType
    <3>3. \A e \in Entries : phase[e] = "running" /\ taskId[e] \in ActiveIds(activeTaskIds)
                               => taskGeneration[e] = generation[LaneOf[e]]
      BY <1>0, ActiveAreCurrent
    <3> QED
      BY <2>1, <3>1, <3>2, <3>3 DEF DrainInv
  <2>3. CASE ActiveIds(activeTaskIds) = {}
    <3>1. handler'.waiter = NoWaiter
      BY <1>9, <2>3 DEF RequestRestart
    <3> QED
      BY <1>1, <3>1
  <2> QED
    BY <2>2, <2>3
<1> QED
  BY <1>3, <1>4, <1>5, <1>6, <1>7, <1>8, <1>9, RunSplit

-----------------------------------------------------------------------------
(* The invariant. *)
LEMMA RunInvInit == RunInit => RunInv
<1> SUFFICES ASSUME RunInit PROVE RunInv
  OBVIOUS
<1>1. IInv
  BY IInvInit DEF RunInit
<1>2. WaitersInv
  BY DEF RunInit, Init, WaitersInv
<1>3. RunTypeOK
  BY <1>1 DEF RunInit, RunTypeOK, IInv, Loops, Handlers, Stages, NoHandler
<1>4. HandlerInv /\ LockInv /\ DrainInv
  BY DEF RunInit, HandlerInv, LockInv, DrainInv, NoHandler
<1> QED
  BY <1>1, <1>2, <1>3, <1>4 DEF RunInv

LEMMA RunInvStep == RunInv /\ [RunNext]_allVars => RunInv'
<1> SUFFICES ASSUME RunInv, [RunNext]_allVars PROVE RunInv'
  OBVIOUS
<1>1. IInv' /\ WaitersInv'
  BY LanesStep
<1>2. RunTypeOK'
  <2>1. TypeOK' /\ RunTypeOK
    BY <1>1 DEF IInv, RunInv
  <2> QED
    BY <2>1, RunTypeKept
<1>3. HandlerInv' /\ LockInv' /\ DrainInv'
  BY HandlerKept, LockKept, DrainKept
<1> QED
  BY <1>1, <1>2, <1>3 DEF RunInv

(* In every behaviour of the run loop the lanes keep their invariants and   *)
(* the handler, the lock and the drain keep theirs.                        *)
THEOREM RunInvAlways == RunSpec => []RunInv
BY RunInvInit, RunInvStep, PTL DEF RunSpec

(* Nothing the run loop does to the lanes, with its marks, waits and resets, *)
(* keeps them from starting their entries in order and within their limits.*)
THEOREM RunLanesAreFifo == RunSpec => LanesAreFifo
<1>1. RunInit => Fifo!FifoInit
  BY FifoBegins DEF RunInit
<1>2. RunInv /\ [RunNext]_allVars => [Fifo!FifoNext]_(Fifo!fifoVars)
  <2> SUFFICES ASSUME RunInv, [RunNext]_allVars PROVE [Fifo!FifoNext]_(Fifo!fifoVars)
    OBVIOUS
  <2>1. ASSUME NEW w \in Waiters, NEW p \in BOOLEAN, NEW runs \in BOOLEAN, RequestRestart(w, p, runs)
        PROVE  UNCHANGED Fifo!fifoVars
    BY <2>1 DEF RequestRestart, Fifo!fifoVars, Came, CurrentRuns, laneVars, entryVars
  <2> QED
    BY <2>1, LanesMove, FifoStep DEF RunInv
<1> QED
  BY <1>1, <1>2, RunInvAlways, PTL DEF RunSpec, LanesAreFifo, Fifo!FifoSpec

(* The run loop's state keeps its type; shuttingDown is set exactly while a *)
(* request is being handled.                                               *)
THEOREM RunTypeCorrect == RunSpec => []RunTypeOK
<1>1. RunInv => RunTypeOK
  BY DEF RunInv
<1> QED
  BY RunInvAlways, <1>1, PTL

(* A process that exits with 0, stopped or respawned, has released the      *)
(* gateway lock.                                                           *)
THEOREM CleanExitReleases == RunSpec => []CleanExitReleasesLock
<1>1. RunInv => CleanExitReleasesLock
  BY DEF RunInv, LockInv, CleanExitReleasesLock
<1> QED
  BY RunInvAlways, <1>1, PTL

(* When a restart's wait was answered "drained", the server is closed while *)
(* no task it waited for runs: not one of this generation, because the     *)
(* answer is true, and not a stale one, because nothing was reset since.   *)
THEOREM DrainCloses == RunSpec => []ClosesAfterDrain
<1>1. RunInv => ClosesAfterDrain
  <2> SUFFICES ASSUME RunInv, handler.waiter # NoWaiter, waiters[handler.waiter].state = "drained",
                      NEW e \in Entries, phase[e] = "running", taskId[e] \in waiters[handler.waiter].ids
               PROVE  FALSE
    BY DEF ClosesAfterDrain
  <2>1. handler.waiter \in Waiters /\ LaneOf[e] \in Lanes
    BY CommandLanesAssumption DEF CommandLanesAssumption, RunInv, RunTypeOK, Handlers
  <2>2. e \in CurrentRuns(LaneOf[e])
    BY DEF RunInv, DrainInv, CurrentRuns
  <2>3. taskId[e] \in activeTaskIds[LaneOf[e]]
    BY <2>1, <2>2 DEF RunInv, IInv, SlotsMatchRuns
  <2>4. taskId[e] \in ActiveIds(activeTaskIds)
    BY <2>1, <2>3 DEF ActiveIds
  <2> QED
    BY <2>1, <2>4 DEF RunInv, WaitersInv
<1> QED
  BY RunInvAlways, <1>1, PTL

(* From a restart's request to the next iteration of the loop, no new       *)
(* command is accepted into a lane.                                        *)
THEOREM RefusedDuringRestart == RunSpec => RefusedWhileRestarting
<1>1. ASSUME RunInv, [RunNext]_allVars, handler.restart, NEW e \in Entries, phase[e] = "new"
      PROVE  phase'[e] \in {"new", "refused"}
  <2>1. CASE LaneStep
    <3>1. EntryKept(e)
      BY <1>1, <2>1, LaneAloneKeeps DEF RunInv, IInv, LaneStep, LaneAlone
    <3>2. gatewayDraining
      BY <1>1 DEF RunInv, HandlerInv
    <3> QED
      BY <1>1, <3>1, <3>2 DEF EntryKept
  <2>2. CASE UNCHANGED phase
    BY <1>1, <2>2
  <2>3. LaneStep \/ UNCHANGED phase
    <3>1. Iterate => UNCHANGED phase
      BY DEF Iterate, OnIteration, ResetAllLanes, ResetPass, vars, entryVars
    <3>2. UNCHANGED vars => UNCHANGED phase
      BY DEF vars, entryVars
    <3>3. (\E w \in Waiters, p, runs \in BOOLEAN : RequestRestart(w, p, runs)) => UNCHANGED phase
      BY DEF RequestRestart, entryVars
    <3>4. \/ LaneStep \/ Iterate \/ UNCHANGED vars
          \/ \E w \in Waiters, p, runs \in BOOLEAN : RequestRestart(w, p, runs)
      <4>1. /\ StartSucceeds \/ StartFails \/ FailedStartWaits => UNCHANGED vars
            /\ DrainEnds \/ ServerCloses \/ ForceExit \/ LockIsReleased => UNCHANGED vars
        BY DEF StartSucceeds, StartFails, FailedStartWaits, DrainEnds, ServerCloses, ForceExit, LockIsReleased
      <4>2. /\ RespawnExits \/ RespawnFallsBack \/ LockIsReacquired \/ LockIsTaken => UNCHANGED vars
            /\ RequestStop \/ UNCHANGED allVars => UNCHANGED vars
        BY DEF RespawnExits, RespawnFallsBack, LockIsReacquired, LockIsTaken, RequestStop, allVars
      <4> QED
        BY <1>1, <4>1, <4>2, RunSplit
    <3> QED
      BY <3>1, <3>2, <3>3, <3>4
  <2> QED
    BY <2>1, <2>2, <2>3
<1>2. RunInv /\ [RunNext]_allVars
      => [handler.restart => \A e \in Entries : phase[e] = "new" => phase'[e] \in {"new", "refused"}]_allVars
  BY <1>1
<1> QED
  BY RunInvAlways, <1>2, PTL DEF RunSpec, RefusedWhileRestarting

-----------------------------------------------------------------------------
(* Without a signal during start() the handler has the waiting loop to      *)
(* itself, and a drain is forgotten when the loop iterates.                *)
DrainingInv ==
  /\ DrainingMeansRestarting
  /\ handler.stage # "none" => loop = "waiting"
  /\ handler.restart => handler.stage # "none"
  /\ isFirstStart => ~gatewayDraining /\ loop \in {"iterate", "starting"}

LEMMA DrainingKept ==
  ASSUME ~RestartDuringStart, DrainingInv, RunInv, [RunNext]_allVars
  PROVE  DrainingInv'
<1> USE DEF DrainingInv, DrainingMeansRestarting, Alive
<1>0. handler \in Handlers /\ (shuttingDown <=> handler.stage # "none")
  BY DEF RunInv, RunTypeOK
<1>1. CASE LaneStep
  <2>1. UNCHANGED gatewayDraining
    BY <1>1, LaneAloneKeeps DEF RunInv, IInv, LaneStep, LaneAlone
  <2> QED
    BY <1>1, <2>1 DEF LaneStep, runVars
<1>2. CASE Iterate
  <2>1. handler = NoHandler /\ handler' = NoHandler /\ loop' = "starting" /\ isFirstStart' = isFirstStart
    BY <1>2 DEF Iterate, RunInv, HandlerInv
  <2>2. gatewayDraining' = FALSE
    <3>1. isFirstStart => gatewayDraining' = FALSE
      <4>1. UNCHANGED vars \/ gatewayDraining' = FALSE
        BY <1>2 DEF Iterate, OnIteration, ResetAllLanes, ResetPass
      <4>2. isFirstStart => ~gatewayDraining
        OBVIOUS
      <4>3. gatewayDraining \in BOOLEAN
        BY DEF RunInv, RunTypeOK, TypeOK
      <4> QED
        BY <4>1, <4>2, <4>3 DEF vars
    <3>2. ~isFirstStart => gatewayDraining' = FALSE
      BY <1>2 DEF Iterate, OnIteration, ResetAllLanes, ResetPass
    <3> QED
      BY <3>1, <3>2
  <2> QED
    BY <2>1, <2>2 DEF NoHandler
<1>3. CASE StartSucceeds
  BY <1>3 DEF StartSucceeds, vars
<1>4. CASE StartFails
  BY <1>4 DEF StartFails, vars
<1>5. CASE FailedStartWaits
  BY <1>5 DEF FailedStartWaits, vars
<1>6. CASE \/ DrainEnds \/ ServerCloses \/ ForceExit \/ LockIsReleased
           \/ RespawnExits \/ LockIsTaken
  <2>1. handler'.restart = handler.restart /\ handler.stage # "none"
    BY <1>0, <1>6 DEF DrainEnds, ServerCloses, ForceExit, LockIsReleased, RespawnExits, LockIsTaken, Handlers
  <2>2. UNCHANGED <<gatewayDraining, loop, isFirstStart>>
    BY <1>6 DEF DrainEnds, ServerCloses, ForceExit, LockIsReleased, RespawnExits, LockIsTaken, vars
  <2>3. exitCode = -1
    BY <1>6 DEF DrainEnds, ServerCloses, ForceExit, LockIsReleased, RespawnExits, LockIsTaken
  <2>4. loop = "waiting" /\ loop' = "waiting" /\ ~isFirstStart'
    BY <2>1, <2>2
  <2>5. gatewayDraining => handler.restart
    BY <2>3, <2>4
  <2>6. DrainingMeansRestarting'
    BY <2>1, <2>2, <2>5
  <2> QED
    BY <1>0, <1>6, <2>1, <2>4, <2>6
       DEF DrainEnds, ServerCloses, ForceExit, LockIsReleased, RespawnExits, LockIsTaken,
           Handlers, CloseStage
<1>7. CASE RespawnFallsBack \/ LockIsReacquired
  <2>1. UNCHANGED <<gatewayDraining, isFirstStart, exitCode>> /\ handler.stage # "none" /\ loop = "waiting"
    BY <1>7 DEF RespawnFallsBack, LockIsReacquired, vars
  <2>2. \/ handler' = NoHandler /\ loop' = "iterate"
        \/ handler' = [handler EXCEPT !.stage = "reacquire"] /\ UNCHANGED loop
    BY <1>7, <2>1 DEF RespawnFallsBack, LockIsReacquired, RestartsInProcess
  <2>3. CASE handler' = NoHandler /\ loop' = "iterate"
    BY <2>1, <2>3 DEF NoHandler
  <2>4. CASE handler' = [handler EXCEPT !.stage = "reacquire"] /\ UNCHANGED loop
    <3>1. handler'.restart = handler.restart /\ handler'.stage = "reacquire"
      BY <1>0, <2>4 DEF Handlers
    <3> QED
      BY <2>1, <2>4, <3>1
  <2> QED
    BY <2>2, <2>3, <2>4
<1>8. CASE RequestStop
  <2>1. loop = "waiting" /\ ~shuttingDown /\ exitCode = -1
    BY <1>8 DEF RequestStop, SignalPossible
  <2>2. ~handler.restart
    BY <1>0, <2>1
  <2>3. ~gatewayDraining
    BY <2>1, <2>2
  <2>4. UNCHANGED <<gatewayDraining, loop, isFirstStart>>
    BY <1>8 DEF RequestStop, vars
  <2>5. handler'.restart = FALSE
    BY <1>8 DEF RequestStop, NoHandler
  <2> QED
    BY <2>1, <2>3, <2>4, <2>5
<1>9. CASE \E w \in Waiters, p, runs \in BOOLEAN : RequestRestart(w, p, runs)
  <2>1. /\ loop = "waiting" /\ UNCHANGED <<loop, isFirstStart>>
        /\ handler'.restart = TRUE /\ handler'.stage # "none"
    BY <1>9 DEF RequestRestart, SignalPossible, CloseStage
  <2> QED
    BY <2>1
<1>10. CASE UNCHANGED allVars
  BY <1>10 DEF allVars, runVars, vars
<1> QED
  BY <1>1, <1>2, <1>3, <1>4, <1>5, <1>6, <1>7, <1>8, <1>9, <1>10, RunSplit

(* If no signal arrives while start() is pending, the lanes refuse work     *)
(* only while a restart is handled: the hypothesis that a run shows needed.*)
THEOREM DrainingOnlyWhileRestarting == ~RestartDuringStart => (RunSpec => []DrainingMeansRestarting)
<1> SUFFICES ASSUME ~RestartDuringStart PROVE RunSpec => []DrainingMeansRestarting
  OBVIOUS
<1>1. RunInit => DrainingInv
  BY DEF RunInit, Init, DrainingInv, DrainingMeansRestarting, NoHandler
<1>2. DrainingInv /\ RunInv /\ [RunNext]_allVars => DrainingInv'
  BY DrainingKept
<1>3. DrainingInv => DrainingMeansRestarting
  BY DEF DrainingInv
<1> QED
  BY <1>1, <1>2, <1>3, RunInvAlways, PTL DEF RunSpec

-----------------------------------------------------------------------------
(* The restart scheduler. *)

(* What an emission does to the run loop: nothing, or a restart request. *)
LEMMA EmissionIsRequest ==
  ASSUME NEW w \in Waiters, NEW positive \in BOOLEAN, NEW runs \in BOOLEAN,
         EmitGatewayRestart(w, positive, runs)
  PROVE  /\ [Request]_allVars
         /\ pendingRestartTimer' = NoTimer /\ activeDeferralPolls' = {} /\ cooldown' = Cooldown
         /\ shuttingDown'
<1>1. CASE shuttingDown
  <2>1. UNCHANGED allVars
    BY <1>1 DEF EmitGatewayRestart
  <2>2. UNCHANGED shuttingDown
    BY <2>1 DEF allVars, runVars
  <2> QED
    BY <1>1, <2>1, <2>2 DEF EmitGatewayRestart
<1>2. CASE ~shuttingDown
  <2>1. MoreRestarts /\ RequestRestart(w, positive, runs)
    BY <1>2 DEF EmitGatewayRestart
  <2>2. Request
    BY <2>1 DEF Request
  <2>3. shuttingDown'
    BY <2>1 DEF RequestRestart
  <2> QED
    BY <2>2, <2>3 DEF EmitGatewayRestart
<1> QED
  BY <1>1, <1>2

(* A step of the gateway by name. *)
LEMMA RestartSplit ==
  ASSUME [RestartNext]_restartVars
  PROVE  \/ ServerStarts
         \/ \E delay \in Delays : ScheduleGatewaySigusr1Restart(delay)
         \/ \E w \in Waiters, positive, other \in BOOLEAN : RequestGatewayRestart(w, positive, other)
         \/ Tick
         \/ \E w \in Waiters, positive, other \in BOOLEAN : ScheduledTimeComes(w, positive, other)
         \/ \E p \in Pollers, w \in Waiters, positive, runs \in BOOLEAN : PollEmits(p, w, positive, runs)
         \/ [RunNext]_allVars /\ ~StartSucceeds /\ UNCHANGED schedulerVars
<1>0. 0 \in Delays
  BY GatewayRestartAssumption DEF GatewayRestartAssumption
<1>1. StartSucceeds => server' = TRUE /\ loop = "starting" /\ loop' = "waiting"
  BY DEF StartSucceeds
<1>2. Iterate \/ StartFails \/ FailedStartWaits => ~StartSucceeds
  <2>1. /\ Iterate => loop = "iterate"
        /\ StartFails => server' = FALSE
        /\ FailedStartWaits => loop = "failed"
    BY DEF Iterate, StartFails, FailedStartWaits
  <2> QED
    BY <1>1, <2>1
<1>3. LaneStep \/ HandlerStep \/ RequestStop => ~StartSucceeds
  <2>1. LaneStep => loop' = loop
    BY DEF LaneStep, runVars
  <2>2. HandlerStep => loop' = loop \/ loop' = "iterate"
    BY DEF HandlerStep, DrainEnds, ServerCloses, ForceExit, LockIsReleased, RespawnExits,
           RespawnFallsBack, LockIsReacquired, LockIsTaken, RestartsInProcess
  <2>3. RequestStop => loop' = loop
    BY DEF RequestStop
  <2> QED
    BY <1>1, <2>1, <2>2, <2>3
<1>4. UNCHANGED allVars => ~StartSucceeds
  BY <1>1 DEF allVars, runVars
<1>5. CASE UNCHANGED restartVars
  BY <1>4, <1>5 DEF restartVars
<1>6. CASE LoopSteps
  BY <1>2, <1>6 DEF LoopSteps, RunNext, LoopStep
<1>7. CASE RequestSteps
  BY <1>0, <1>7 DEF RequestSteps, RestartIsRequested, ExternalSigusr1
<1>8. CASE TimerSteps
  BY <1>8 DEF TimerSteps
<1>9. CASE (LaneStep \/ HandlerStep \/ RequestStop) /\ UNCHANGED schedulerVars
  BY <1>3, <1>9 DEF RunNext, Request
<1> QED
  BY <1>5, <1>6, <1>7, <1>8, <1>9 DEF RestartNext

(* Every step of the gateway is a step of the run loop, or leaves it alone. *)
LEMMA StepIsRunStep ==
  ASSUME [RestartNext]_restartVars
  PROVE  [RunNext]_allVars
<1>1. ServerStarts => RunNext
  BY DEF ServerStarts, RunNext, LoopStep
<1>2. (\E delay \in Delays : ScheduleGatewaySigusr1Restart(delay)) => UNCHANGED allVars
  BY DEF ScheduleGatewaySigusr1Restart
<1>3. ASSUME NEW w \in Waiters, NEW positive \in BOOLEAN, NEW other \in BOOLEAN,
             RequestGatewayRestart(w, positive, other) \/ ScheduledTimeComes(w, positive, other)
      PROVE  [RunNext]_allVars
  <2>1. UNCHANGED allVars \/ EmitGatewayRestart(w, positive, FALSE)
    BY <1>3 DEF RequestGatewayRestart, ScheduledTimeComes
  <2> QED
    BY <2>1, EmissionIsRequest DEF RunNext
<1>4. Tick => UNCHANGED allVars
  BY DEF Tick
<1>5. ASSUME NEW p \in Pollers, NEW w \in Waiters, NEW positive \in BOOLEAN, NEW runs \in BOOLEAN,
             PollEmits(p, w, positive, runs)
      PROVE  [RunNext]_allVars
  BY <1>5, EmissionIsRequest DEF PollEmits, RunNext
<1> QED
  BY RestartSplit, <1>1, <1>2, <1>3, <1>4, <1>5

(* The gateway with its scheduler is a run loop: whatever the scheduler and *)
(* the config watcher do, they only choose when to request a restart.      *)
THEOREM RestartImplementsRunLoop == RestartSpec => RunSpec
<1>1. RestartInit => RunInit
  BY DEF RestartInit
<1>2. [RestartNext]_restartVars => [RunNext]_allVars
  BY StepIsRunStep
<1> QED
  BY <1>1, <1>2, PTL DEF RestartSpec, RunSpec

(* So its clean exits release the lock, *)
THEOREM GatewayReleasesLock == RestartSpec => []CleanExitReleasesLock
BY RestartImplementsRunLoop, CleanExitReleases, PTL

(* its drains end before the server closes on them, *)
THEOREM GatewayClosesAfterDrain == RestartSpec => []ClosesAfterDrain
BY RestartImplementsRunLoop, DrainCloses, PTL

(* no command is accepted while a restart is handled. *)
THEOREM GatewayRefuses == RestartSpec => RefusedWhileRestarting
BY RestartImplementsRunLoop, RefusedDuringRestart, PTL

(* and its lanes start their entries in order, within their limits. *)
THEOREM GatewayLanesAreFifo == RestartSpec => LanesAreFifo
BY RestartImplementsRunLoop, RunLanesAreFifo, PTL

-----------------------------------------------------------------------------
SchedulerTypeOK ==
  /\ pendingRestartTimer \in Nat \cup {NoTimer}
  /\ cooldown \in 0..Cooldown
  /\ activeDeferralPolls \subseteq Pollers
  /\ restartPending \in BOOLEAN
  /\ requests \in 0..MaxRequests

(* PendingIsPolled needs that a failed start leaves no server. *)
SchedulerInv ==
  /\ SchedulerTypeOK
  /\ ScheduledRestartsCoolDown
  /\ PendingIsPolled
  /\ loop = "failed" => ~server

(* What the other steps of the run loop do to the parts SchedulerInv reads:*)
(* none ends a shutdown with the loop waiting, brings a server up or       *)
(* revives the process.                                                    *)
LEMMA RunStepKeeps ==
  ASSUME [RunNext]_allVars, ~StartSucceeds, loop = "failed" => ~server
  PROVE  /\ loop' = "failed" => ~server'
         /\ Alive' /\ server' /\ loop' = "waiting" =>
              Alive /\ server /\ loop = "waiting" /\ (shuttingDown => shuttingDown')
<1>1. LaneStep => UNCHANGED runVars
  BY DEF LaneStep
<1>2. UNCHANGED allVars => UNCHANGED runVars
  BY DEF allVars
<1>3. UNCHANGED runVars => UNCHANGED <<Alive, server, loop, shuttingDown>>
  BY DEF runVars, Alive
<1>4. CASE LaneStep \/ UNCHANGED allVars
  BY <1>1, <1>2, <1>3, <1>4
<1>5. CASE Iterate \/ StartFails \/ FailedStartWaits
  BY <1>5 DEF Iterate, StartFails, FailedStartWaits, Alive
<1>6. CASE DrainEnds \/ ServerCloses \/ ForceExit \/ LockIsReleased
  BY <1>6 DEF DrainEnds, ServerCloses, ForceExit, LockIsReleased, Alive
<1>7. CASE RespawnExits \/ RespawnFallsBack \/ LockIsReacquired \/ LockIsTaken
  BY <1>7 DEF RespawnExits, RespawnFallsBack, LockIsReacquired, LockIsTaken, RestartsInProcess, Alive
<1>8. CASE RequestStop \/ \E w \in Waiters, p, runs \in BOOLEAN : RequestRestart(w, p, runs)
  BY <1>8 DEF RequestStop, RequestRestart, Alive
<1> QED
  BY <1>4, <1>5, <1>6, <1>7, <1>8, RunSplit

(* After an emission the scheduler is empty and a restart is handled. *)
LEMMA EmissionKeeps ==
  ASSUME SchedulerInv, NEW w \in Waiters, NEW positive \in BOOLEAN, NEW runs \in BOOLEAN,
         EmitGatewayRestart(w, positive, runs),
         requests' \in 0..MaxRequests, restartPending' \in BOOLEAN
  PROVE  SchedulerInv'
<1>1. /\ pendingRestartTimer' = NoTimer /\ activeDeferralPolls' = {} /\ cooldown' = Cooldown
      /\ shuttingDown'
  BY EmissionIsRequest
<1>2. loop' = loop /\ server' = server
  <2>1. UNCHANGED allVars => loop' = loop /\ server' = server
    BY DEF allVars, runVars
  <2> QED
    BY <2>1 DEF EmitGatewayRestart, RequestRestart
<1>3. Cooldown \in 0..Cooldown
  BY GatewayRestartAssumption DEF GatewayRestartAssumption
<1>4. SchedulerTypeOK'
  BY <1>1, <1>3 DEF SchedulerTypeOK
<1>5. ScheduledRestartsCoolDown'
  BY <1>1 DEF ScheduledRestartsCoolDown
<1>6. PendingIsPolled'
  BY <1>1 DEF PendingIsPolled
<1> QED
  BY <1>2, <1>4, <1>5, <1>6 DEF SchedulerInv

(* A step that leaves the run loop alone disturbs PendingIsPolled only if   *)
(* it sets the flag or clears the watcher's poll.                          *)
LEMMA QuietPolled ==
  ASSUME PendingIsPolled, loop = "failed" => ~server, UNCHANGED allVars,
         restartPending' => restartPending \/ "watcher" \in activeDeferralPolls',
         "watcher" \in activeDeferralPolls => "watcher" \in activeDeferralPolls'
  PROVE  PendingIsPolled' /\ (loop' = "failed" => ~server')
<1>1. UNCHANGED <<Alive, server, loop, shuttingDown>>
  BY DEF allVars, runVars, Alive
<1> QED
  BY <1>1 DEF PendingIsPolled

LEMMA SchedulerInvStep == SchedulerInv /\ [RestartNext]_restartVars => SchedulerInv'
<1> SUFFICES ASSUME SchedulerInv, [RestartNext]_restartVars PROVE SchedulerInv'
  OBVIOUS
<1> USE GatewayRestartAssumption DEF GatewayRestartAssumption
<1>t. SchedulerTypeOK /\ ScheduledRestartsCoolDown /\ PendingIsPolled /\ (loop = "failed" => ~server)
  BY DEF SchedulerInv
<1>1. CASE ServerStarts
  <2>1. restartPending' = FALSE /\ loop' = "waiting"
        /\ UNCHANGED <<pendingRestartTimer, cooldown, activeDeferralPolls, requests>>
    BY <1>1 DEF ServerStarts, StartSucceeds
  <2>2. SchedulerTypeOK' /\ ScheduledRestartsCoolDown'
    BY <1>t, <2>1 DEF SchedulerTypeOK, ScheduledRestartsCoolDown
  <2>3. PendingIsPolled'
    BY <2>1 DEF PendingIsPolled
  <2> QED
    BY <2>1, <2>2, <2>3 DEF SchedulerInv
<1>2. ASSUME NEW delay \in Delays, ScheduleGatewaySigusr1Restart(delay) PROVE SchedulerInv'
  <2>1. /\ requests \in 0..MaxRequests /\ requests < MaxRequests /\ requests' = requests + 1
        /\ UNCHANGED <<cooldown, activeDeferralPolls, restartPending>> /\ UNCHANGED allVars
    BY <1>2, <1>t DEF ScheduleGatewaySigusr1Restart, SchedulerTypeOK
  <2>2. delay + cooldown \in Nat /\ delay + cooldown >= cooldown
    BY <1>t DEF SchedulerTypeOK
  <2>3. pendingRestartTimer' \in Nat /\ pendingRestartTimer' >= cooldown
    BY <1>2, <1>t, <2>2 DEF ScheduleGatewaySigusr1Restart, SchedulerTypeOK, ScheduledRestartsCoolDown
  <2>4. SchedulerTypeOK'
    BY <1>t, <2>1, <2>3 DEF SchedulerTypeOK
  <2>5. ScheduledRestartsCoolDown'
    BY <1>t, <2>1, <2>3 DEF ScheduledRestartsCoolDown
  <2> QED
    BY <1>t, <2>1, <2>4, <2>5, QuietPolled DEF SchedulerInv
<1>3. ASSUME NEW w \in Waiters, NEW positive \in BOOLEAN, NEW other \in BOOLEAN,
             RequestGatewayRestart(w, positive, other)
      PROVE  SchedulerInv'
  <2>1. requests' \in 0..MaxRequests
    BY <1>3, <1>t DEF RequestGatewayRestart, SchedulerTypeOK
  <2>2. CASE Pending(other)
    <3>1. /\ restartPending' = TRUE /\ UNCHANGED <<pendingRestartTimer, cooldown>> /\ UNCHANGED allVars
          /\ activeDeferralPolls' =
               IF restartPending THEN activeDeferralPolls ELSE activeDeferralPolls \cup {"watcher"}
      BY <1>3, <2>2 DEF RequestGatewayRestart
    <3>2. SchedulerTypeOK'
      BY <1>t, <2>1, <3>1 DEF SchedulerTypeOK, Pollers
    <3>3. ScheduledRestartsCoolDown'
      BY <1>t, <3>1 DEF ScheduledRestartsCoolDown
    <3> QED
      BY <1>t, <3>1, <3>2, <3>3, QuietPolled DEF SchedulerInv
  <2>3. CASE ~Pending(other)
    <3>1. EmitGatewayRestart(w, positive, FALSE) /\ restartPending' \in BOOLEAN
      BY <1>3, <1>t, <2>3 DEF RequestGatewayRestart, SchedulerTypeOK
    <3> QED
      BY <2>1, <3>1, EmissionKeeps
  <2> QED
    BY <2>2, <2>3
<1>4. CASE Tick
  <2>1. /\ cooldown' = Earlier(cooldown) /\ pendingRestartTimer' = Earlier(pendingRestartTimer)
        /\ UNCHANGED <<activeDeferralPolls, restartPending, requests>> /\ UNCHANGED allVars
    BY <1>4 DEF Tick
  <2>2. SchedulerTypeOK' /\ ScheduledRestartsCoolDown'
    BY <1>t, <2>1 DEF SchedulerTypeOK, ScheduledRestartsCoolDown, Earlier, NoTimer
  <2> QED
    BY <1>t, <2>1, <2>2, QuietPolled DEF SchedulerInv
<1>5. ASSUME NEW w \in Waiters, NEW positive \in BOOLEAN, NEW other \in BOOLEAN,
             ScheduledTimeComes(w, positive, other)
      PROVE  SchedulerInv'
  <2>1. requests' \in 0..MaxRequests /\ restartPending' = restartPending /\ restartPending \in BOOLEAN
    BY <1>5, <1>t DEF ScheduledTimeComes, SchedulerTypeOK
  <2>2. CASE Pending(other)
    <3>1. /\ pendingRestartTimer = 0 /\ pendingRestartTimer' = NoTimer /\ UNCHANGED cooldown
          /\ activeDeferralPolls' = activeDeferralPolls \cup {"schedule"} /\ UNCHANGED allVars
      BY <1>5, <2>2 DEF ScheduledTimeComes
    <3>2. SchedulerTypeOK' /\ cooldown = 0
      BY <1>t, <2>1, <3>1 DEF SchedulerTypeOK, ScheduledRestartsCoolDown, Pollers, NoTimer
    <3>3. ScheduledRestartsCoolDown'
      BY <3>1, <3>2 DEF ScheduledRestartsCoolDown
    <3> QED
      BY <1>t, <2>1, <3>1, <3>2, <3>3, QuietPolled DEF SchedulerInv
  <2>3. CASE ~Pending(other)
    <3>1. EmitGatewayRestart(w, positive, FALSE)
      BY <1>5, <2>3 DEF ScheduledTimeComes
    <3> QED
      BY <2>1, <3>1, EmissionKeeps
  <2> QED
    BY <2>2, <2>3
<1>6. ASSUME NEW p \in Pollers, NEW w \in Waiters, NEW positive \in BOOLEAN, NEW runs \in BOOLEAN,
             PollEmits(p, w, positive, runs)
      PROVE  SchedulerInv'
  <2>1. EmitGatewayRestart(w, positive, runs) /\ requests' \in 0..MaxRequests
    BY <1>6, <1>t DEF PollEmits, SchedulerTypeOK
  <2>2. restartPending' \in BOOLEAN
    BY <1>6 DEF PollEmits
  <2> QED
    BY <2>1, <2>2, EmissionKeeps
<1>7. CASE [RunNext]_allVars /\ ~StartSucceeds /\ UNCHANGED schedulerVars
  <2>1. UNCHANGED <<pendingRestartTimer, cooldown, activeDeferralPolls, restartPending, requests>>
    BY <1>7 DEF schedulerVars
  <2>2. SchedulerTypeOK' /\ ScheduledRestartsCoolDown'
    BY <1>t, <2>1 DEF SchedulerTypeOK, ScheduledRestartsCoolDown
  <2>3. PendingIsPolled' /\ (loop' = "failed" => ~server')
    BY <1>7, <1>t, <2>1, RunStepKeeps DEF PendingIsPolled
  <2> QED
    BY <2>2, <2>3 DEF SchedulerInv
<1> QED
  BY <1>1, <1>2, <1>3, <1>4, <1>5, <1>6, <1>7, RestartSplit

THEOREM SchedulerInvAlways == RestartSpec => []SchedulerInv
<1>1. RestartInit => SchedulerInv
  <2> SUFFICES ASSUME RestartInit PROVE SchedulerInv
    OBVIOUS
  <2>1. /\ pendingRestartTimer = NoTimer /\ cooldown = 0 /\ activeDeferralPolls = {}
        /\ restartPending = FALSE /\ requests = 0
    BY DEF RestartInit
  <2>2. loop = "iterate" /\ server = FALSE
    BY DEF RestartInit, RunInit
  <2>3. SchedulerTypeOK
    <3>1. 0 \in 0..Cooldown /\ 0 \in 0..MaxRequests
      BY GatewayRestartAssumption DEF GatewayRestartAssumption
    <3>2. activeDeferralPolls \subseteq Pollers
      BY <2>1
    <3> QED
      BY <2>1, <3>1, <3>2 DEF SchedulerTypeOK
  <2>4. ScheduledRestartsCoolDown /\ PendingIsPolled
    BY <2>1 DEF ScheduledRestartsCoolDown, PendingIsPolled
  <2> QED
    BY <2>2, <2>3, <2>4 DEF SchedulerInv
<1> QED
  BY <1>1, SchedulerInvStep, PTL DEF RestartSpec

(* The gateway with its scheduler keeps its types. *)
THEOREM RestartTypeCorrect == RestartSpec => []RestartTypeOK
<1>1. SchedulerInv /\ RunTypeOK => RestartTypeOK
  BY DEF SchedulerInv, SchedulerTypeOK, RestartTypeOK
<1> QED
  BY <1>1, SchedulerInvAlways, RestartImplementsRunLoop, RunTypeCorrect, PTL

(* No scheduled restart is emitted within the cooldown of another emission. *)
THEOREM RestartsCoolDown == RestartSpec => []ScheduledRestartsCoolDown
<1>1. SchedulerInv => ScheduledRestartsCoolDown
  BY DEF SchedulerInv
<1> QED
  BY <1>1, SchedulerInvAlways, PTL

(* A config change that was told to wait is polled for, or restarts now. *)
THEOREM ConfigRestartIsPending == RestartSpec => []PendingIsPolled
<1>1. SchedulerInv => PendingIsPolled
  BY DEF SchedulerInv
<1> QED
  BY <1>1, SchedulerInvAlways, PTL
=============================================================================
