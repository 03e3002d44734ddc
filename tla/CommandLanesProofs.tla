------------------------- MODULE CommandLanesProofs -------------------------
(***************************************************************************)
(* Proofs, for any lanes, entries, waiters, limits and number of restarts, *)
(* that the command queue keeps its types, that a lane's slots are exactly *)
(* its current runs, that a session lane is serial, that no wake-up is     *)
(* lost, that waitForActiveTasks answers its callers truly, and that the   *)
(* lanes implement the bounded first-in first-out lanes of FifoLanes.      *)
(***************************************************************************)
EXTENDS CommandLanes, FiniteSetTheorems, SequenceTheorems, TLAPS

(* A frame of the call stack st that will still look at lane l. *)
PumpOn(st, l)  == \E i \in 1..Len(st) : st[i] = PumpFrame(l)
ResetOn(st, l) == \E i \in 1..Len(st) : st[i].op = "reset" /\ l \in st[i].lanes

(* The entries in a lane's queue are queued there, once each. *)
QueueInv ==
  \A l \in Lanes : \A i \in 1..Len(queue[l]) :
    /\ phase[queue[l][i]] = "queued" /\ LaneOf[queue[l][i]] = l
    /\ \A j \in 1..Len(queue[l]) : queue[l][i] = queue[l][j] => i = j

(* Ids grow, and running entries have different ids, none of a generation  *)
(* to come.                                                                *)
IdsInv ==
  /\ \A e \in Entries : taskId[e] < nextTaskId
  /\ \A e, f \in Entries :
       phase[e] = "running" /\ phase[f] = "running" /\ taskId[e] = taskId[f] => e = f
  /\ \A e \in Entries : phase[e] = "running" => taskGeneration[e] <= generation[LaneOf[e]]

(* The entry of each frame of st is in the phase (in ph) the frame stands   *)
(* for, and has no second frame.                                           *)
EntryFrame(f) == f.op \in {"task", "settle"}
FramesOK(st, ph) ==
  \A i \in 1..Len(st) :
    /\ st[i].op = "task" => ph[st[i].entry] = "running"
    /\ st[i].op = "settle" => ph[st[i].entry] = "settling"
    /\ \A j \in 1..Len(st) :
         EntryFrame(st[i]) /\ EntryFrame(st[j]) /\ st[i].entry = st[j].entry => i = j
StackInv == FramesOK(stack, phase)

(* A lane nobody configures keeps the one slot it was created with. *)
OneSlotInv == \A l \in Lanes \ ConfiguredLanes : maxConcurrent[l] = 1

(* A marked lane has its pump on the stack, and a lane that could start an  *)
(* entry has a pump or a reset on the stack that will look at it.          *)
WakeupInv ==
  \A l \in Lanes :
    /\ draining[l] => PumpOn(stack, l)
    /\ MayStart(l) => PumpOn(stack, l) \/ ResetOn(stack, l)

IInv == /\ TypeOK /\ QueueInv /\ IdsInv /\ StackInv
        /\ SlotsMatchRuns /\ OneSlotInv /\ SerialLaneIsSerial /\ WakeupInv

-----------------------------------------------------------------------------
(* The frames are frames, and the stack operations keep the type. *)
LEMMA FrameTypes ==
  /\ \A l \in Lanes : PumpFrame(l) \in Frames
  /\ \A e \in Entries : TaskFrame(e) \in Frames
  /\ \A e \in Entries, o \in Outcomes : SettleFrame(e, o) \in Frames
  /\ \A S \in SUBSET Lanes : ResetFrame(S) \in Frames
BY DEF PumpFrame, TaskFrame, SettleFrame, ResetFrame, Frames

(* What is left of a call stack after a return, and its top, are frames.   *)
LEMMA PoppedType ==
  ASSUME stack \in Seq(Frames), stack # <<>>
  PROVE  /\ Len(stack) \in Nat \ {0}
         /\ Top \in Frames
         /\ Popped \in Seq(Frames)
         /\ Len(Popped) = Len(stack) - 1
         /\ \A i \in 1..Len(Popped) : Popped[i] = stack[i]
<1>1. Len(stack) \in Nat \ {0}
  BY EmptySeq
<1>2. \A i \in 1..Len(stack) : stack[i] \in Frames
  BY ElementOfSeq
<1>3. \A i \in 1..(Len(stack) - 1) : stack[i] \in Frames
  BY <1>1, <1>2
<1>4. PICK n \in Nat : n = Len(stack) - 1
  BY <1>1
<1>5. /\ Popped \in Seq(Frames)
      /\ Len(Popped) = IF 1 <= n THEN n - 1 + 1 ELSE 0
      /\ \A i \in 1..(n - 1 + 1) : Popped[i] = stack[1 + i - 1]
  <2>1. \A i \in 1..n : stack[i] \in Frames
    BY <1>3, <1>4
  <2>2. Popped = SubSeq(stack, 1, n)
    BY <1>4 DEF Popped
  <2> QED
    BY <2>1, <2>2, SubSeqProperties, 1 \in Int, n \in Int
<1>6. Len(Popped) = n /\ \A i \in 1..n : Popped[i] = stack[i]
  BY <1>5
<1> QED
  BY <1>1, <1>2, <1>4, <1>5, <1>6 DEF Top

(* The top frame carries the arguments its kind has: a pump its lane, a task*)
(* its entry, a settlement its outcome, a reset the lanes left to drain.   *)
LEMMA TopTypes ==
  ASSUME stack \in Seq(Frames), stack # <<>>
  PROVE  /\ Top.op = "pump" => Top.lane \in Lanes /\ Top = PumpFrame(Top.lane)
         /\ Top.op = "task" => Top.entry \in Entries /\ Top = TaskFrame(Top.entry)
         /\ Top.op = "settle" => Top.entry \in Entries /\ Top.outcome \in Outcomes
         /\ Top.op = "reset" => Top.lanes \in SUBSET Lanes
BY PoppedType DEF Frames, PumpFrame, TaskFrame

(* drainLane keeps the stack and the draining flags typed.                 *)
LEMMA DrainLaneType ==
  ASSUME TypeOK, NEW l \in Lanes, NEW rest \in Seq(Frames), DrainLane(l, rest)
  PROVE  /\ stack' \in Seq(Frames)
         /\ draining' \in [Lanes -> BOOLEAN]
<1>1. CASE draining[l]
  BY <1>1 DEF DrainLane, TypeOK
<1>2. CASE ~draining[l]
  <2>1. stack' = Append(rest, PumpFrame(l)) /\ draining' = [draining EXCEPT ![l] = TRUE]
    BY <1>2 DEF DrainLane
  <2> QED
    BY <2>1, FrameTypes, AppendProperties DEF TypeOK
<1> QED
  BY <1>1, <1>2

(* notifyActiveTaskWaiters keeps the waiters typed.                        *)
LEMMA NotifiedType ==
  ASSUME TypeOK, NEW act
  PROVE  Notified(waiters, act) \in [Waiters -> [state : WaiterStates, ids : SUBSET Nat]]
BY DEF Notified, TypeOK, WaiterStates

(* A completion, current or stale, keeps what it changes typed.            *)
LEMMA CompleteType ==
  ASSUME TypeOK, NEW e \in Entries, NEW o \in Outcomes, NEW rest \in Seq(Frames),
         Complete(e, o, rest)
  PROVE  TypeOK'
<1>1. LaneOf[e] \in Lanes
  BY CommandLanesAssumption DEF CommandLanesAssumption
<1>2. CASE taskGeneration[e] = generation[LaneOf[e]]
  <2>1. activeTaskIds' \in [Lanes -> SUBSET Nat] /\ \A l \in Lanes : IsFiniteSet(activeTaskIds'[l])
    <3>1. activeTaskIds' = [activeTaskIds EXCEPT ![LaneOf[e]] = @ \ {taskId[e]}]
      BY <1>2 DEF Complete
    <3>2. IsFiniteSet(activeTaskIds[LaneOf[e]] \ {taskId[e]})
      BY <1>1, FS_RemoveElement DEF TypeOK
    <3> QED
      BY <1>1, <3>1, <3>2 DEF TypeOK
  <2>2. waiters' \in [Waiters -> [state : WaiterStates, ids : SUBSET Nat]]
    BY <1>2, NotifiedType DEF Complete
  <2>3. stack' \in Seq(Frames)
    <3>1. Append(rest, SettleFrame(e, o)) \in Seq(Frames)
      BY FrameTypes, AppendProperties
    <3>2. stack' = Append(Append(rest, SettleFrame(e, o)), PumpFrame(LaneOf[e]))
      BY <1>2 DEF Complete
    <3> QED
      BY <1>1, <3>1, <3>2, FrameTypes, AppendProperties
  <2> QED
    BY <1>2, <2>1, <2>2, <2>3 DEF Complete, TypeOK, Phases
<1>3. CASE taskGeneration[e] # generation[LaneOf[e]]
  BY <1>3 DEF Complete, TypeOK, Phases, Outcomes
<1> QED
  BY <1>2, <1>3

(* The module-level state the queue starts with is typed.                  *)
LEMMA TypeInit == Init => TypeOK
<1> SUFFICES ASSUME Init PROVE TypeOK
  OBVIOUS
<1>1. \A l \in Lanes : IsFiniteSet(activeTaskIds[l])
  BY FS_EmptySet DEF Init
<1>2. stack \in Seq(Frames) /\ \A l \in Lanes : queue[l] \in Seq(Entries)
  BY EmptySeq DEF Init
<1>3. queue \in [Lanes -> Seq(Entries)] /\ activeTaskIds \in [Lanes -> SUBSET Nat]
  BY <1>2 DEF Init
<1>4. waiters \in [Waiters -> [state : WaiterStates, ids : SUBSET Nat]]
  BY DEF Init, WaiterStates
<1>5. maxConcurrent \in [Lanes -> Nat \ {0}] /\ generation \in [Lanes -> Nat]
  BY DEF Init
<1>6. draining \in [Lanes -> BOOLEAN] /\ phase \in [Entries -> Phases]
  BY DEF Init, Phases
<1>7. taskId \in [Entries -> Nat] /\ taskGeneration \in [Entries -> Nat]
  BY DEF Init
<1>8. nextTaskId \in Nat \ {0}
  BY DEF Init
<1>9. gatewayDraining \in BOOLEAN
  BY DEF Init
<1> QED
  BY <1>1, <1>2, <1>3, <1>4, <1>5, <1>6, <1>7, <1>8, <1>9 DEF TypeOK

(* The steps of the queue, without the bound on resets: those that change   *)
(* neither queues nor phases, and the others.                              *)
QuietStep ==
  \/ \E l \in Lanes : PumpExit(l) \/ ResetDrainsLane(l)
  \/ TaskAwaits \/ ResetReturns \/ MarkGatewayDraining \/ ResetAllLanes
  \/ \E l \in ConfiguredLanes, n \in ConcurrencyInputs : SetCommandLaneConcurrency(l, n)
  \/ \E w \in Waiters : (\E p \in BOOLEAN : WaitForActiveTasks(w, p)) \/ WaiterTimesOut(w)

LaneAction ==
  \/ \E e \in Entries : EnqueueCommandInLane(e) \/ TaskSettles(e)
  \/ \E l \in Lanes : PumpStart(l) \/ ClearCommandLane(l)
  \/ TaskThrows \/ SettleEntry
  \/ QuietStep
  \/ UNCHANGED vars

LEMMA NextSplit == [Next]_vars => LaneAction
BY DEF Next, SyncStep, UserStep, RestartStep, QuietStep, LaneAction

(* Every call, timer, completion and return of the queue keeps it typed.   *)
LEMMA TypeStep == TypeOK /\ LaneAction => TypeOK'
<1> SUFFICES ASSUME TypeOK, LaneAction PROVE TypeOK'
  OBVIOUS
<1> USE CommandLanesAssumption DEF CommandLanesAssumption
<1>1. ASSUME NEW e \in Entries, EnqueueCommandInLane(e) PROVE TypeOK'
  <2>1. CASE gatewayDraining
    BY <1>1, <2>1 DEF EnqueueCommandInLane, TypeOK, Phases
  <2>2. CASE ~gatewayDraining
    <3>1. LaneOf[e] \in Lanes
      OBVIOUS
    <3>2. queue' \in [Lanes -> Seq(Entries)]
      <4>1. queue' = [queue EXCEPT ![LaneOf[e]] = Append(queue[LaneOf[e]], e)]
        BY <1>1, <2>2 DEF EnqueueCommandInLane
      <4>2. Append(queue[LaneOf[e]], e) \in Seq(Entries)
        BY <3>1, AppendProperties DEF TypeOK
      <4> QED
        BY <3>1, <4>1, <4>2 DEF TypeOK
    <3>3. stack' \in Seq(Frames) /\ draining' \in [Lanes -> BOOLEAN]
      BY <1>1, <2>2, <3>1, DrainLaneType DEF EnqueueCommandInLane, TypeOK
    <3> QED
      BY <1>1, <2>2, <3>2, <3>3 DEF EnqueueCommandInLane, TypeOK, Phases
  <2> QED
    BY <2>1, <2>2
<1>2. ASSUME NEW l \in Lanes, PumpStart(l) PROVE TypeOK'
  <2>1. queue[l] \in Seq(Entries) /\ queue[l] # <<>>
    BY <1>2 DEF PumpStart, MayStart, TypeOK
  <2>2. Head(queue[l]) \in Entries /\ Tail(queue[l]) \in Seq(Entries)
    BY <2>1, HeadTailProperties
  <2>3. stack' \in Seq(Frames)
    BY <1>2, <2>2, FrameTypes, AppendProperties DEF PumpStart, TypeOK
  <2>4. queue' \in [Lanes -> Seq(Entries)]
    BY <1>2, <2>2 DEF PumpStart, TypeOK
  <2>5. activeTaskIds' \in [Lanes -> SUBSET Nat] /\ \A k \in Lanes : IsFiniteSet(activeTaskIds'[k])
    <3>1. activeTaskIds' = [activeTaskIds EXCEPT ![l] = activeTaskIds[l] \cup {nextTaskId}]
      BY <1>2 DEF PumpStart
    <3>2. IsFiniteSet(activeTaskIds[l] \cup {nextTaskId})
      BY FS_AddElement DEF TypeOK
    <3> QED
      BY <3>1, <3>2 DEF TypeOK
  <2>6. /\ phase' \in [Entries -> Phases] /\ taskId' \in [Entries -> Nat]
        /\ taskGeneration' \in [Entries -> Nat]
    BY <1>2, <2>2 DEF PumpStart, TypeOK, Phases
  <2> QED
    BY <1>2, <2>3, <2>4, <2>5, <2>6, nextTaskId + 1 \in Nat \ {0} DEF PumpStart, TypeOK
<1>3. ASSUME NEW l \in Lanes, PumpExit(l) PROVE TypeOK'
  BY <1>3, PoppedType DEF PumpExit, TypeOK, TopIs, entryVars
<1>4. ASSUME TaskAwaits PROVE TypeOK'
  BY <1>4, PoppedType DEF TaskAwaits, TypeOK, TopIs, entryVars, laneVars
<1>5. ASSUME TaskThrows PROVE TypeOK'
  BY <1>5, PoppedType, TopTypes, CompleteType DEF TaskThrows, TypeOK, TopIs, Outcomes
<1>6. ASSUME NEW e \in Entries, TaskSettles(e) PROVE TypeOK'
  BY <1>6, CompleteType DEF TaskSettles, TypeOK
<1>7. ASSUME SettleEntry PROVE TypeOK'
  BY <1>7, PoppedType, TopTypes DEF SettleEntry, TypeOK, TopIs, laneVars, Phases, Outcomes
<1>8. ASSUME NEW l \in ConfiguredLanes, NEW n \in ConcurrencyInputs, SetCommandLaneConcurrency(l, n)
      PROVE  TypeOK'
  <2>1. l \in Lanes /\ n \in Int
    OBVIOUS
  <2>2. maxConcurrent' \in [Lanes -> Nat \ {0}]
    BY <1>8, <2>1 DEF SetCommandLaneConcurrency, TypeOK, Slots
  <2>3. stack' \in Seq(Frames) /\ draining' \in [Lanes -> BOOLEAN]
    BY <1>8, <2>1, DrainLaneType DEF SetCommandLaneConcurrency, TypeOK
  <2> QED
    BY <1>8, <2>2, <2>3 DEF SetCommandLaneConcurrency, TypeOK, entryVars
<1>9. ASSUME NEW l \in Lanes, ClearCommandLane(l) PROVE TypeOK'
  <2>1. queue' \in [Lanes -> Seq(Entries)]
    BY <1>9 DEF ClearCommandLane, TypeOK
  <2>2. phase' \in [Entries -> Phases]
    BY <1>9 DEF ClearCommandLane, TypeOK, Phases
  <2> QED
    BY <1>9, <2>1, <2>2 DEF ClearCommandLane, TypeOK
<1>10. ASSUME MarkGatewayDraining PROVE TypeOK'
  BY <1>10 DEF MarkGatewayDraining, TypeOK, laneVars, entryVars
<1>11. ASSUME ResetAllLanes PROVE TypeOK'
  <2>1. generation' \in [Lanes -> Nat]
    BY <1>11 DEF ResetAllLanes, ResetPass, NextGenerations, TypeOK
  <2>2. LanesWithWork \in SUBSET Lanes
    BY DEF LanesWithWork
  <2>3. stack' \in Seq(Frames)
    BY <1>11, <2>2, FrameTypes DEF ResetAllLanes, ResetPass
  <2>4. activeTaskIds' \in [Lanes -> SUBSET Nat] /\ \A l \in Lanes : IsFiniteSet(activeTaskIds'[l])
    BY <1>11, FS_EmptySet DEF ResetAllLanes, ResetPass
  <2> QED
    BY <1>11, <2>1, <2>3, <2>4 DEF ResetAllLanes, ResetPass, TypeOK, entryVars
<1>12. ASSUME NEW l \in Lanes, ResetDrainsLane(l) PROVE TypeOK'
  <2>1. Top.lanes \ {l} \in SUBSET Lanes
    BY <1>12, TopTypes DEF ResetDrainsLane, TopIs, TypeOK
  <2>2. Append(Popped, ResetFrame(Top.lanes \ {l})) \in Seq(Frames)
    BY <1>12, <2>1, PoppedType, FrameTypes, AppendProperties DEF ResetDrainsLane, TopIs, TypeOK
  <2>3. stack' \in Seq(Frames) /\ draining' \in [Lanes -> BOOLEAN]
    BY <1>12, <2>2, DrainLaneType DEF ResetDrainsLane
  <2> QED
    BY <1>12, <2>3 DEF ResetDrainsLane, TypeOK, entryVars
<1>13. ASSUME ResetReturns PROVE TypeOK'
  BY <1>13, PoppedType, NotifiedType DEF ResetReturns, TypeOK, TopIs, laneVars, entryVars
<1>14. ASSUME NEW w \in Waiters, NEW p \in BOOLEAN, WaitForActiveTasks(w, p) PROVE TypeOK'
  <2> DEFINE ids == ActiveIds(activeTaskIds)
             answer(st) == [waiters EXCEPT ![w] = [state |-> st, ids |-> ids]]
             WaiterType == [Waiters -> [state : WaiterStates, ids : SUBSET Nat]]
  <2>1. ids \in SUBSET Nat
    BY DEF ActiveIds, TypeOK
  <2>2. \A st \in WaiterStates : answer(st) \in WaiterType
    BY <2>1 DEF TypeOK
  <2>3. answer("waiting") \in WaiterType /\ answer("drained") \in WaiterType /\ answer("timedOut") \in WaiterType
    BY <2>2 DEF WaiterStates
  <2>4. Notified(answer("waiting"), activeTaskIds) \in WaiterType
    <3> HIDE DEF answer
    <3> QED BY <2>3 DEF Notified, WaiterStates
  <2>5. waiters' \in WaiterType
    <3>1. \/ waiters' = answer("drained") \/ waiters' = answer("timedOut")
          \/ waiters' = Notified(answer("waiting"), activeTaskIds)
      BY <1>14 DEF WaitForActiveTasks, Asked
    <3> QED BY <3>1, <2>3, <2>4
  <2> QED
    BY <1>14, <2>5 DEF WaitForActiveTasks, TypeOK, laneVars, entryVars
<1>15. ASSUME NEW w \in Waiters, WaiterTimesOut(w) PROVE TypeOK'
  BY <1>15 DEF WaiterTimesOut, TypeOK, WaiterStates, laneVars, entryVars
<1>16. CASE UNCHANGED vars
  BY <1>16 DEF vars, laneVars, entryVars, TypeOK
<1> QED
  BY <1>1, <1>2, <1>3, <1>4, <1>5, <1>6, <1>7, <1>8, <1>9, <1>10, <1>11, <1>12, <1>13, <1>14,
     <1>15, <1>16 DEF LaneAction, QuietStep

(* The queue keeps its types: the counters, the frames of the call stack    *)
(* and the slots, a lane's limit being at least one whatever number it is  *)
(* configured with.                                                        *)
THEOREM TypeCorrect == Spec => []TypeOK
BY TypeInit, TypeStep, NextSplit, PTL DEF Spec

-----------------------------------------------------------------------------
(* What the steps do to the call stack. *)
LEMMA AppendOn ==
  ASSUME NEW st \in Seq(Frames), NEW f \in Frames
  PROVE  /\ \A l : PumpOn(st, l) => PumpOn(Append(st, f), l)
         /\ \A l : ResetOn(st, l) => ResetOn(Append(st, f), l)
         /\ \A l : f = PumpFrame(l) => PumpOn(Append(st, f), l)
         /\ \A l : f.op = "reset" /\ l \in f.lanes => ResetOn(Append(st, f), l)
<1>1. /\ Len(st) \in Nat
      /\ Len(Append(st, f)) = Len(st) + 1
      /\ \A i \in 1..Len(st) : Append(st, f)[i] = st[i]
      /\ Append(st, f)[Len(st) + 1] = f
  BY AppendProperties, LenProperties
<1>2. Len(st) + 1 \in 1..Len(Append(st, f)) /\ 1..Len(st) \subseteq 1..Len(Append(st, f))
  BY <1>1
<1> QED
  BY <1>1, <1>2 DEF PumpOn, ResetOn

(* A return takes only its own frame away: the pumps and the reset's lanes *)
(* of the frames below stay.                                               *)
LEMMA PoppedOn ==
  ASSUME stack \in Seq(Frames), stack # <<>>
  PROVE  /\ \A l : PumpOn(stack, l) /\ Top # PumpFrame(l) => PumpOn(Popped, l)
         /\ \A l : ResetOn(stack, l) /\ ~(Top.op = "reset" /\ l \in Top.lanes) => ResetOn(Popped, l)
<1>1. \A i \in 1..Len(stack) : i # Len(stack) => i \in 1..Len(Popped) /\ Popped[i] = stack[i]
  BY PoppedType
<1> QED
  BY <1>1 DEF PumpOn, ResetOn, Top

(* After drainLane(l), l is being pumped if it was not marked draining, and*)
(* no other lane's pump is lost.                                           *)
LEMMA DrainLaneOn ==
  ASSUME TypeOK, NEW l \in Lanes, NEW rest \in Seq(Frames), DrainLane(l, rest),
         \A k \in Lanes : draining[k] => PumpOn(rest, k)
  PROVE  /\ PumpOn(stack', l)
         /\ \A k \in Lanes : draining'[k] => PumpOn(stack', k)
         /\ \A k : PumpOn(rest, k) => PumpOn(stack', k)
         /\ \A k : ResetOn(rest, k) => ResetOn(stack', k)
<1>1. CASE draining[l]
  BY <1>1 DEF DrainLane
<1>2. CASE ~draining[l]
  <2>1. stack' = Append(rest, PumpFrame(l)) /\ draining' = [draining EXCEPT ![l] = TRUE]
    BY <1>2 DEF DrainLane
  <2>2. \A k \in Lanes : draining'[k] => draining[k] \/ k = l
    BY <2>1 DEF TypeOK
  <2> QED
    BY <2>1, <2>2, AppendOn, FrameTypes
<1> QED
  BY <1>1, <1>2

(* The entry a step completes was running. *)
LEMMA CompletesRunning ==
  ASSUME TypeOK, StackInv
  PROVE  /\ TaskThrows => /\ Top.entry \in Entries /\ phase[Top.entry] = "running"
                          /\ Popped \in Seq(Frames)
         /\ SettleEntry => Top.entry \in Entries /\ phase[Top.entry] = "settling"
<1>1. stack # <<>> => Len(stack) \in 1..Len(stack)
  BY PoppedType DEF TypeOK
<1> QED
  BY <1>1, PoppedType, TopTypes DEF TypeOK, StackInv, FramesOK, TaskThrows, SettleEntry, TopIs, Top

-----------------------------------------------------------------------------
(* What a quiet step leaves alone.                                         *)
LEMMA QuietFrame ==
  ASSUME QuietStep \/ UNCHANGED vars
  PROVE  UNCHANGED <<queue, nextTaskId, phase, taskId, taskGeneration>>
<1> USE DEF laneVars, entryVars
<1>1. ASSUME NEW l \in Lanes, PumpExit(l) \/ ResetDrainsLane(l)
      PROVE  UNCHANGED <<queue, nextTaskId, phase, taskId, taskGeneration>>
  BY <1>1 DEF PumpExit, ResetDrainsLane
<1>2. ASSUME TaskAwaits \/ ResetReturns \/ MarkGatewayDraining \/ ResetAllLanes
      PROVE  UNCHANGED <<queue, nextTaskId, phase, taskId, taskGeneration>>
  BY <1>2 DEF TaskAwaits, ResetReturns, MarkGatewayDraining, ResetAllLanes, ResetPass
<1>3. ASSUME NEW l \in ConfiguredLanes, NEW n \in ConcurrencyInputs, SetCommandLaneConcurrency(l, n)
      PROVE  UNCHANGED <<queue, nextTaskId, phase, taskId, taskGeneration>>
  BY <1>3 DEF SetCommandLaneConcurrency
<1>4. ASSUME NEW w \in Waiters, (\E p \in BOOLEAN : WaitForActiveTasks(w, p)) \/ WaiterTimesOut(w)
      PROVE  UNCHANGED <<queue, nextTaskId, phase, taskId, taskGeneration>>
  BY <1>4 DEF WaitForActiveTasks, WaiterTimesOut
<1> QED
  BY <1>1, <1>2, <1>3, <1>4 DEF QuietStep, vars

(* A quiet step leaves slots, ids and the entries' phases alone.           *)
LEMMA QuietSlots ==
  ASSUME QuietStep \/ UNCHANGED vars, ~ResetAllLanes
  PROVE  generation' = generation /\ activeTaskIds' = activeTaskIds
<1> USE DEF laneVars
<1>1. ASSUME NEW l \in Lanes, PumpExit(l) \/ ResetDrainsLane(l)
      PROVE  generation' = generation /\ activeTaskIds' = activeTaskIds
  BY <1>1 DEF PumpExit, ResetDrainsLane
<1>2. ASSUME NEW l \in ConfiguredLanes, NEW n \in ConcurrencyInputs, SetCommandLaneConcurrency(l, n)
      PROVE  generation' = generation /\ activeTaskIds' = activeTaskIds
  BY <1>2 DEF SetCommandLaneConcurrency
<1>3. ASSUME NEW w \in Waiters, (\E p \in BOOLEAN : WaitForActiveTasks(w, p)) \/ WaiterTimesOut(w)
      PROVE  generation' = generation /\ activeTaskIds' = activeTaskIds
  BY <1>3 DEF WaitForActiveTasks, WaiterTimesOut
<1>4. ASSUME TaskAwaits \/ ResetReturns \/ MarkGatewayDraining
      PROVE  generation' = generation /\ activeTaskIds' = activeTaskIds
  BY <1>4 DEF TaskAwaits, ResetReturns, MarkGatewayDraining
<1> QED
  BY <1>1, <1>2, <1>3, <1>4 DEF QuietStep, vars

(* The head of the queue pump takes. *)
LEMMA PumpHead ==
  ASSUME TypeOK, QueueInv, NEW l \in Lanes, MayStart(l)
  PROVE  /\ queue[l] \in Seq(Entries) /\ Len(queue[l]) \in Nat \ {0}
         /\ Head(queue[l]) = queue[l][1] /\ Head(queue[l]) \in Entries
         /\ phase[Head(queue[l])] = "queued" /\ LaneOf[Head(queue[l])] = l
         /\ Len(Tail(queue[l])) = Len(queue[l]) - 1
         /\ \A i \in 1..Len(Tail(queue[l])) : Tail(queue[l])[i] = queue[l][i + 1]
<1>1. queue[l] \in Seq(Entries) /\ queue[l] # <<>>
  BY DEF MayStart, TypeOK
<1>2. Len(queue[l]) \in Nat \ {0} /\ 1 \in 1..Len(queue[l])
  BY <1>1, EmptySeq
<1>3. Head(queue[l]) = queue[l][1]
  BY <1>1
<1> QED
  BY <1>1, <1>2, <1>3, HeadTailProperties DEF QueueInv

(* A queued entry is in its own lane's queue, once, and no other entry is: *)
(* enqueue, pump and clear keep queues and phases together.                *)
LEMMA QueueStep ==
  ASSUME TypeOK, QueueInv, StackInv, LaneAction
  PROVE  QueueInv'
<1> USE CommandLanesAssumption DEF CommandLanesAssumption
<1>1. ASSUME NEW e \in Entries, EnqueueCommandInLane(e) PROVE QueueInv'
  <2>1. phase[e] = "new"
    BY <1>1 DEF EnqueueCommandInLane
  <2>2. \A l \in Lanes : \A i \in 1..Len(queue[l]) : queue[l][i] \in Entries /\ queue[l][i] # e
    BY <2>1, ElementOfSeq DEF QueueInv, TypeOK
  <2>3. CASE gatewayDraining
    <3>1. queue' = queue /\ phase' = [phase EXCEPT ![e] = "refused"]
      BY <1>1, <2>3 DEF EnqueueCommandInLane
    <3> QED
      BY <2>2, <3>1 DEF QueueInv, TypeOK
  <2>4. CASE ~gatewayDraining
    <3> DEFINE l == LaneOf[e]
    <3>1. /\ l \in Lanes
          /\ queue' = [queue EXCEPT ![l] = Append(queue[l], e)]
          /\ phase' = [phase EXCEPT ![e] = "queued"]
      BY <1>1, <2>4 DEF EnqueueCommandInLane
    <3>2. /\ Len(Append(queue[l], e)) = Len(queue[l]) + 1 /\ Len(queue[l]) \in Nat
          /\ \A i \in 1..Len(queue[l]) : Append(queue[l], e)[i] = queue[l][i]
          /\ Append(queue[l], e)[Len(queue[l]) + 1] = e
      BY <3>1, AppendProperties, LenProperties DEF TypeOK
    <3>3. queue'[l] = Append(queue[l], e) /\ \A k \in Lanes : k # l => queue'[k] = queue[k]
      BY <3>1 DEF TypeOK
    <3>4. phase'[e] = "queued" /\ \A f \in Entries : f # e => phase'[f] = phase[f]
      BY <3>1 DEF TypeOK
    <3>5. ASSUME NEW k \in Lanes, NEW i \in 1..Len(queue'[k])
          PROVE  /\ phase'[queue'[k][i]] = "queued" /\ LaneOf[queue'[k][i]] = k
                 /\ \A j \in 1..Len(queue'[k]) : queue'[k][i] = queue'[k][j] => i = j
      <4>1. CASE k # l
        BY <4>1, <3>3, <3>4, <2>2 DEF QueueInv
      <4>2. CASE k = l /\ i <= Len(queue[l])
        BY <4>2, <3>2, <3>3, <3>4, <2>2 DEF QueueInv
      <4>3. CASE k = l /\ i = Len(queue[l]) + 1
        BY <4>3, <3>2, <3>3, <3>4, <2>2 DEF QueueInv
      <4> QED
        BY <4>1, <4>2, <4>3, <3>2, <3>3
    <3> QED
      BY <3>5 DEF QueueInv
  <2> QED
    BY <2>3, <2>4
<1>2. ASSUME NEW l \in Lanes, PumpStart(l) PROVE QueueInv'
  <2> DEFINE h == Head(queue[l])
  <2>1. MayStart(l) /\ queue' = [queue EXCEPT ![l] = Tail(queue[l])] /\ phase' = [phase EXCEPT ![h] = "running"]
    BY <1>2 DEF PumpStart
  <2>2. /\ h = queue[l][1] /\ h \in Entries /\ LaneOf[h] = l /\ Len(queue[l]) \in Nat \ {0}
        /\ Len(Tail(queue[l])) = Len(queue[l]) - 1
        /\ \A i \in 1..Len(Tail(queue[l])) : Tail(queue[l])[i] = queue[l][i + 1]
    BY <2>1, PumpHead
  <2>3. queue'[l] = Tail(queue[l]) /\ \A k \in Lanes : k # l => queue'[k] = queue[k]
    BY <2>1 DEF TypeOK
  <2>4. \A f \in Entries : f # h => phase'[f] = phase[f]
    BY <2>1 DEF TypeOK
  <2>5. \A k \in Lanes : \A i \in 1..Len(queue[k]) : queue[k][i] \in Entries
    BY ElementOfSeq DEF TypeOK
  <2> HIDE DEF h
  <2>6. ASSUME NEW k \in Lanes, NEW i \in 1..Len(queue'[k])
        PROVE  /\ phase'[queue'[k][i]] = "queued" /\ LaneOf[queue'[k][i]] = k
               /\ \A j \in 1..Len(queue'[k]) : queue'[k][i] = queue'[k][j] => i = j
    <3>1. CASE k # l
      BY <3>1, <2>2, <2>3, <2>4, <2>5 DEF QueueInv
    <3>2. CASE k = l
      <4>1. i + 1 \in 1..Len(queue[l]) /\ queue'[l][i] = queue[l][i + 1] /\ 1 \in 1..Len(queue[l]) /\ i + 1 # 1
        BY <3>2, <2>2, <2>3
      <4>2. queue[l][i + 1] # h
        BY <4>1, <2>2 DEF QueueInv
      <4>3. \A j \in 1..Len(queue'[l]) : j + 1 \in 1..Len(queue[l]) /\ queue'[l][j] = queue[l][j + 1]
        BY <2>2, <2>3
      <4>4. \A j \in 1..Len(queue'[l]) : queue'[l][i] = queue'[l][j] => i = j
        <5>1. \A j \in 1..Len(queue'[l]) : queue[l][i + 1] = queue[l][j + 1] => i + 1 = j + 1
          BY <4>1, <4>3 DEF QueueInv
        <5> QED
          BY <4>1, <4>3, <5>1, <3>2
      <4> QED
        BY <3>2, <4>1, <4>2, <4>4, <2>4, <2>5 DEF QueueInv
    <3> QED
      BY <3>1, <3>2
  <2> QED
    BY <2>6 DEF QueueInv
<1>3. ASSUME NEW e \in Entries, phase[e] \in {"running", "settling"}, queue' = queue,
             \A f \in Entries : f # e => phase'[f] = phase[f]
      PROVE  QueueInv'
  <2>1. \A l \in Lanes : \A i \in 1..Len(queue[l]) : queue[l][i] \in Entries /\ queue[l][i] # e
    BY <1>3, ElementOfSeq DEF QueueInv, TypeOK
  <2> QED
    BY <1>3, <2>1 DEF QueueInv
<1>4. ASSUME NEW e \in Entries, NEW o \in Outcomes, NEW rest, phase[e] = "running", Complete(e, o, rest)
      PROVE  QueueInv'
  <2>1. queue' = queue
    BY <1>4 DEF Complete
  <2>2. \A f \in Entries : f # e => phase'[f] = phase[f]
    BY <1>4 DEF Complete, TypeOK
  <2> QED
    BY <1>3, <1>4, <2>1, <2>2
<1>5. ASSUME TaskThrows PROVE QueueInv'
  BY <1>4, <1>5, CompletesRunning, "rejected" \in Outcomes DEF TaskThrows, Outcomes
<1>6. ASSUME NEW e \in Entries, TaskSettles(e) PROVE QueueInv'
  <2>1. PICK o \in Outcomes : Complete(e, o, stack)
    BY <1>6 DEF TaskSettles
  <2> QED
    BY <1>4, <1>6, <2>1 DEF TaskSettles
<1>7. ASSUME SettleEntry PROVE QueueInv'
  <2>1. Top.entry \in Entries /\ phase[Top.entry] \in {"running", "settling"}
    BY <1>7, CompletesRunning
  <2>2. PICK e \in Entries, o \in Outcomes : e = Top.entry /\ o = Top.outcome
    BY <1>7, TopTypes DEF SettleEntry, TopIs, TypeOK
  <2>3. queue' = queue /\ \A f \in Entries : f # e => phase'[f] = phase[f]
    BY <1>7, <2>2 DEF SettleEntry, laneVars, TypeOK
  <2> QED
    BY <1>3, <2>1, <2>2, <2>3
<1>8. ASSUME NEW l \in Lanes, ClearCommandLane(l) PROVE QueueInv'
  <2>1. queue' = [queue EXCEPT ![l] = <<>>]
    BY <1>8 DEF ClearCommandLane
  <2>2. queue'[l] = <<>> /\ \A k \in Lanes : k # l => queue'[k] = queue[k]
    BY <2>1 DEF TypeOK
  <2>3. \A k \in Lanes : k # l => \A i \in 1..Len(queue[k]) :
          queue[k][i] \in Entries /\ phase'[queue[k][i]] = phase[queue[k][i]]
    <3>1. ASSUME NEW k \in Lanes, k # l, NEW i \in 1..Len(queue[k])
          PROVE  queue[k][i] \in Entries /\ phase'[queue[k][i]] = phase[queue[k][i]]
      <4>1. queue[k][i] \in Entries
        BY ElementOfSeq DEF TypeOK
      <4>2. LaneOf[queue[k][i]] = k /\ \A j \in 1..Len(queue[l]) : LaneOf[queue[l][j]] = l
        BY DEF QueueInv
      <4>3. ~\E j \in 1..Len(queue[l]) : queue[l][j] = queue[k][i]
        BY <3>1, <4>2
      <4> QED
        BY <1>8, <4>1, <4>3 DEF ClearCommandLane
    <3> QED
      BY <3>1
  <2>4. \A i \in 1..Len(queue'[l]) : FALSE
    BY <2>2, EmptySeq
  <2> QED
    BY <2>2, <2>3, <2>4 DEF QueueInv
<1>9. ASSUME QuietStep \/ UNCHANGED vars PROVE QueueInv'
  BY <1>9, QuietFrame DEF QueueInv
<1> QED
  BY <1>1, <1>2, <1>5, <1>6, <1>7, <1>8, <1>9 DEF LaneAction

(* A completion, above the frames rest, of a running entry e, and what it   *)
(* leaves alone.                                                           *)
LEMMA CompleteFrame ==
  ASSUME TypeOK, NEW e \in Entries, NEW o, NEW rest, Complete(e, o, rest)
  PROVE  /\ UNCHANGED <<queue, maxConcurrent, draining, generation, nextTaskId, taskId, taskGeneration>>
         /\ phase'[e] # "running" \/ o = "running"
         /\ \A f \in Entries : f # e => phase'[f] = phase[f]
<1>1. phase' = [phase EXCEPT ![e] = "settling"] \/ phase' = [phase EXCEPT ![e] = o]
  BY DEF Complete
<1> QED
  BY <1>1 DEF Complete, TypeOK

(* Ids given to tasks are below nextTaskId and distinct, resets included.  *)
LEMMA IdsStep ==
  ASSUME TypeOK, QueueInv, IdsInv, StackInv, LaneAction
  PROVE  IdsInv'
<1> USE CommandLanesAssumption DEF CommandLanesAssumption
<1>1. ASSUME UNCHANGED <<taskId, taskGeneration, nextTaskId, generation>>,
             \A e \in Entries : phase'[e] = "running" => phase[e] = "running"
      PROVE  IdsInv'
  BY <1>1 DEF IdsInv
<1>2. ASSUME NEW e \in Entries, EnqueueCommandInLane(e) PROVE IdsInv'
  <2>1. \E p \in {"queued", "refused"} : phase' = [phase EXCEPT ![e] = p]
    BY <1>2 DEF EnqueueCommandInLane
  <2>2. \A f \in Entries : phase'[f] = "running" => phase[f] = "running"
    BY <2>1 DEF TypeOK
  <2> QED
    BY <1>1, <1>2, <2>2 DEF EnqueueCommandInLane
<1>3. ASSUME NEW e \in Entries, NEW o \in Outcomes, NEW rest, phase[e] = "running", Complete(e, o, rest)
      PROVE  IdsInv'
  BY <1>1, <1>3, CompleteFrame
<1>4. ASSUME TaskThrows PROVE IdsInv'
  <2>1. Complete(Top.entry, "rejected", Popped) /\ Top.entry \in Entries /\ phase[Top.entry] = "running"
    BY <1>4, CompletesRunning DEF TaskThrows
  <2> QED
    BY <1>3, <2>1, "rejected" \in Outcomes DEF Outcomes
<1>5. ASSUME NEW e \in Entries, TaskSettles(e) PROVE IdsInv'
  <2>1. PICK o \in Outcomes : Complete(e, o, stack)
    BY <1>5 DEF TaskSettles
  <2> QED
    BY <1>3, <1>5, <2>1 DEF TaskSettles
<1>6. ASSUME SettleEntry PROVE IdsInv'
  <2>1. Top.entry \in Entries /\ Top.outcome \in Outcomes
    BY <1>6, TopTypes DEF SettleEntry, TopIs, TypeOK
  <2>2. \A f \in Entries : phase'[f] = "running" => phase[f] = "running"
    BY <1>6, <2>1 DEF SettleEntry, TypeOK, Outcomes
  <2> QED
    BY <1>1, <1>6, <2>2 DEF SettleEntry, laneVars
<1>7. ASSUME NEW l \in Lanes, ClearCommandLane(l) PROVE IdsInv'
  <2>1. \A f \in Entries : phase'[f] = "running" => phase[f] = "running"
    BY <1>7 DEF ClearCommandLane
  <2> QED
    BY <1>1, <1>7, <2>1 DEF ClearCommandLane
<1>8. ASSUME NEW l \in Lanes, PumpStart(l) PROVE IdsInv'
  <2> DEFINE h == Head(queue[l])
  <2>1. /\ phase' = [phase EXCEPT ![h] = "running"] /\ taskId' = [taskId EXCEPT ![h] = nextTaskId]
        /\ taskGeneration' = [taskGeneration EXCEPT ![h] = generation[l]]
        /\ nextTaskId' = nextTaskId + 1 /\ generation' = generation
    BY <1>8 DEF PumpStart
  <2>2. h \in Entries /\ LaneOf[h] = l
    BY <1>8, PumpHead DEF PumpStart
  <2> HIDE DEF h
  <2>3. \A f \in Entries : taskId'[f] < nextTaskId'
    BY <2>1, <2>2 DEF IdsInv, TypeOK
  <2>4. \A f \in Entries : f # h => taskId'[f] = taskId[f] /\ taskId'[f] < taskId'[h]
    BY <2>1, <2>2 DEF IdsInv, TypeOK
  <2>5. \A f, g \in Entries : phase'[f] = "running" /\ phase'[g] = "running" /\ taskId'[f] = taskId'[g] => f = g
    <3>1. \A f \in Entries : taskId'[f] \in Nat
      BY <2>1, <2>2 DEF TypeOK
    <3> QED
      BY <2>1, <2>2, <2>4, <3>1 DEF IdsInv, TypeOK
  <2>6. \A f \in Entries : phase'[f] = "running" => taskGeneration'[f] <= generation'[LaneOf[f]]
    BY <2>1, <2>2 DEF IdsInv, TypeOK
  <2> QED
    BY <2>3, <2>5, <2>6 DEF IdsInv
<1>9. ASSUME ResetAllLanes PROVE IdsInv'
  <2>1. UNCHANGED <<taskId, taskGeneration, nextTaskId, phase>>
    BY <1>9 DEF ResetAllLanes, ResetPass, entryVars
  <2>2. \A l \in Lanes : generation'[l] = generation[l] + 1
    BY <1>9 DEF ResetAllLanes, ResetPass, NextGenerations
  <2>3. \A e \in Entries : phase[e] = "running" => taskGeneration[e] <= generation'[LaneOf[e]]
    BY <2>2 DEF IdsInv, TypeOK
  <2> QED
    BY <2>1, <2>3 DEF IdsInv
<1>10. ASSUME QuietStep \/ UNCHANGED vars, ~ResetAllLanes PROVE generation' = generation
  BY <1>10, QuietSlots
<1>11. ASSUME QuietStep \/ UNCHANGED vars PROVE IdsInv'
  BY <1>1, <1>9, <1>10, <1>11, QuietFrame
<1> QED
  BY <1>2, <1>4, <1>5, <1>6, <1>7, <1>8, <1>11 DEF LaneAction

-----------------------------------------------------------------------------
(* The frames of the call stack. *)
LEMMA FramesAppend ==
  ASSUME NEW st \in Seq(Frames), NEW f \in Frames, NEW ph, FramesOK(st, ph),
         f.op = "task" => ph[f.entry] = "running",
         f.op = "settle" => ph[f.entry] = "settling",
         EntryFrame(f) => \A i \in 1..Len(st) : EntryFrame(st[i]) => st[i].entry # f.entry
  PROVE  FramesOK(Append(st, f), ph)
<1>1. /\ Len(st) \in Nat
      /\ Len(Append(st, f)) = Len(st) + 1
      /\ \A i \in 1..Len(st) : Append(st, f)[i] = st[i]
      /\ Append(st, f)[Len(st) + 1] = f
  BY AppendProperties, LenProperties
<1>2. \A i \in 1..Len(Append(st, f)) : i \in 1..Len(st) \/ i = Len(st) + 1
  BY <1>1
<1> QED
  BY <1>1, <1>2 DEF FramesOK

(* A well-founded stack stays so when its top returns.                     *)
LEMMA FramesPopped ==
  ASSUME stack \in Seq(Frames), stack # <<>>, NEW ph, FramesOK(stack, ph)
  PROVE  /\ FramesOK(Popped, ph)
         /\ EntryFrame(Top) => \A i \in 1..Len(Popped) : EntryFrame(Popped[i]) => Popped[i].entry # Top.entry
<1>1. \A i \in 1..Len(Popped) : i \in 1..Len(stack) /\ i # Len(stack) /\ Popped[i] = stack[i]
  BY PoppedType
<1>2. Len(stack) \in 1..Len(stack)
  BY PoppedType
<1> QED
  BY <1>1, <1>2 DEF FramesOK, Top

(* A change of phases that spares the entries on the stack keeps it        *)
(* well-founded.                                                           *)
LEMMA FramesPhase ==
  ASSUME NEW st \in Seq(Frames), NEW ph, NEW qh, FramesOK(st, ph),
         \A i \in 1..Len(st) : EntryFrame(st[i]) => qh[st[i].entry] = ph[st[i].entry]
  PROVE  FramesOK(st, qh)
BY DEF FramesOK, EntryFrame

(* A frame's entry runs or settles. *)
LEMMA FramePhases ==
  ASSUME NEW st \in Seq(Frames), NEW ph, FramesOK(st, ph), NEW i \in 1..Len(st), EntryFrame(st[i])
  PROVE  st[i].entry \in Entries /\ ph[st[i].entry] \in {"running", "settling"}
<1>1. st[i] \in Frames
  BY ElementOfSeq
<1> QED
  BY <1>1 DEF FramesOK, EntryFrame, Frames

(* drainLane's pump frame is legal wherever it is called.                  *)
LEMMA FramesDrainLane ==
  ASSUME NEW l \in Lanes, NEW rest \in Seq(Frames), NEW ph, FramesOK(rest, ph), DrainLane(l, rest)
  PROVE  FramesOK(stack', ph)
<1>1. PumpFrame(l) \in Frames /\ ~EntryFrame(PumpFrame(l)) /\ PumpFrame(l).op = "pump"
  BY FrameTypes DEF PumpFrame, EntryFrame
<1>2. FramesOK(Append(rest, PumpFrame(l)), ph)
  BY <1>1, FramesAppend
<1> QED
  BY <1>2 DEF DrainLane

(* A completion replaces its task's frame by the settlement and the pump.  *)
LEMMA FramesComplete ==
  ASSUME TypeOK, NEW e \in Entries, NEW o \in Outcomes, NEW rest \in Seq(Frames),
         FramesOK(rest, phase), Complete(e, o, rest),
         \A i \in 1..Len(rest) : EntryFrame(rest[i]) => rest[i].entry # e
  PROVE  FramesOK(stack', phase')
<1> USE CommandLanesAssumption DEF CommandLanesAssumption
<1>1. \A i \in 1..Len(rest) : EntryFrame(rest[i]) =>
        rest[i].entry \in Entries /\ phase'[rest[i].entry] = phase[rest[i].entry]
  BY FramePhases, CompleteFrame
<1>2. FramesOK(rest, phase')
  BY <1>1, FramesPhase
<1>3. CASE taskGeneration[e] = generation[LaneOf[e]]
  <2> DEFINE f == SettleFrame(e, o)
             p == PumpFrame(LaneOf[e])
  <2>1. stack' = Append(Append(rest, f), p) /\ phase' = [phase EXCEPT ![e] = "settling"]
    BY <1>3 DEF Complete
  <2>2. phase'[e] = "settling"
    BY <2>1 DEF TypeOK
  <2>3. f \in Frames /\ f.op = "settle" /\ f.entry = e /\ p \in Frames /\ p.op = "pump" /\ ~EntryFrame(p)
    BY FrameTypes DEF SettleFrame, PumpFrame, EntryFrame
  <2> HIDE DEF f, p
  <2>4. FramesOK(Append(rest, f), phase') /\ Append(rest, f) \in Seq(Frames)
    BY <1>2, <2>2, <2>3, FramesAppend, AppendProperties
  <2> QED
    BY <2>1, <2>3, <2>4, FramesAppend
<1>4. CASE taskGeneration[e] # generation[LaneOf[e]]
  BY <1>2, <1>4 DEF Complete
<1> QED
  BY <1>3, <1>4

(* Every step keeps the call stack well-founded: no entry is on it twice,  *)
(* and entries on it run or settle.                                        *)
LEMMA StackStep ==
  ASSUME TypeOK, QueueInv, StackInv, LaneAction
  PROVE  StackInv'
<1> USE CommandLanesAssumption DEF CommandLanesAssumption
<1>0. stack \in Seq(Frames) /\ FramesOK(stack, phase)
  BY DEF TypeOK, StackInv
<1>1. ASSUME NEW e \in Entries, EnqueueCommandInLane(e) PROVE StackInv'
  <2>1. phase[e] = "new" /\ \A f \in Entries : f # e => phase'[f] = phase[f]
    BY <1>1 DEF EnqueueCommandInLane, TypeOK
  <2>2. \A i \in 1..Len(stack) : EntryFrame(stack[i]) => phase'[stack[i].entry] = phase[stack[i].entry]
    BY <1>0, <2>1, FramePhases
  <2>3. FramesOK(stack, phase')
    BY <1>0, <2>2 DEF FramesOK, EntryFrame
  <2>4. CASE gatewayDraining
    BY <1>1, <2>3, <2>4 DEF EnqueueCommandInLane, StackInv
  <2>5. CASE ~gatewayDraining
    BY <1>0, <1>1, <2>3, <2>5, FramesDrainLane DEF EnqueueCommandInLane, StackInv
  <2> QED
    BY <2>4, <2>5
<1>2. ASSUME NEW l \in Lanes, PumpStart(l) PROVE StackInv'
  <2> DEFINE h == Head(queue[l])
             f == TaskFrame(h)
  <2>1. h \in Entries /\ phase[h] = "queued"
    BY <1>2, PumpHead DEF PumpStart
  <2>2. stack' = Append(stack, f) /\ phase' = [phase EXCEPT ![h] = "running"]
    BY <1>2 DEF PumpStart
  <2>3. f \in Frames /\ f.op = "task" /\ f.entry = h
    BY <2>1, FrameTypes DEF TaskFrame
  <2>4. \A i \in 1..Len(stack) : EntryFrame(stack[i]) =>
           stack[i].entry \in Entries /\ stack[i].entry # h
    BY <1>0, <2>1, FramePhases
  <2> HIDE DEF h, f
  <2>5. FramesOK(stack, phase')
    <3>1. \A i \in 1..Len(stack) : EntryFrame(stack[i]) => phase'[stack[i].entry] = phase[stack[i].entry]
      BY <2>2, <2>4 DEF TypeOK
    <3> QED
      BY <1>0, <3>1 DEF FramesOK, EntryFrame
  <2>6. phase'[f.entry] = "running"
    BY <2>1, <2>2, <2>3 DEF TypeOK
  <2>7. FramesOK(Append(stack, f), phase')
    BY <1>0, <2>3, <2>4, <2>5, <2>6, FramesAppend
  <2> QED
    BY <2>2, <2>7 DEF StackInv
<1>3. ASSUME stack # <<>>, stack' = Popped, phase' = phase PROVE StackInv'
  BY <1>0, <1>3, FramesPopped DEF StackInv
<1>4. ASSUME TaskThrows PROVE StackInv'
  <2>1. /\ Complete(Top.entry, "rejected", Popped) /\ Top.entry \in Entries /\ Popped \in Seq(Frames)
        /\ stack # <<>> /\ EntryFrame(Top) /\ "rejected" \in Outcomes
    BY <1>4, CompletesRunning DEF TaskThrows, TopIs, EntryFrame, Outcomes
  <2>2. FramesOK(Popped, phase) /\ \A i \in 1..Len(Popped) : EntryFrame(Popped[i]) => Popped[i].entry # Top.entry
    BY <1>0, <2>1, FramesPopped
  <2> QED
    BY <2>1, <2>2, FramesComplete DEF StackInv
<1>5. ASSUME NEW e \in Entries, TaskSettles(e) PROVE StackInv'
  <2>1. PICK o \in Outcomes : Complete(e, o, stack)
    BY <1>5 DEF TaskSettles
  <2>2. \A i \in 1..Len(stack) : FALSE
    BY <1>5, EmptySeq DEF TaskSettles, Idle
  <2> QED
    BY <1>0, <2>1, <2>2, FramesComplete DEF StackInv
<1>6. ASSUME SettleEntry PROVE StackInv'
  <2>1. /\ stack # <<>> /\ stack' = Popped /\ EntryFrame(Top) /\ Top.entry \in Entries
        /\ phase' = [phase EXCEPT ![Top.entry] = Top.outcome]
    BY <1>6, CompletesRunning DEF SettleEntry, TopIs, EntryFrame
  <2>2. Popped \in Seq(Frames) /\ FramesOK(Popped, phase)
    BY <1>0, <2>1, PoppedType, FramesPopped
  <2>3. \A i \in 1..Len(Popped) : EntryFrame(Popped[i]) =>
          Popped[i].entry # Top.entry /\ Popped[i].entry \in Entries
    BY <1>0, <2>1, <2>2, FramesPopped, FramePhases
  <2>4. \A i \in 1..Len(Popped) : EntryFrame(Popped[i]) => phase'[Popped[i].entry] = phase[Popped[i].entry]
    BY <2>1, <2>3 DEF TypeOK
  <2> QED
    BY <2>1, <2>2, <2>4, FramesPhase DEF StackInv
<1>7. ASSUME NEW l \in Lanes, ClearCommandLane(l) PROVE StackInv'
  <2>1. \A f \in Entries : phase[f] # "queued" => phase'[f] = phase[f]
    BY <1>7 DEF ClearCommandLane, QueueInv
  <2>2. \A i \in 1..Len(stack) : EntryFrame(stack[i]) => phase'[stack[i].entry] = phase[stack[i].entry]
    BY <1>0, <2>1, FramePhases
  <2> QED
    BY <1>0, <1>7, <2>2, FramesPhase DEF ClearCommandLane, StackInv
<1>8. ASSUME NEW l \in ConfiguredLanes, NEW n \in ConcurrencyInputs, SetCommandLaneConcurrency(l, n)
      PROVE  StackInv'
  <2>1. l \in Lanes /\ DrainLane(l, stack) /\ phase' = phase
    BY <1>8 DEF SetCommandLaneConcurrency, entryVars
  <2> QED
    BY <1>0, <2>1, FramesDrainLane DEF StackInv
<1>9. ASSUME ResetAllLanes PROVE StackInv'
  <2>1. stack' = <<ResetFrame(LanesWithWork)>> /\ phase' = phase
    BY <1>9 DEF ResetAllLanes, ResetPass, entryVars
  <2>2. \A i \in 1..Len(stack') : stack'[i].op = "reset"
    BY <2>1 DEF ResetFrame
  <2> QED
    BY <2>2 DEF StackInv, FramesOK, EntryFrame
<1>10. ASSUME NEW l \in Lanes, ResetDrainsLane(l) PROVE StackInv'
  <2> DEFINE f == ResetFrame(Top.lanes \ {l})
  <2>1. /\ stack # <<>> /\ Top.lanes \ {l} \in SUBSET Lanes
        /\ DrainLane(l, Append(Popped, f)) /\ phase' = phase
    BY <1>0, <1>10, TopTypes DEF ResetDrainsLane, TopIs, entryVars
  <2>2. f \in Frames /\ f.op = "reset" /\ ~EntryFrame(f)
    BY <2>1, FrameTypes DEF ResetFrame, EntryFrame
  <2> HIDE DEF f
  <2>3. Popped \in Seq(Frames) /\ FramesOK(Popped, phase)
    BY <1>0, <2>1, PoppedType, FramesPopped
  <2>4. Append(Popped, f) \in Seq(Frames) /\ FramesOK(Append(Popped, f), phase)
    BY <2>2, <2>3, FramesAppend, AppendProperties
  <2> QED
    BY <2>1, <2>4, FramesDrainLane DEF StackInv
<1>11. ASSUME \/ TaskAwaits \/ ResetReturns \/ \E l \in Lanes : PumpExit(l) PROVE StackInv'
  BY <1>3, <1>11 DEF TaskAwaits, ResetReturns, PumpExit, TopIs, entryVars
<1>12. ASSUME UNCHANGED <<stack, phase>> PROVE StackInv'
  BY <1>12 DEF StackInv, FramesOK
<1>13. ASSUME \/ MarkGatewayDraining \/ UNCHANGED vars
              \/ \E w \in Waiters : (\E p \in BOOLEAN : WaitForActiveTasks(w, p)) \/ WaiterTimesOut(w)
       PROVE  StackInv'
  BY <1>12, <1>13 DEF MarkGatewayDraining, WaitForActiveTasks, WaiterTimesOut, entryVars, vars
<1> QED
  BY <1>1, <1>2, <1>4, <1>5, <1>6, <1>7, <1>8, <1>9, <1>10, <1>11, <1>13 DEF LaneAction, QuietStep

-----------------------------------------------------------------------------
(* Slots. *)
LEMMA SlotsStep ==
  ASSUME TypeOK, QueueInv, IdsInv, StackInv, SlotsMatchRuns, LaneAction
  PROVE  SlotsMatchRuns'
<1> USE CommandLanesAssumption DEF CommandLanesAssumption
<1>1. ASSUME UNCHANGED <<activeTaskIds, taskId, taskGeneration, generation>>,
             \A e \in Entries : phase'[e] = "running" <=> phase[e] = "running"
      PROVE  SlotsMatchRuns'
  <2>1. \A l \in Lanes : CurrentRuns(l)' = CurrentRuns(l)
    BY <1>1 DEF CurrentRuns
  <2> QED
    BY <1>1, <2>1 DEF SlotsMatchRuns
<1>2. ASSUME NEW e \in Entries, EnqueueCommandInLane(e) PROVE SlotsMatchRuns'
  <2>1. phase[e] = "new" /\ \E p \in {"queued", "refused"} : phase' = [phase EXCEPT ![e] = p]
    BY <1>2 DEF EnqueueCommandInLane
  <2>2. \A f \in Entries : phase'[f] = "running" <=> phase[f] = "running"
    BY <2>1 DEF TypeOK
  <2> QED
    BY <1>1, <1>2, <2>2 DEF EnqueueCommandInLane
<1>3. ASSUME NEW e \in Entries, NEW o \in Outcomes, NEW rest, phase[e] = "running", Complete(e, o, rest)
      PROVE  SlotsMatchRuns'
  <2> DEFINE l == LaneOf[e]
  <2>0. /\ UNCHANGED <<generation, taskId, taskGeneration>> /\ phase'[e] # "running"
        /\ \A f \in Entries : f # e => phase'[f] = phase[f]
    BY <1>3, CompleteFrame DEF Outcomes
  <2>1. CASE taskGeneration[e] = generation[l]
    <3>1. activeTaskIds' = [activeTaskIds EXCEPT ![l] = activeTaskIds[l] \ {taskId[e]}]
      BY <1>3, <2>1 DEF Complete
    <3>2. \A k \in Lanes : CurrentRuns(k)' = CurrentRuns(k) \ {e}
      BY <2>0 DEF CurrentRuns
    <3>3. \A f \in Entries : phase[f] = "running" /\ taskId[f] = taskId[e] => f = e
      BY <1>3 DEF IdsInv
    <3>4. ASSUME NEW k \in Lanes PROVE activeTaskIds'[k] = {taskId'[f] : f \in CurrentRuns(k)'}
      <4>1. activeTaskIds[k] = {taskId[f] : f \in CurrentRuns(k)}
        BY DEF SlotsMatchRuns
      <4>2. CASE k = l
        BY <4>1, <4>2, <3>1, <3>2, <3>3, <2>0 DEF CurrentRuns, TypeOK
      <4>3. CASE k # l
        <5>1. e \notin CurrentRuns(k)
          BY <4>3 DEF CurrentRuns
        <5> QED
          BY <5>1, <4>1, <4>3, <3>1, <3>2, <2>0 DEF TypeOK
      <4> QED
        BY <4>2, <4>3
    <3> QED
      BY <3>4 DEF SlotsMatchRuns
  <2>2. CASE taskGeneration[e] # generation[l]
    <3>1. activeTaskIds' = activeTaskIds
      BY <1>3, <2>2 DEF Complete
    <3>2. \A k \in Lanes : CurrentRuns(k)' = CurrentRuns(k)
      BY <2>0, <2>2 DEF CurrentRuns
    <3> QED
      BY <3>1, <3>2, <2>0 DEF SlotsMatchRuns
  <2> QED
    BY <2>1, <2>2
<1>4. ASSUME TaskThrows PROVE SlotsMatchRuns'
  <2>1. Complete(Top.entry, "rejected", Popped) /\ Top.entry \in Entries /\ phase[Top.entry] = "running"
    BY <1>4, CompletesRunning DEF TaskThrows
  <2> QED
    BY <1>3, <2>1, "rejected" \in Outcomes DEF Outcomes
<1>5. ASSUME NEW e \in Entries, TaskSettles(e) PROVE SlotsMatchRuns'
  <2>1. PICK o \in Outcomes : Complete(e, o, stack)
    BY <1>5 DEF TaskSettles
  <2> QED
    BY <1>3, <1>5, <2>1 DEF TaskSettles
<1>6. ASSUME SettleEntry PROVE SlotsMatchRuns'
  <2>1. Top.entry \in Entries /\ Top.outcome \in Outcomes /\ phase[Top.entry] = "settling"
    BY <1>6, TopTypes, CompletesRunning DEF SettleEntry, TopIs, TypeOK
  <2>2. \A f \in Entries : phase'[f] = "running" <=> phase[f] = "running"
    BY <1>6, <2>1 DEF SettleEntry, TypeOK, Outcomes
  <2> QED
    BY <1>1, <1>6, <2>2 DEF SettleEntry, laneVars
<1>7. ASSUME NEW l \in Lanes, ClearCommandLane(l) PROVE SlotsMatchRuns'
  <2>1. \A f \in Entries : phase'[f] = "running" <=> phase[f] = "running"
    BY <1>7 DEF ClearCommandLane, QueueInv
  <2> QED
    BY <1>1, <1>7, <2>1 DEF ClearCommandLane
<1>8. ASSUME NEW l \in Lanes, PumpStart(l) PROVE SlotsMatchRuns'
  <2> DEFINE h == Head(queue[l])
  <2>1. /\ phase' = [phase EXCEPT ![h] = "running"] /\ taskId' = [taskId EXCEPT ![h] = nextTaskId]
        /\ taskGeneration' = [taskGeneration EXCEPT ![h] = generation[l]]
        /\ activeTaskIds' = [activeTaskIds EXCEPT ![l] = activeTaskIds[l] \cup {nextTaskId}]
        /\ generation' = generation
    BY <1>8 DEF PumpStart
  <2>2. h \in Entries /\ LaneOf[h] = l /\ phase[h] = "queued"
    BY <1>8, PumpHead DEF PumpStart
  <2> HIDE DEF h
  <2>3. \A f \in Entries : f # h => phase'[f] = phase[f] /\ taskId'[f] = taskId[f] /\ taskGeneration'[f] = taskGeneration[f]
    BY <2>1 DEF TypeOK
  <2>4. phase'[h] = "running" /\ taskId'[h] = nextTaskId /\ taskGeneration'[h] = generation'[l]
    BY <2>1, <2>2 DEF TypeOK
  <2>5. CurrentRuns(l)' = CurrentRuns(l) \cup {h} /\ h \notin CurrentRuns(l)
    BY <2>1, <2>2, <2>3, <2>4 DEF CurrentRuns
  <2>6. \A k \in Lanes : k # l => CurrentRuns(k)' = CurrentRuns(k) /\ h \notin CurrentRuns(k)
    BY <2>1, <2>2, <2>3 DEF CurrentRuns
  <2>7. ASSUME NEW k \in Lanes PROVE activeTaskIds'[k] = {taskId'[f] : f \in CurrentRuns(k)'}
    <3>1. activeTaskIds[k] = {taskId[f] : f \in CurrentRuns(k)}
      BY DEF SlotsMatchRuns
    <3>2. \A f \in CurrentRuns(k) : taskId'[f] = taskId[f]
      BY <2>3, <2>5, <2>6 DEF CurrentRuns
    <3>5. {taskId'[f] : f \in CurrentRuns(k)} = activeTaskIds[k]
      BY <3>1, <3>2
    <3>3. CASE k = l
      <4>1. activeTaskIds'[k] = activeTaskIds[k] \cup {nextTaskId}
        BY <3>3, <2>1 DEF TypeOK
      <4>2. {taskId'[f] : f \in CurrentRuns(k) \cup {h}} = {taskId'[f] : f \in CurrentRuns(k)} \cup {taskId'[h]}
        OBVIOUS
      <4> QED
        BY <3>3, <3>5, <4>1, <4>2, <2>4, <2>5
    <3>4. CASE k # l
      <4>1. activeTaskIds'[k] = activeTaskIds[k]
        BY <3>4, <2>1 DEF TypeOK
      <4> QED
        BY <3>4, <3>5, <4>1, <2>6
    <3> QED
      BY <3>3, <3>4
  <2> QED
    BY <2>7 DEF SlotsMatchRuns
<1>9. ASSUME ResetAllLanes PROVE SlotsMatchRuns'
  <2>1. UNCHANGED <<taskId, taskGeneration, phase>>
    BY <1>9 DEF ResetAllLanes, ResetPass, entryVars
  <2>2. \A l \in Lanes : generation'[l] = generation[l] + 1 /\ activeTaskIds'[l] = {}
    BY <1>9 DEF ResetAllLanes, ResetPass, NextGenerations
  <2>3. \A e \in Entries : phase[e] = "running" => taskGeneration[e] # generation'[LaneOf[e]]
    BY <2>2 DEF IdsInv, TypeOK
  <2>4. \A l \in Lanes : CurrentRuns(l)' = {}
    BY <2>1, <2>3 DEF CurrentRuns
  <2> QED
    BY <2>2, <2>4 DEF SlotsMatchRuns
<1>10. ASSUME QuietStep \/ UNCHANGED vars, ~ResetAllLanes PROVE UNCHANGED <<generation, activeTaskIds>>
  BY <1>10, QuietSlots
<1>11. ASSUME QuietStep \/ UNCHANGED vars PROVE SlotsMatchRuns'
  BY <1>1, <1>9, <1>10, <1>11, QuietFrame
<1> QED
  BY <1>2, <1>4, <1>5, <1>6, <1>7, <1>8, <1>11 DEF LaneAction

(* maxConcurrent changes only for configured lanes. *)
LEMMA OneSlotStep ==
  ASSUME TypeOK, OneSlotInv, LaneAction
  PROVE  OneSlotInv'
<1>1. ASSUME NEW l \in ConfiguredLanes, NEW n \in ConcurrencyInputs, SetCommandLaneConcurrency(l, n)
      PROVE  OneSlotInv'
  BY <1>1 DEF SetCommandLaneConcurrency, OneSlotInv, TypeOK
<1>2. ASSUME NEW e \in Entries, EnqueueCommandInLane(e) \/ TaskSettles(e) PROVE maxConcurrent' = maxConcurrent
  BY <1>2 DEF EnqueueCommandInLane, TaskSettles, Complete
<1>3. ASSUME NEW l \in Lanes, PumpStart(l) \/ ClearCommandLane(l) \/ PumpExit(l) \/ ResetDrainsLane(l)
      PROVE  maxConcurrent' = maxConcurrent
  BY <1>3 DEF PumpStart, ClearCommandLane, PumpExit, ResetDrainsLane
<1>4. ASSUME TaskThrows \/ SettleEntry \/ TaskAwaits \/ ResetReturns \/ MarkGatewayDraining \/ ResetAllLanes
             \/ UNCHANGED vars
      PROVE  maxConcurrent' = maxConcurrent
  BY <1>4 DEF TaskThrows, Complete, SettleEntry, TaskAwaits, ResetReturns, MarkGatewayDraining,
     ResetAllLanes, ResetPass, laneVars, vars
<1>5. ASSUME NEW w \in Waiters, (\E p \in BOOLEAN : WaitForActiveTasks(w, p)) \/ WaiterTimesOut(w)
      PROVE  maxConcurrent' = maxConcurrent
  BY <1>5 DEF WaitForActiveTasks, WaiterTimesOut, laneVars
<1>6. maxConcurrent' = maxConcurrent => OneSlotInv'
  BY DEF OneSlotInv
<1> QED
  BY <1>1, <1>2, <1>3, <1>4, <1>5, <1>6 DEF LaneAction, QuietStep

(* With one slot, whose ids are those of the current runs, a start finds no *)
(* run.                                                                    *)
LEMMA SerialStep ==
  ASSUME TypeOK, QueueInv, IdsInv, StackInv, SlotsMatchRuns, OneSlotInv, SerialLaneIsSerial, LaneAction
  PROVE  SerialLaneIsSerial'
<1> USE CommandLanesAssumption DEF CommandLanesAssumption
<1>1. ASSUME \A l \in Lanes \ ConfiguredLanes : CurrentRuns(l)' \subseteq CurrentRuns(l) PROVE SerialLaneIsSerial'
  BY <1>1 DEF SerialLaneIsSerial
<1>2. ASSUME NEW l \in Lanes, PumpStart(l) PROVE SerialLaneIsSerial'
  <2> DEFINE h == Head(queue[l])
  <2>1. /\ phase' = [phase EXCEPT ![h] = "running"]
        /\ taskGeneration' = [taskGeneration EXCEPT ![h] = generation[l]]
        /\ generation' = generation
        /\ queue[l] # <<>> /\ Cardinality(activeTaskIds[l]) < maxConcurrent[l]
    BY <1>2 DEF PumpStart, MayStart
  <2>2. h \in Entries /\ LaneOf[h] = l
    BY <1>2, PumpHead DEF PumpStart
  <2> HIDE DEF h
  <2>3. \A k \in Lanes : CurrentRuns(k)' \subseteq CurrentRuns(k) \cup {h}
    BY <2>1, <2>2 DEF CurrentRuns, TypeOK
  <2>4. \A k \in Lanes : k # l => h \notin CurrentRuns(k)'
    BY <2>2 DEF CurrentRuns
  <2>5. l \notin ConfiguredLanes => CurrentRuns(l) = {}
    <3>1. SUFFICES ASSUME l \notin ConfiguredLanes PROVE CurrentRuns(l) = {}
      OBVIOUS
    <3>2. IsFiniteSet(activeTaskIds[l]) /\ maxConcurrent[l] = 1
      BY <3>1 DEF TypeOK, OneSlotInv
    <3>3. Cardinality(activeTaskIds[l]) = 0
      BY <2>1, <3>2, FS_CardinalityType
    <3>4. activeTaskIds[l] = {}
      BY <3>2, <3>3, FS_EmptySet
    <3>5. \A e \in CurrentRuns(l) : taskId[e] \in {taskId[f] : f \in CurrentRuns(l)}
      OBVIOUS
    <3>6. activeTaskIds[l] = {taskId[f] : f \in CurrentRuns(l)}
      BY DEF SlotsMatchRuns
    <3> QED
      BY <3>4, <3>5, <3>6
  <2>6. ASSUME NEW k \in Lanes \ ConfiguredLanes, NEW e \in CurrentRuns(k)', NEW f \in CurrentRuns(k)' PROVE e = f
    <3>1. CASE k = l
      BY <3>1, <2>3, <2>5
    <3>2. CASE k # l
      BY <3>2, <2>3, <2>4 DEF SerialLaneIsSerial
    <3> QED
      BY <3>1, <3>2
  <2> QED
    BY <2>6 DEF SerialLaneIsSerial
<1>3. ASSUME UNCHANGED <<taskGeneration, generation>>,
             \A e \in Entries : phase'[e] = "running" => phase[e] = "running"
      PROVE  SerialLaneIsSerial'
  BY <1>1, <1>3 DEF CurrentRuns
<1>4. ASSUME NEW e \in Entries, EnqueueCommandInLane(e) PROVE SerialLaneIsSerial'
  <2>1. \E p \in {"queued", "refused"} : phase' = [phase EXCEPT ![e] = p]
    BY <1>4 DEF EnqueueCommandInLane
  <2>2. \A f \in Entries : phase'[f] = "running" => phase[f] = "running"
    BY <2>1 DEF TypeOK
  <2> QED
    BY <1>3, <1>4, <2>2 DEF EnqueueCommandInLane
<1>5. ASSUME NEW e \in Entries, NEW o \in Outcomes, NEW rest, phase[e] = "running", Complete(e, o, rest)
      PROVE  SerialLaneIsSerial'
  BY <1>3, <1>5, CompleteFrame
<1>6. ASSUME TaskThrows PROVE SerialLaneIsSerial'
  <2>1. Complete(Top.entry, "rejected", Popped) /\ Top.entry \in Entries /\ phase[Top.entry] = "running"
    BY <1>6, CompletesRunning DEF TaskThrows
  <2> QED
    BY <1>5, <2>1, "rejected" \in Outcomes DEF Outcomes
<1>7. ASSUME NEW e \in Entries, TaskSettles(e) PROVE SerialLaneIsSerial'
  <2>1. PICK o \in Outcomes : Complete(e, o, stack)
    BY <1>7 DEF TaskSettles
  <2> QED
    BY <1>5, <1>7, <2>1 DEF TaskSettles
<1>8. ASSUME SettleEntry PROVE SerialLaneIsSerial'
  <2>1. Top.entry \in Entries /\ Top.outcome \in Outcomes
    BY <1>8, TopTypes DEF SettleEntry, TopIs, TypeOK
  <2>2. \A f \in Entries : phase'[f] = "running" => phase[f] = "running"
    BY <1>8, <2>1 DEF SettleEntry, TypeOK, Outcomes
  <2> QED
    BY <1>3, <1>8, <2>2 DEF SettleEntry, laneVars
<1>9. ASSUME NEW l \in Lanes, ClearCommandLane(l) PROVE SerialLaneIsSerial'
  BY <1>3, <1>9 DEF ClearCommandLane
<1>10. ASSUME ResetAllLanes PROVE SerialLaneIsSerial'
  <2>1. UNCHANGED <<taskGeneration, phase>> /\ \A l \in Lanes : generation'[l] = generation[l] + 1
    BY <1>10 DEF ResetAllLanes, ResetPass, NextGenerations, entryVars
  <2>2. \A l \in Lanes : CurrentRuns(l)' = {}
    BY <2>1 DEF CurrentRuns, IdsInv, TypeOK
  <2> QED
    BY <2>2 DEF SerialLaneIsSerial
<1>11. ASSUME QuietStep \/ UNCHANGED vars, ~ResetAllLanes PROVE generation' = generation
  BY <1>11, QuietSlots
<1>12. ASSUME QuietStep \/ UNCHANGED vars PROVE SerialLaneIsSerial'
  BY <1>3, <1>10, <1>11, <1>12, QuietFrame
<1> QED
  BY <1>2, <1>4, <1>6, <1>7, <1>8, <1>9, <1>12 DEF LaneAction

-----------------------------------------------------------------------------
(* Wake-ups. *)
LEMMA WakeupKept ==
  ASSUME WakeupInv,
         \A l \in Lanes : draining'[l] => PumpOn(stack', l) \/ draining[l],
         \A l \in Lanes : MayStart(l)' => MayStart(l) \/ PumpOn(stack', l) \/ ResetOn(stack', l),
         \A l \in Lanes : PumpOn(stack, l) /\ (draining'[l] \/ MayStart(l)') => PumpOn(stack', l),
         \A l \in Lanes : ResetOn(stack, l) /\ MayStart(l)' => PumpOn(stack', l) \/ ResetOn(stack', l)
  PROVE  WakeupInv'
<1>1. ASSUME NEW l \in Lanes
      PROVE  /\ draining'[l] => PumpOn(stack', l)
             /\ MayStart(l)' => PumpOn(stack', l) \/ ResetOn(stack', l)
  BY DEF WakeupInv
<1> QED
  BY <1>1 DEF WakeupInv, PumpOn, ResetOn, PumpFrame

(* A call of drainLane(l) on top of frames that keep every lane but l. *)
LEMMA WakeupDrainLane ==
  ASSUME TypeOK, WakeupInv, NEW l \in Lanes, NEW rest \in Seq(Frames), DrainLane(l, rest),
         \A k \in Lanes : PumpOn(stack, k) => PumpOn(rest, k),
         \A k \in Lanes : k # l /\ ResetOn(stack, k) => ResetOn(rest, k),
         \A k \in Lanes : k # l /\ MayStart(k)' => MayStart(k)
  PROVE  WakeupInv'
<1>1. \A k \in Lanes : draining[k] => PumpOn(rest, k)
  BY DEF WakeupInv
<1>2. /\ PumpOn(stack', l)
      /\ \A k \in Lanes : draining'[k] => PumpOn(stack', k)
      /\ \A k : PumpOn(rest, k) => PumpOn(stack', k)
      /\ \A k : ResetOn(rest, k) => ResetOn(stack', k)
  BY <1>1, DrainLaneOn
<1>3. \A k \in Lanes : MayStart(k)' => PumpOn(stack', k) \/ ResetOn(stack', k)
  BY <1>2 DEF WakeupInv
<1> QED
  BY <1>2, <1>3 DEF WakeupInv, PumpOn, ResetOn, PumpFrame

(* The pump a completion starts covers the slot it frees.                  *)
LEMMA WakeupComplete ==
  ASSUME TypeOK, WakeupInv, NEW e \in Entries, NEW o \in Outcomes, NEW rest \in Seq(Frames), Complete(e, o, rest),
         \A k \in Lanes : PumpOn(stack, k) => PumpOn(rest, k),
         \A k \in Lanes : ResetOn(stack, k) => ResetOn(rest, k)
  PROVE  WakeupInv'
<1> USE CommandLanesAssumption DEF CommandLanesAssumption
<1> DEFINE l == LaneOf[e]
<1>1. draining' = draining /\ queue' = queue /\ maxConcurrent' = maxConcurrent
  BY DEF Complete
<1>2. CASE taskGeneration[e] = generation[l]
  <2>1. stack' = Append(Append(rest, SettleFrame(e, o)), PumpFrame(l))
    BY <1>2 DEF Complete
  <2>2. \A k \in Lanes : k # l => activeTaskIds'[k] = activeTaskIds[k]
    BY <1>2 DEF Complete, TypeOK
  <2>3. SettleFrame(e, o) \in Frames /\ PumpFrame(l) \in Frames /\ Append(rest, SettleFrame(e, o)) \in Seq(Frames)
    BY FrameTypes, AppendProperties
  <2>4. /\ \A k \in Lanes : PumpOn(rest, k) => PumpOn(stack', k)
        /\ \A k \in Lanes : ResetOn(rest, k) => ResetOn(stack', k)
        /\ PumpOn(stack', l)
    BY <2>1, <2>3, AppendOn
  <2>5. \A k \in Lanes : MayStart(k)' => MayStart(k) \/ k = l
    BY <1>1, <2>2 DEF MayStart
  <2> QED
    BY <1>1, <2>4, <2>5, WakeupKept
<1>3. CASE taskGeneration[e] # generation[l]
  <2>1. stack' = rest /\ activeTaskIds' = activeTaskIds
    BY <1>3 DEF Complete
  <2>2. \A k \in Lanes : MayStart(k)' => MayStart(k)
    BY <1>1, <2>1 DEF MayStart
  <2> QED
    BY <1>1, <2>1, <2>2, WakeupKept
<1> QED
  BY <1>2, <1>3

(* Every lane with a free slot and waiting entries has a pump on the stack,*)
(* or a reset about to drain it.                                           *)
LEMMA WakeupStep ==
  ASSUME TypeOK, StackInv, WakeupInv, LaneAction
  PROVE  WakeupInv'
<1> USE CommandLanesAssumption DEF CommandLanesAssumption
<1>0. stack \in Seq(Frames)
  BY DEF TypeOK
<1>1. ASSUME UNCHANGED <<draining, stack>>, \A l \in Lanes : MayStart(l)' => MayStart(l) PROVE WakeupInv'
  BY <1>1, WakeupKept
<1>2. ASSUME NEW e \in Entries, EnqueueCommandInLane(e) PROVE WakeupInv'
  <2>1. CASE gatewayDraining
    BY <1>1, <1>2, <2>1 DEF EnqueueCommandInLane, MayStart
  <2>2. CASE ~gatewayDraining
    <3>1. DrainLane(LaneOf[e], stack) /\ LaneOf[e] \in Lanes
      BY <1>2, <2>2 DEF EnqueueCommandInLane
    <3>2. \A k \in Lanes : k # LaneOf[e] => queue'[k] = queue[k]
      BY <1>2, <2>2 DEF EnqueueCommandInLane, TypeOK
    <3>3. \A k \in Lanes : k # LaneOf[e] /\ MayStart(k)' => MayStart(k)
      BY <1>2, <3>2 DEF EnqueueCommandInLane, MayStart
    <3> QED
      BY <1>0, <3>1, <3>3, WakeupDrainLane
  <2> QED
    BY <2>1, <2>2
<1>3. ASSUME NEW l \in Lanes, PumpStart(l) PROVE WakeupInv'
  <2>1. /\ draining' = draining /\ maxConcurrent' = maxConcurrent
        /\ stack' = Append(stack, TaskFrame(Head(queue[l]))) /\ TopIs("pump") /\ Top.lane = l
    BY <1>3 DEF PumpStart
  <2>2. TaskFrame(Head(queue[l])) \in Frames
    <3>1. queue[l] \in Seq(Entries) /\ queue[l] # <<>>
      BY <1>3 DEF PumpStart, MayStart, TypeOK
    <3> QED
      BY <3>1, HeadTailProperties, FrameTypes
  <2>3. /\ \A k \in Lanes : PumpOn(stack, k) => PumpOn(stack', k)
        /\ \A k \in Lanes : ResetOn(stack, k) => ResetOn(stack', k)
    BY <1>0, <2>1, <2>2, AppendOn
  <2>4. PumpOn(stack, l)
    <3>1. Top = PumpFrame(l) /\ Len(stack) \in 1..Len(stack)
      BY <1>0, <2>1, TopTypes, PoppedType DEF TopIs
    <3> QED
      BY <3>1 DEF PumpOn, Top
  <2>5. \A k \in Lanes : k # l => queue'[k] = queue[k] /\ activeTaskIds'[k] = activeTaskIds[k]
    BY <1>3 DEF PumpStart, TypeOK
  <2>6. \A k \in Lanes : k # l /\ MayStart(k)' => MayStart(k)
    BY <2>1, <2>5 DEF MayStart
  <2> QED
    BY <2>1, <2>3, <2>4, <2>6, WakeupKept
<1>4. ASSUME NEW l \in Lanes, PumpExit(l) PROVE WakeupInv'
  <2>1. /\ stack # <<>> /\ Top.op = "pump" /\ Top.lane = l /\ stack' = Popped /\ ~MayStart(l)
        /\ draining' = [draining EXCEPT ![l] = FALSE]
        /\ UNCHANGED <<queue, activeTaskIds, maxConcurrent>>
    BY <1>4 DEF PumpExit, TopIs
  <2>2. \A k \in Lanes : MayStart(k)' <=> MayStart(k)
    BY <2>1 DEF MayStart
  <2>3. ~draining'[l] /\ \A k \in Lanes : draining'[k] => draining[k]
    BY <2>1 DEF TypeOK
  <2>4. \A k \in Lanes : k # l => Top # PumpFrame(k)
    BY <2>1 DEF PumpFrame
  <2>5. /\ \A k \in Lanes : k # l /\ PumpOn(stack, k) => PumpOn(stack', k)
        /\ \A k \in Lanes : ResetOn(stack, k) => ResetOn(stack', k)
    BY <1>0, <2>1, <2>4, PoppedOn
  <2> QED
    BY <2>1, <2>2, <2>3, <2>5, WakeupKept
<1>5. ASSUME TopIs("task") \/ TopIs("settle")
      PROVE  /\ \A k \in Lanes : PumpOn(stack, k) => PumpOn(Popped, k)
             /\ \A k \in Lanes : ResetOn(stack, k) => ResetOn(Popped, k)
  <2>1. stack # <<>> /\ Top.op # "reset" /\ \A k \in Lanes : Top # PumpFrame(k)
    BY <1>5 DEF TopIs, PumpFrame
  <2> QED
    BY <1>0, <2>1, PoppedOn
<1>6. ASSUME TaskAwaits \/ SettleEntry PROVE WakeupInv'
  <2>1. TopIs("task") \/ TopIs("settle")
    BY <1>6 DEF TaskAwaits, SettleEntry
  <2>2. stack' = Popped /\ UNCHANGED <<draining, queue, activeTaskIds, maxConcurrent>>
    BY <1>6 DEF TaskAwaits, SettleEntry, laneVars
  <2>3. \A k \in Lanes : MayStart(k)' => MayStart(k)
    BY <2>2 DEF MayStart
  <2> QED
    BY <1>5, <2>1, <2>2, <2>3, WakeupKept
<1>7. ASSUME TaskThrows PROVE WakeupInv'
  <2>1. /\ Complete(Top.entry, "rejected", Popped) /\ Top.entry \in Entries /\ Popped \in Seq(Frames)
        /\ TopIs("task") /\ "rejected" \in Outcomes
    BY <1>7, CompletesRunning DEF TaskThrows, Outcomes
  <2> QED
    BY <1>5, <2>1, WakeupComplete
<1>8. ASSUME NEW e \in Entries, TaskSettles(e) PROVE WakeupInv'
  <2>1. PICK o \in Outcomes : Complete(e, o, stack)
    BY <1>8 DEF TaskSettles
  <2> QED
    BY <1>0, <2>1, WakeupComplete
<1>9. ASSUME NEW l \in ConfiguredLanes, NEW n \in ConcurrencyInputs, SetCommandLaneConcurrency(l, n)
      PROVE  WakeupInv'
  <2>1. l \in Lanes /\ DrainLane(l, stack) /\ UNCHANGED <<queue, activeTaskIds>>
    BY <1>9 DEF SetCommandLaneConcurrency
  <2>2. \A k \in Lanes : k # l => maxConcurrent'[k] = maxConcurrent[k]
    BY <1>9 DEF SetCommandLaneConcurrency, TypeOK
  <2>3. \A k \in Lanes : k # l /\ MayStart(k)' => MayStart(k)
    BY <2>1, <2>2 DEF MayStart
  <2> QED
    BY <1>0, <2>1, <2>3, WakeupDrainLane
<1>10. ASSUME NEW l \in Lanes, ClearCommandLane(l) PROVE WakeupInv'
  <2>1. queue' = [queue EXCEPT ![l] = <<>>] /\ UNCHANGED <<draining, stack, activeTaskIds, maxConcurrent>>
    BY <1>10 DEF ClearCommandLane
  <2>2. \A k \in Lanes : MayStart(k)' => MayStart(k)
    BY <2>1 DEF MayStart, TypeOK
  <2> QED
    BY <1>1, <2>1, <2>2
<1>11. ASSUME ResetAllLanes PROVE WakeupInv'
  <2>1. stack' = <<ResetFrame(LanesWithWork)>> /\ queue' = queue /\ \A l \in Lanes : ~draining'[l]
    BY <1>11 DEF ResetAllLanes, ResetPass
  <2>2. \A l \in Lanes : MayStart(l)' => l \in LanesWithWork
    BY <2>1 DEF MayStart, LanesWithWork
  <2>3. \A l \in LanesWithWork : ResetOn(stack', l)
    BY <2>1 DEF ResetOn, ResetFrame
  <2> QED
    BY <2>1, <2>2, <2>3 DEF WakeupInv, PumpOn, ResetOn, PumpFrame
<1>12. ASSUME NEW l \in Lanes, ResetDrainsLane(l) PROVE WakeupInv'
  <2> DEFINE f == ResetFrame(Top.lanes \ {l})
             rest == Append(Popped, f)
  <2>1. /\ stack # <<>> /\ Top.op = "reset" /\ Top.lanes \in SUBSET Lanes /\ DrainLane(l, rest)
        /\ UNCHANGED <<queue, activeTaskIds, maxConcurrent>>
    BY <1>0, <1>12, TopTypes DEF ResetDrainsLane, TopIs
  <2>2. f \in Frames /\ f.op = "reset" /\ f.lanes = Top.lanes \ {l}
    BY <2>1, FrameTypes DEF ResetFrame
  <2>3. Popped \in Seq(Frames) /\ rest \in Seq(Frames)
    BY <1>0, <2>1, <2>2, PoppedType, AppendProperties
  <2>4. \A k \in Lanes : Top # PumpFrame(k)
    BY <2>1 DEF PumpFrame
  <2> HIDE DEF f
  <2>5. \A k \in Lanes : PumpOn(stack, k) => PumpOn(rest, k)
    BY <1>0, <2>1, <2>2, <2>3, <2>4, PoppedOn, AppendOn
  <2>6. \A k \in Lanes : k # l /\ ResetOn(stack, k) => ResetOn(rest, k)
    <3>1. ASSUME NEW k \in Lanes, k # l, ResetOn(stack, k) PROVE ResetOn(rest, k)
      <4>1. CASE k \in Top.lanes
        BY <3>1, <4>1, <2>2, <2>3, AppendOn
      <4>2. CASE k \notin Top.lanes
        <5>1. ResetOn(Popped, k)
          BY <1>0, <2>1, <3>1, <4>2, PoppedOn
        <5> QED
          BY <5>1, <2>2, <2>3, AppendOn
      <4> QED
        BY <4>1, <4>2
    <3> QED
      BY <3>1
  <2>7. \A k \in Lanes : MayStart(k)' => MayStart(k)
    BY <2>1 DEF MayStart
  <2> HIDE DEF rest
  <2> QED
    BY <2>1, <2>3, <2>5, <2>6, <2>7, WakeupDrainLane
<1>13. ASSUME ResetReturns PROVE WakeupInv'
  <2>1. /\ stack # <<>> /\ Top.op = "reset" /\ Top.lanes = {} /\ stack' = Popped
        /\ UNCHANGED <<draining, queue, activeTaskIds, maxConcurrent>>
    BY <1>13 DEF ResetReturns, TopIs, laneVars
  <2>2. \A k \in Lanes : Top # PumpFrame(k)
    BY <2>1 DEF PumpFrame
  <2>3. /\ \A k \in Lanes : PumpOn(stack, k) => PumpOn(stack', k)
        /\ \A k \in Lanes : ResetOn(stack, k) => ResetOn(stack', k)
    BY <1>0, <2>1, <2>2, PoppedOn
  <2>4. \A k \in Lanes : MayStart(k)' => MayStart(k)
    BY <2>1 DEF MayStart
  <2> QED
    BY <2>1, <2>3, <2>4, WakeupKept
<1>14. ASSUME \/ MarkGatewayDraining \/ UNCHANGED vars
              \/ \E w \in Waiters : (\E p \in BOOLEAN : WaitForActiveTasks(w, p)) \/ WaiterTimesOut(w)
       PROVE  WakeupInv'
  BY <1>1, <1>14 DEF MarkGatewayDraining, WaitForActiveTasks, WaiterTimesOut, laneVars, vars, MayStart
<1> QED
  BY <1>2, <1>3, <1>4, <1>6, <1>7, <1>8, <1>9, <1>10, <1>11, <1>12, <1>13, <1>14 DEF LaneAction, QuietStep

-----------------------------------------------------------------------------
(* The inductive invariant. *)
LEMMA IInvInit == Init => IInv
<1> SUFFICES ASSUME Init PROVE IInv
  OBVIOUS
<1>1. TypeOK
  BY TypeInit
<1>2. \A l \in Lanes : queue[l] = <<>> /\ ~draining[l] /\ maxConcurrent[l] = 1 /\ activeTaskIds[l] = {}
  BY DEF Init
<1>3. \A e \in Entries : phase[e] = "new" /\ taskId[e] = 0
  BY DEF Init
<1>4. stack = <<>> /\ nextTaskId = 1 /\ Len(stack) = 0
  BY DEF Init
<1>5. QueueInv
  BY <1>2 DEF QueueInv
<1>6. IdsInv
  BY <1>3, <1>4 DEF IdsInv
<1>7. StackInv
  BY <1>4 DEF StackInv, FramesOK
<1>8. \A l \in Lanes : CurrentRuns(l) = {}
  BY <1>3 DEF CurrentRuns
<1>9. SlotsMatchRuns /\ SerialLaneIsSerial /\ OneSlotInv
  BY <1>2, <1>8 DEF SlotsMatchRuns, SerialLaneIsSerial, OneSlotInv
<1>10. WakeupInv
  BY <1>2 DEF WakeupInv, MayStart
<1> QED
  BY <1>1, <1>5, <1>6, <1>7, <1>9, <1>10 DEF IInv

(* Every step of the queue keeps the inductive invariant.                  *)
LEMMA IInvStep == IInv /\ LaneAction => IInv'
BY TypeStep, QueueStep, IdsStep, StackStep, SlotsStep, OneSlotStep, SerialStep, WakeupStep DEF IInv

(* In every behaviour of the queue its slots, ids, queues, call stack and  *)
(* pumps stay consistent: the inductive invariant the safety theorems use. *)
THEOREM IInvAlways == Spec => []IInv
BY IInvInit, IInvStep, NextSplit, PTL DEF Spec

(* Every slot of a lane belongs to one task of the current generation that  *)
(* still runs, whatever is reset, cleared, reconfigured or thrown:         *)
(* completeTask frees a slot once and stale completions free none.         *)
THEOREM SlotsCorrect == Spec => []SlotsMatchRuns
<1>1. IInv => SlotsMatchRuns
  BY DEF IInv
<1> QED
  BY IInvAlways, <1>1, PTL

(* A session lane, which keeps the one slot getLaneState gives it, never    *)
(* runs two tasks of the current generation.                               *)
THEOREM SessionLanesSerial == Spec => []SerialLaneIsSerial
<1>1. IInv => SerialLaneIsSerial
  BY DEF IInv
<1> QED
  BY IInvAlways, <1>1, PTL

(* Whenever the event loop is idle, no lane has a free slot and a waiting   *)
(* entry, and none is left marked draining.                                *)
THEOREM NoWakeupLost == Spec => []NoLostWakeup
<1>1. IInv => NoLostWakeup
  <2> SUFFICES ASSUME IInv, Idle, NEW l \in Lanes PROVE ~MayStart(l) /\ ~draining[l]
    BY DEF NoLostWakeup
  <2>1. Len(stack) = 0
    BY DEF Idle
  <2>2. ~PumpOn(stack, l) /\ ~ResetOn(stack, l)
    BY <2>1 DEF PumpOn, ResetOn
  <2> QED
    BY <2>2 DEF IInv, WakeupInv
<1> QED
  BY IInvAlways, <1>1, PTL

-----------------------------------------------------------------------------
(* waitForActiveTasks answers its callers truly, and none of them waits for *)
(* nothing.                                                                *)

(* A reset is under way: it will notify the waiters when it returns. *)
ResetPending(st) == \E i \in 1..Len(st) : st[i].op = "reset"

(* A waiter's ids were given out before it asked; one told "drained" waits  *)
(* for no id that holds a slot; one that waits, for some id or a reset.    *)
WaitersInv ==
  \A w \in Waiters :
    /\ \A i \in waiters[w].ids : i < nextTaskId
    /\ waiters[w].state = "drained" => waiters[w].ids \cap ActiveIds(activeTaskIds) = {}
    /\ waiters[w].state = "waiting" => \/ waiters[w].ids \cap ActiveIds(activeTaskIds) # {}
                                       \/ ResetPending(stack)

-----------------------------------------------------------------------------
(* The ids that hold a slot were given out. *)
LEMMA ActiveBelow ==
  ASSUME TypeOK, IdsInv, SlotsMatchRuns
  PROVE  \A i \in ActiveIds(activeTaskIds) : i < nextTaskId
<1> SUFFICES ASSUME NEW l \in Lanes, NEW i \in activeTaskIds[l] PROVE i < nextTaskId
  BY DEF ActiveIds
<1>1. PICK e \in CurrentRuns(l) : i = taskId[e]
  BY DEF SlotsMatchRuns
<1>2. e \in Entries
  BY DEF CurrentRuns
<1> QED
  BY <1>1, <1>2 DEF IdsInv

(* notifyActiveTaskWaiters tells those waiters "drained" whose ids hold no  *)
(* slot, and leaves the ids and the other waiters alone.                   *)
LEMMA NotifiedWaiters ==
  ASSUME NEW ws \in [Waiters -> [state : WaiterStates, ids : SUBSET Nat]], NEW act, NEW w \in Waiters
  PROVE  /\ Notified(ws, act)[w].ids = ws[w].ids
         /\ Notified(ws, act)[w].state = "drained"
              => ws[w].state = "drained" \/ ws[w].ids \cap ActiveIds(act) = {}
         /\ Notified(ws, act)[w].state = "waiting"
              => ws[w].state = "waiting" /\ ws[w].ids \cap ActiveIds(act) # {}
<1>1. CASE ws[w].state = "waiting" /\ ws[w].ids \cap ActiveIds(act) = {}
  <2>1. Notified(ws, act)[w] = [ws[w] EXCEPT !.state = "drained"]
    BY <1>1 DEF Notified
  <2>2. ws[w] \in [state : WaiterStates, ids : SUBSET Nat]
    OBVIOUS
  <2>3. Notified(ws, act)[w].state = "drained" /\ Notified(ws, act)[w].ids = ws[w].ids
    BY <2>1, <2>2
  <2> QED
    BY <1>1, <2>3
<1>2. CASE ~(ws[w].state = "waiting" /\ ws[w].ids \cap ActiveIds(act) = {})
  <2>1. Notified(ws, act)[w] = ws[w]
    BY <1>2 DEF Notified
  <2> QED
    BY <1>2, <2>1
<1> QED
  BY <1>1, <1>2

(* Appending a frame keeps a reset under way, and a reset frame begins one. *)
LEMMA ResetKept ==
  ASSUME NEW st \in Seq(Frames)
  PROVE  /\ \A f \in Frames : ResetPending(st) => ResetPending(Append(st, f))
         /\ \A f \in Frames : f.op = "reset" => ResetPending(Append(st, f))
<1> SUFFICES ASSUME NEW f \in Frames
             PROVE  /\ ResetPending(st) => ResetPending(Append(st, f))
                    /\ f.op = "reset" => ResetPending(Append(st, f))
  OBVIOUS
<1>1. /\ Len(st) \in Nat
      /\ Len(Append(st, f)) = Len(st) + 1
      /\ \A i \in 1..Len(st) : Append(st, f)[i] = st[i]
      /\ Append(st, f)[Len(st) + 1] = f
  BY AppendProperties, LenProperties
<1>2. Len(st) + 1 \in 1..Len(Append(st, f)) /\ 1..Len(st) \subseteq 1..Len(Append(st, f))
  BY <1>1
<1> QED
  BY <1>1, <1>2 DEF ResetPending

(* A return from a frame that is no reset keeps a reset under way. *)
LEMMA ResetPopped ==
  ASSUME stack \in Seq(Frames), stack # <<>>, Top.op # "reset", ResetPending(stack)
  PROVE  ResetPending(Popped)
<1>1. \A i \in 1..Len(stack) : i # Len(stack) => i \in 1..Len(Popped) /\ Popped[i] = stack[i]
  BY PoppedType
<1> QED
  BY <1>1 DEF ResetPending, Top

(* drainLane keeps a reset under way. *)
LEMMA ResetDrainLane ==
  ASSUME NEW l \in Lanes, NEW rest \in Seq(Frames), DrainLane(l, rest), ResetPending(rest)
  PROVE  ResetPending(stack')
<1>1. CASE draining[l]
  BY <1>1 DEF DrainLane, ResetPending
<1>2. CASE ~draining[l]
  <2>1. stack' = Append(rest, PumpFrame(l))
    BY <1>2 DEF DrainLane
  <2> QED
    BY <2>1, ResetKept, FrameTypes
<1> QED
  BY <1>1, <1>2

-----------------------------------------------------------------------------
(* Steps that leave waiters, slots and ids alone keep the invariant if they *)
(* keep a reset under way.                                                 *)
LEMMA WaitersKept ==
  ASSUME WaitersInv, UNCHANGED <<waiters, activeTaskIds, nextTaskId>>,
         ResetPending(stack) => ResetPending(stack')
  PROVE  WaitersInv'
BY DEF WaitersInv, ActiveIds

(* A completion frees one slot and notifies, or is stale and frees none.    *)
LEMMA WaitersComplete ==
  ASSUME TypeOK, WaitersInv, NEW e \in Entries, NEW o \in Outcomes, NEW rest \in Seq(Frames),
         Complete(e, o, rest), ResetPending(stack) => ResetPending(rest)
  PROVE  WaitersInv'
<1> USE CommandLanesAssumption DEF CommandLanesAssumption
<1>1. CASE taskGeneration[e] = generation[LaneOf[e]]
  <2>1. /\ activeTaskIds' = [activeTaskIds EXCEPT ![LaneOf[e]] = @ \ {taskId[e]}]
        /\ waiters' = Notified(waiters, activeTaskIds') /\ nextTaskId' = nextTaskId
    BY <1>1 DEF Complete
  <2>2. ActiveIds(activeTaskIds)' = ActiveIds(activeTaskIds')
    BY DEF ActiveIds
  <2>3. ActiveIds(activeTaskIds') \subseteq ActiveIds(activeTaskIds)
    BY <2>1 DEF ActiveIds, TypeOK
  <2>4. ASSUME NEW w \in Waiters
        PROVE  /\ \A i \in waiters'[w].ids : i < nextTaskId'
               /\ waiters'[w].state = "drained" => waiters'[w].ids \cap ActiveIds(activeTaskIds') = {}
               /\ waiters'[w].state = "waiting" => waiters'[w].ids \cap ActiveIds(activeTaskIds') # {}
    <3>1. /\ waiters'[w].ids = waiters[w].ids
          /\ waiters'[w].state = "drained"
               => waiters[w].state = "drained" \/ waiters[w].ids \cap ActiveIds(activeTaskIds') = {}
          /\ waiters'[w].state = "waiting" => waiters[w].ids \cap ActiveIds(activeTaskIds') # {}
      BY <2>1, NotifiedWaiters DEF TypeOK
    <3> QED
      BY <2>1, <2>3, <3>1 DEF WaitersInv
  <2> QED
    BY <2>2, <2>4 DEF WaitersInv
<1>2. CASE taskGeneration[e] # generation[LaneOf[e]]
  <2>1. UNCHANGED <<waiters, activeTaskIds, nextTaskId>> /\ stack' = rest
    BY <1>2 DEF Complete
  <2>2. ResetPending(stack) => ResetPending(stack')
    BY <2>1 DEF ResetPending
  <2> QED
    BY <2>1, <2>2, WaitersKept
<1> QED
  BY <1>1, <1>2

(* A new call starts from the ids that hold a slot now: it is answered at   *)
(* once, or waits for one of them.                                         *)
LEMMA WaitersAsk ==
  ASSUME TypeOK, IdsInv, SlotsMatchRuns, WaitersInv, NEW w \in Waiters, NEW p \in BOOLEAN,
         UNCHANGED <<activeTaskIds, nextTaskId, stack>>, waiters' = Asked(w, p)
  PROVE  WaitersInv'
<1> DEFINE ids == ActiveIds(activeTaskIds)
           answer(s) == [waiters EXCEPT ![w] = [state |-> s, ids |-> ids]]
<1>1. UNCHANGED <<activeTaskIds, nextTaskId, stack>> /\ waiters' = Asked(w, p)
  OBVIOUS
<1>2. ids \in SUBSET Nat /\ \A i \in ids : i < nextTaskId
  BY ActiveBelow DEF ActiveIds, TypeOK
<1>3. \A v \in Waiters :
        v # w => waiters'[v] = waiters[v] \/ waiters'[v] = Notified(answer("waiting"), activeTaskIds)[v]
  BY <1>1 DEF Asked, TypeOK
<1>4. answer("waiting") \in [Waiters -> [state : WaiterStates, ids : SUBSET Nat]]
  BY <1>2 DEF TypeOK, WaiterStates
<1>5. /\ \A v \in Waiters : v # w => answer("waiting")[v] = waiters[v]
      /\ answer("waiting")[w].ids = ids /\ answer("waiting")[w].state = "waiting"
  BY DEF TypeOK
<1>6. ASSUME NEW v \in Waiters, v # w
      PROVE  /\ waiters'[v].ids = waiters[v].ids
             /\ waiters'[v].state = "drained" => waiters[v].state = "drained" \/ waiters[v].ids \cap ids = {}
             /\ waiters'[v].state = "waiting" => waiters[v].state = "waiting"
  <2> HIDE DEF answer
  <2> QED
    BY <1>3, <1>4, <1>5, <1>6, NotifiedWaiters
<1>7. /\ waiters'[w].ids = ids
      /\ waiters'[w].state = "drained" => ids = {}
      /\ waiters'[w].state = "waiting" => ids # {}
  <2>1. CASE ids = {}
    <3>1. waiters' = answer("drained")
      BY <1>1, <2>1 DEF Asked
    <3> QED
      BY <2>1, <3>1 DEF TypeOK
  <2>2. CASE ids # {} /\ ~p
    <3>1. waiters' = answer("timedOut")
      BY <1>1, <2>2 DEF Asked
    <3> QED
      BY <2>2, <3>1 DEF TypeOK
  <2>3. CASE ids # {} /\ p
    <3>1. waiters' = Notified(answer("waiting"), activeTaskIds)
      BY <1>1, <2>3 DEF Asked
    <3>2. waiters'[w] = answer("waiting")[w]
      BY <1>5, <2>3, <3>1 DEF Notified
    <3> QED
      BY <1>5, <2>3, <3>2
  <2> QED
    BY <2>1, <2>2, <2>3
<1>8. ASSUME NEW v \in Waiters
      PROVE  /\ \A i \in waiters'[v].ids : i < nextTaskId
             /\ waiters'[v].state = "drained" => waiters'[v].ids \cap ids = {}
             /\ waiters'[v].state = "waiting" => waiters'[v].ids \cap ids # {} \/ ResetPending(stack)
  BY <1>2, <1>6, <1>7 DEF WaitersInv
<1>9. UNCHANGED <<ActiveIds(activeTaskIds), ResetPending(stack)>>
  BY <1>1 DEF ActiveIds, ResetPending
<1> QED
  BY <1>1, <1>8, <1>9 DEF WaitersInv

(* A task that starts holds an id no waiter has seen.                       *)
LEMMA WaitersPump ==
  ASSUME TypeOK, WaitersInv, NEW l \in Lanes, PumpStart(l)
  PROVE  WaitersInv'
<1>1. /\ activeTaskIds' = [activeTaskIds EXCEPT ![l] = activeTaskIds[l] \cup {nextTaskId}]
      /\ nextTaskId' = nextTaskId + 1 /\ waiters' = waiters
      /\ stack' = Append(stack, TaskFrame(Head(queue[l])))
  BY DEF PumpStart
<1>2. ActiveIds(activeTaskIds)' = ActiveIds(activeTaskIds) \cup {nextTaskId}
  BY <1>1 DEF ActiveIds, TypeOK
<1>3. TaskFrame(Head(queue[l])) \in Frames
  <2>1. queue[l] \in Seq(Entries) /\ queue[l] # <<>>
    BY DEF PumpStart, MayStart, TypeOK
  <2> QED
    BY <2>1, HeadTailProperties, FrameTypes
<1>4. ResetPending(stack) => ResetPending(stack)'
  <2>1. ResetPending(stack) => ResetPending(stack')
    BY <1>1, <1>3, ResetKept DEF TypeOK
  <2> QED
    BY <2>1 DEF ResetPending
<1>5. ASSUME NEW w \in Waiters
      PROVE  /\ waiters[w].ids \subseteq Nat /\ nextTaskId \in Nat
             /\ \A i \in waiters[w].ids : i < nextTaskId /\ i < nextTaskId + 1 /\ i # nextTaskId
  BY DEF WaitersInv, TypeOK
<1> QED
  BY <1>1, <1>2, <1>4, <1>5 DEF WaitersInv

(* A reset empties the slots with a reset frame on the stack; its return    *)
(* notifies.                                                               *)
LEMMA WaitersReset ==
  ASSUME TypeOK, WaitersInv, ResetAllLanes \/ ResetReturns
  PROVE  WaitersInv'
<1>1. CASE ResetAllLanes
  <2>1. /\ activeTaskIds' = [l \in Lanes |-> {}] /\ nextTaskId' = nextTaskId /\ waiters' = waiters
        /\ stack' = <<ResetFrame(LanesWithWork)>>
    BY <1>1 DEF ResetAllLanes, ResetPass
  <2>2. ActiveIds(activeTaskIds)' = {}
    BY <2>1 DEF ActiveIds
  <2>3. ResetPending(stack)'
    BY <2>1 DEF ResetPending, ResetFrame
  <2> QED
    BY <2>1, <2>2, <2>3 DEF WaitersInv
<1>2. CASE ResetReturns
  <2>1. /\ UNCHANGED <<activeTaskIds, nextTaskId>>
        /\ waiters' = Notified(waiters, activeTaskIds)
    BY <1>2 DEF ResetReturns, laneVars
  <2>2. ActiveIds(activeTaskIds)' = ActiveIds(activeTaskIds)
    BY <2>1 DEF ActiveIds
  <2>3. ASSUME NEW w \in Waiters
        PROVE  /\ \A i \in waiters'[w].ids : i < nextTaskId
               /\ waiters'[w].state = "drained" => waiters'[w].ids \cap ActiveIds(activeTaskIds) = {}
               /\ waiters'[w].state = "waiting" => waiters'[w].ids \cap ActiveIds(activeTaskIds) # {}
    <3>1. /\ waiters'[w].ids = waiters[w].ids
          /\ waiters'[w].state = "drained"
               => waiters[w].state = "drained" \/ waiters[w].ids \cap ActiveIds(activeTaskIds) = {}
          /\ waiters'[w].state = "waiting" => waiters[w].ids \cap ActiveIds(activeTaskIds) # {}
      BY <2>1, NotifiedWaiters DEF TypeOK
    <3> QED
      BY <3>1 DEF WaitersInv
  <2> QED
    BY <2>1, <2>2, <2>3 DEF WaitersInv
<1> QED
  BY <1>1, <1>2
-----------------------------------------------------------------------------
(* Every step of the queue keeps the waiters' part of the invariant.        *)
LEMMA WaitersStep ==
  ASSUME IInv, WaitersInv, LaneAction
  PROVE  WaitersInv'
<1> USE CommandLanesAssumption DEF CommandLanesAssumption
<1>0. TypeOK /\ IdsInv /\ StackInv /\ SlotsMatchRuns /\ stack \in Seq(Frames)
  BY DEF IInv, TypeOK
<1>1. ASSUME UNCHANGED <<waiters, activeTaskIds, nextTaskId>>,
             NEW l \in Lanes, NEW rest \in Seq(Frames), DrainLane(l, rest),
             ResetPending(stack) => ResetPending(rest)
      PROVE  WaitersInv'
  BY <1>1, ResetDrainLane, WaitersKept
<1>2. ASSUME UNCHANGED <<waiters, activeTaskIds, nextTaskId>>, stack' = stack PROVE WaitersInv'
  BY <1>2, WaitersKept
<1>3. ASSUME NEW e \in Entries, EnqueueCommandInLane(e) PROVE WaitersInv'
  <2>1. CASE gatewayDraining
    BY <1>2, <1>3, <2>1 DEF EnqueueCommandInLane
  <2>2. CASE ~gatewayDraining
    <3>1. DrainLane(LaneOf[e], stack) /\ LaneOf[e] \in Lanes /\ UNCHANGED <<waiters, activeTaskIds, nextTaskId>>
      BY <1>3, <2>2 DEF EnqueueCommandInLane
    <3> QED
      BY <1>0, <1>1, <3>1
  <2> QED
    BY <2>1, <2>2
<1>4. ASSUME NEW l \in Lanes, PumpStart(l) PROVE WaitersInv'
  BY <1>0, <1>4, WaitersPump
<1>5. ASSUME NEW l \in Lanes, ClearCommandLane(l) PROVE WaitersInv'
  BY <1>2, <1>5 DEF ClearCommandLane
<1>6. ASSUME NEW e \in Entries, TaskSettles(e) PROVE WaitersInv'
  <2>1. PICK o \in Outcomes : Complete(e, o, stack)
    BY <1>6 DEF TaskSettles
  <2> QED
    BY <1>0, <2>1, WaitersComplete
<1>7. ASSUME TaskThrows PROVE WaitersInv'
  <2>1. /\ Complete(Top.entry, "rejected", Popped) /\ Top.entry \in Entries /\ Popped \in Seq(Frames)
        /\ stack # <<>> /\ Top.op # "reset" /\ "rejected" \in Outcomes
    BY <1>0, <1>7, CompletesRunning DEF TaskThrows, TopIs, Outcomes
  <2> QED
    BY <1>0, <2>1, ResetPopped, WaitersComplete
<1>8. ASSUME TaskAwaits \/ SettleEntry \/ \E l \in Lanes : PumpExit(l) PROVE WaitersInv'
  <2>1. /\ stack # <<>> /\ Top.op # "reset" /\ stack' = Popped
        /\ UNCHANGED <<waiters, activeTaskIds, nextTaskId>>
    BY <1>8 DEF TaskAwaits, SettleEntry, PumpExit, TopIs, laneVars
  <2>2. ResetPending(stack) => ResetPending(stack')
    BY <1>0, <2>1, ResetPopped
  <2> QED
    BY <2>1, <2>2, WaitersKept
<1>9. ASSUME NEW l \in Lanes, ResetDrainsLane(l) PROVE WaitersInv'
  <2> DEFINE f == ResetFrame(Top.lanes \ {l})
  <2>1. /\ stack # <<>> /\ Top.lanes \in SUBSET Lanes /\ DrainLane(l, Append(Popped, f))
        /\ UNCHANGED <<waiters, activeTaskIds, nextTaskId>>
    BY <1>0, <1>9, TopTypes DEF ResetDrainsLane, TopIs
  <2>2. f \in Frames /\ f.op = "reset"
    BY <2>1, FrameTypes DEF ResetFrame
  <2> HIDE DEF f
  <2>3. Popped \in Seq(Frames) /\ Append(Popped, f) \in Seq(Frames)
    BY <1>0, <2>1, <2>2, PoppedType, AppendProperties
  <2>4. ResetPending(Append(Popped, f))
    BY <2>2, <2>3, ResetKept
  <2> QED
    BY <1>1, <2>1, <2>3, <2>4
<1>10. ASSUME ResetAllLanes \/ ResetReturns PROVE WaitersInv'
  BY <1>0, <1>10, WaitersReset
<1>11. ASSUME NEW l \in ConfiguredLanes, NEW n \in ConcurrencyInputs, SetCommandLaneConcurrency(l, n)
       PROVE  WaitersInv'
  <2>1. l \in Lanes /\ DrainLane(l, stack) /\ UNCHANGED <<waiters, activeTaskIds, nextTaskId>>
    BY <1>11 DEF SetCommandLaneConcurrency
  <2> QED
    BY <1>0, <1>1, <2>1
<1>12. ASSUME NEW w \in Waiters, NEW p \in BOOLEAN, WaitForActiveTasks(w, p) PROVE WaitersInv'
  BY <1>0, <1>12, WaitersAsk DEF WaitForActiveTasks, laneVars
<1>13. ASSUME NEW w \in Waiters, WaiterTimesOut(w) PROVE WaitersInv'
  <2>1. /\ waiters' = [waiters EXCEPT ![w].state = "timedOut"]
        /\ UNCHANGED <<activeTaskIds, nextTaskId, stack>>
    BY <1>13 DEF WaiterTimesOut, laneVars
  <2>2. \A v \in Waiters : waiters'[v].ids = waiters[v].ids
                         /\ (waiters'[v].state = waiters[v].state \/ waiters'[v].state = "timedOut")
    BY <1>0, <2>1 DEF TypeOK
  <2>3. ActiveIds(activeTaskIds)' = ActiveIds(activeTaskIds) /\ ResetPending(stack)' = ResetPending(stack)
    BY <2>1 DEF ActiveIds, ResetPending
  <2> QED
    BY <2>1, <2>2, <2>3 DEF WaitersInv
<1>14. ASSUME MarkGatewayDraining \/ UNCHANGED vars PROVE WaitersInv'
  BY <1>2, <1>14 DEF MarkGatewayDraining, laneVars, vars
<1> QED
  BY <1>3, <1>4, <1>5, <1>6, <1>7, <1>8, <1>9, <1>10, <1>11, <1>12, <1>13, <1>14
  DEF LaneAction, QuietStep

(* In every behaviour of the queue the waiters' ids, answers and the slots  *)
(* agree: the part of the inductive invariant about waitForActiveTasks.    *)
THEOREM WaitersAlways == Spec => [](IInv /\ WaitersInv)
<1>1. Init => IInv /\ WaitersInv
  <2>1. Init => WaitersInv
    BY DEF Init, WaitersInv
  <2> QED
    BY <2>1, IInvInit
<1>2. (IInv /\ WaitersInv) /\ LaneAction => (IInv /\ WaitersInv)'
  BY IInvStep, WaitersStep
<1> QED
  BY <1>1, <1>2, NextSplit, PTL DEF Spec

(* waitForActiveTasks says "drained" only when no task it waited for runs   *)
(* in the current generation of its lane, whatever was reset meanwhile.    *)
THEOREM DrainedAnswerTrue == Spec => []DrainedIsTrue
<1>1. IInv /\ WaitersInv => DrainedIsTrue
  <2> SUFFICES ASSUME IInv, WaitersInv, NEW w \in Waiters, waiters[w].state = "drained",
                      NEW l \in Lanes, NEW e \in CurrentRuns(l)
               PROVE  taskId[e] \notin waiters[w].ids
    BY DEF DrainedIsTrue
  <2>1. taskId[e] \in activeTaskIds[l]
    BY DEF IInv, SlotsMatchRuns
  <2>2. taskId[e] \in ActiveIds(activeTaskIds)
    BY <2>1 DEF ActiveIds
  <2> QED
    BY <2>2 DEF WaitersInv
<1> QED
  BY WaitersAlways, <1>1, PTL

(* A call of waitForActiveTasks that is still pending when the event loop   *)
(* is idle waits for a task that holds a slot: no completion and no reset  *)
(* forgot to notify it.                                                    *)
THEOREM WaitersHaveReason == Spec => []WaiterHasReason
<1>1. IInv /\ WaitersInv => WaiterHasReason
  <2> SUFFICES ASSUME WaitersInv, Idle, NEW w \in Waiters, waiters[w].state = "waiting"
               PROVE  waiters[w].ids \cap ActiveIds(activeTaskIds) # {}
    BY DEF WaiterHasReason
  <2>1. Len(stack) = 0
    BY DEF Idle
  <2>2. ~ResetPending(stack)
    BY <2>1 DEF ResetPending
  <2> QED
    BY <2>2 DEF WaitersInv
<1> QED
  BY WaitersAlways, <1>1, PTL

-----------------------------------------------------------------------------
(* The lanes implement FifoLanes. *)

(* The slots in use are as many as the current runs.                       *)
LEMMA RunsFitSlots ==
  ASSUME IInv, NEW l \in Lanes
  PROVE  Cardinality(CurrentRuns(l)) \in Nat /\ Cardinality(CurrentRuns(l)) <= Cardinality(activeTaskIds[l])
<1> DEFINE f == [e \in CurrentRuns(l) |-> taskId[e]]
<1>1. activeTaskIds[l] = {taskId[e] : e \in CurrentRuns(l)} /\ IsFiniteSet(activeTaskIds[l])
  BY DEF IInv, SlotsMatchRuns, TypeOK
<1>2. \A d, e \in CurrentRuns(l) : taskId[d] = taskId[e] => d = e
  BY DEF IInv, IdsInv, CurrentRuns
<1>3. f \in Injection(CurrentRuns(l), activeTaskIds[l])
  BY <1>1, <1>2 DEF Injection, IsInjective
<1> HIDE DEF f
<1> QED
  BY <1>1, <1>3, FS_Injection, FS_CardinalityType

(* The operator of FiniteSets that FifoLanes uses is the one used here.     *)
LEMMA SameCardinality == \A S : Fifo!Cardinality(S) = Cardinality(S)
BY DEF Fifo!Cardinality, Cardinality

(* A step after which the same entries run in the same generations.        *)
LEMMA RunsKept ==
  ASSUME UNCHANGED <<taskGeneration, generation>>,
         \A e \in Entries : phase'[e] = "running" <=> phase[e] = "running"
  PROVE  \A l \in Lanes : CurrentRuns(l)' = CurrentRuns(l)
BY DEF CurrentRuns

(* An enqueue is accepted, or is refused and changes nothing.              *)
LEMMA EnqueueAccepts ==
  ASSUME IInv, NEW e \in Entries, EnqueueCommandInLane(e)
  PROVE  Fifo!Accept(e) \/ UNCHANGED Fifo!fifoVars
<1>1. phase[e] = "new" /\ phase \in [Entries -> Phases]
  BY DEF EnqueueCommandInLane, IInv, TypeOK
<1>2. UNCHANGED <<maxConcurrent, generation, taskGeneration>>
  BY DEF EnqueueCommandInLane
<1>3. \E p \in {"queued", "refused"} : phase' = [phase EXCEPT ![e] = p]
  BY DEF EnqueueCommandInLane
<1>4. \A l \in Lanes : CurrentRuns(l)' = CurrentRuns(l)
  BY <1>1, <1>2, <1>3, RunsKept
<1>5. CASE gatewayDraining
  <2>1. phase' = [phase EXCEPT ![e] = "refused"] /\ queue' = queue
    BY <1>5 DEF EnqueueCommandInLane
  <2>2. Came' = Came
    BY <1>1, <2>1 DEF Came
  <2> QED
    BY <1>2, <1>4, <2>1, <2>2 DEF Fifo!fifoVars
<1>6. CASE ~gatewayDraining
  <2>1. phase' = [phase EXCEPT ![e] = "queued"] /\ queue' = [queue EXCEPT ![LaneOf[e]] = Append(@, e)]
    BY <1>6 DEF EnqueueCommandInLane
  <2>2. Came' = Came \cup {e} /\ e \notin Came
    BY <1>1, <2>1 DEF Came
  <2> QED
    BY <1>2, <1>4, <2>1, <2>2 DEF Fifo!Accept
<1> QED
  BY <1>5, <1>6

(* pump takes the oldest entry of the lane, and only while the lane runs   *)
(* fewer than its limit.                                                   *)
LEMMA PumpStarts ==
  ASSUME IInv, NEW l \in Lanes, PumpStart(l)
  PROVE  Fifo!Start(l)
<1> DEFINE h == Head(queue[l])
<1>1. TypeOK /\ QueueInv /\ MayStart(l)
  BY DEF IInv, PumpStart
<1>2. /\ phase' = [phase EXCEPT ![h] = "running"]
      /\ taskGeneration' = [taskGeneration EXCEPT ![h] = generation[l]]
      /\ queue' = [queue EXCEPT ![l] = Tail(@)]
      /\ UNCHANGED <<generation, maxConcurrent>>
  BY DEF PumpStart
<1>3. h \in Entries /\ LaneOf[h] = l /\ phase[h] = "queued"
  BY <1>1, PumpHead
<1> HIDE DEF h
<1>4. \A k \in Lanes : CurrentRuns(k)' = IF k = l THEN CurrentRuns(k) \cup {h} ELSE CurrentRuns(k)
  <2>1. CurrentRuns(l)' = CurrentRuns(l) \cup {h}
    BY <1>1, <1>2, <1>3 DEF CurrentRuns, TypeOK
  <2>2. \A k \in Lanes : k # l => CurrentRuns(k)' = CurrentRuns(k)
    BY <1>1, <1>2, <1>3 DEF CurrentRuns, TypeOK
  <2> QED
    BY <2>1, <2>2
<1>5. Came' = Came
  BY <1>1, <1>2, <1>3 DEF Came, TypeOK
<1>6. queue[l] # <<>> /\ Cardinality(CurrentRuns(l)) < maxConcurrent[l]
  <2>1. queue[l] # <<>> /\ Cardinality(activeTaskIds[l]) < maxConcurrent[l]
    BY <1>1 DEF MayStart
  <2>2. Cardinality(activeTaskIds[l]) \in Nat /\ maxConcurrent[l] \in Nat
    BY <1>1, FS_CardinalityType DEF TypeOK
  <2> QED
    BY <2>1, <2>2, RunsFitSlots
<1>7. [k \in Lanes |-> CurrentRuns(k)]' = [[k \in Lanes |-> CurrentRuns(k)] EXCEPT ![l] = @ \cup {h}]
  BY <1>4
<1>8. [k \in Lanes |-> CurrentRuns(k)][l] = CurrentRuns(l)
  OBVIOUS
<1> QED
  BY <1>2, <1>5, <1>6, <1>7, <1>8, SameCardinality DEF Fifo!Start, h

(* A task that is done ends its run; a stale one ended with the reset.     *)
LEMMA CompleteEnds ==
  ASSUME IInv, NEW e \in Entries, NEW o \in Outcomes, NEW rest, phase[e] = "running", Complete(e, o, rest)
  PROVE  \/ \E l \in Lanes : Fifo!End(l, e)
         \/ UNCHANGED Fifo!fifoVars
<1> DEFINE l == LaneOf[e]
<1>0. TypeOK /\ l \in Lanes
  BY CommandLanesAssumption DEF IInv, CommandLanesAssumption
<1>1. /\ UNCHANGED <<queue, maxConcurrent, generation, taskGeneration>> /\ phase'[e] # "running"
      /\ \A f \in Entries : f # e => phase'[f] = phase[f]
  BY <1>0, CompleteFrame DEF Outcomes
<1>2. phase'[e] \notin {"new", "refused"}
  BY <1>0 DEF Complete, TypeOK, Outcomes
<1>3. Came' = Came
  BY <1>1, <1>2 DEF Came
<1>4. CASE taskGeneration[e] = generation[l]
  <2>1. e \in CurrentRuns(l)
    BY <1>4 DEF CurrentRuns
  <2>2. \A k \in Lanes : CurrentRuns(k)' = IF k = l THEN CurrentRuns(k) \ {e} ELSE CurrentRuns(k)
    BY <1>1 DEF CurrentRuns
  <2>3. Fifo!End(l, e)
    BY <1>0, <1>1, <1>3, <2>1, <2>2 DEF Fifo!End
  <2> QED
    BY <1>0, <2>3
<1>5. CASE taskGeneration[e] # generation[l]
  <2>1. \A k \in Lanes : CurrentRuns(k)' = CurrentRuns(k)
    BY <1>1, <1>5 DEF CurrentRuns
  <2> QED
    BY <1>1, <1>3, <2>1 DEF Fifo!fifoVars
<1> QED
  BY <1>4, <1>5

(* Clearing a lane takes all that waits in it and nothing that runs.       *)
LEMMA ClearClears ==
  ASSUME IInv, NEW l \in Lanes, ClearCommandLane(l)
  PROVE  Fifo!Clear(l)
<1>1. /\ queue' = [queue EXCEPT ![l] = <<>>]
      /\ UNCHANGED <<maxConcurrent, generation, taskGeneration>>
      /\ phase' = [e \in Entries |->
                     IF \E i \in 1..Len(queue[l]) : queue[l][i] = e THEN "cleared" ELSE phase[e]]
  BY DEF ClearCommandLane
<1>2. \A e \in Entries : phase'[e] = phase[e] \/ (phase[e] = "queued" /\ phase'[e] = "cleared")
  BY <1>1 DEF IInv, QueueInv
<1>3. Came' = Came
  BY <1>2 DEF Came
<1>4. \A k \in Lanes : CurrentRuns(k)' = CurrentRuns(k)
  BY <1>1, <1>2, RunsKept
<1> QED
  BY <1>1, <1>3, <1>4 DEF Fifo!Clear

(* A promise that is settled after its pump ended its run before.          *)
LEMMA SettleIsInner ==
  ASSUME IInv, SettleEntry
  PROVE  UNCHANGED Fifo!fifoVars
<1>1. TypeOK /\ Top.entry \in Entries /\ Top.outcome \in Outcomes /\ phase[Top.entry] = "settling"
  BY TopTypes, CompletesRunning DEF SettleEntry, TopIs, TypeOK, IInv
<1>2. phase' = [phase EXCEPT ![Top.entry] = Top.outcome]
      /\ UNCHANGED <<queue, maxConcurrent, generation, taskGeneration>>
  BY DEF SettleEntry, laneVars
<1>3. Came' = Came
  BY <1>1, <1>2 DEF Came, TypeOK, Outcomes
<1>4. \A k \in Lanes : CurrentRuns(k)' = CurrentRuns(k)
  BY <1>1, <1>2, RunsKept DEF TypeOK, Outcomes
<1> QED
  BY <1>2, <1>3, <1>4 DEF Fifo!fifoVars

(* A reset forgets every run at once and keeps what waits.                 *)
LEMMA ResetRestarts ==
  ASSUME IInv, ResetAllLanes
  PROVE  Fifo!Restart
<1>1. /\ UNCHANGED <<taskGeneration, phase, queue, maxConcurrent>>
      /\ \A l \in Lanes : generation'[l] = generation[l] + 1
  BY DEF ResetAllLanes, ResetPass, NextGenerations, entryVars
<1>2. \A l \in Lanes : CurrentRuns(l)' = {}
  BY <1>1 DEF CurrentRuns, IInv, IdsInv, TypeOK
<1>3. Came' = Came
  BY <1>1 DEF Came
<1> QED
  BY <1>1, <1>2, <1>3 DEF Fifo!Restart

(* The other quiet steps are inner ones, but for a new limit.              *)
LEMMA QuietIsInner ==
  ASSUME IInv, QuietStep \/ UNCHANGED vars
  PROVE  Fifo!FifoNext \/ UNCHANGED Fifo!fifoVars
<1>1. TypeOK /\ UNCHANGED <<queue, phase, taskGeneration>>
  BY QuietFrame DEF IInv
<1>2. Came' = Came
  BY <1>1 DEF Came
<1>3. CASE ResetAllLanes
  BY <1>3, ResetRestarts DEF Fifo!FifoNext
<1>4. CASE ~ResetAllLanes
  <2>1. generation' = generation
    BY <1>4, QuietSlots
  <2>2. \A k \in Lanes : CurrentRuns(k)' = CurrentRuns(k)
    BY <1>1, <2>1, RunsKept
  <2>3. ASSUME NEW l \in ConfiguredLanes, NEW n \in ConcurrencyInputs, SetCommandLaneConcurrency(l, n)
        PROVE  Fifo!FifoNext
    <3>1. maxConcurrent' = [maxConcurrent EXCEPT ![l] = Slots(n)]
      BY <2>3 DEF SetCommandLaneConcurrency
    <3>2. l \in Lanes /\ Slots(n) \in Nat \ {0}
      BY CommandLanesAssumption DEF CommandLanesAssumption, Slots
    <3>3. Fifo!SetLimit(l)
      BY <1>1, <1>2, <2>2, <3>1, <3>2 DEF Fifo!SetLimit, TypeOK
    <3> QED
      BY <3>2, <3>3 DEF Fifo!FifoNext
  <2>4. CASE maxConcurrent' = maxConcurrent
    BY <1>1, <1>2, <2>2, <2>4 DEF Fifo!fifoVars
  <2>5. (\A l \in ConfiguredLanes, n \in ConcurrencyInputs : ~SetCommandLaneConcurrency(l, n))
           => maxConcurrent' = maxConcurrent
    BY <1>4 DEF QuietStep, vars, laneVars, PumpExit, ResetDrainsLane, TaskAwaits, ResetReturns,
       MarkGatewayDraining, WaitForActiveTasks, WaiterTimesOut
  <2> QED
    BY <2>3, <2>4, <2>5
<1> QED
  BY <1>3, <1>4

LEMMA FifoBegins == Init => Fifo!FifoInit
<1> SUFFICES ASSUME Init PROVE Fifo!FifoInit
  OBVIOUS
<1>1. \A l \in Lanes : CurrentRuns(l) = {}
  BY DEF Init, CurrentRuns
<1> QED
  BY <1>1 DEF Init, Fifo!FifoInit, Came

(* Every step of the queue is a step of FifoLanes, or an inner one.        *)
LEMMA FifoStep ==
  ASSUME IInv, LaneAction
  PROVE  Fifo!FifoNext \/ UNCHANGED Fifo!fifoVars
<1>1. ASSUME NEW e \in Entries, EnqueueCommandInLane(e) PROVE Fifo!FifoNext \/ UNCHANGED Fifo!fifoVars
  BY <1>1, EnqueueAccepts DEF Fifo!FifoNext
<1>2. ASSUME NEW e \in Entries, NEW o \in Outcomes, NEW rest, phase[e] = "running", Complete(e, o, rest)
      PROVE  Fifo!FifoNext \/ UNCHANGED Fifo!fifoVars
  BY <1>2, CompleteEnds DEF Fifo!FifoNext
<1>3. ASSUME NEW e \in Entries, TaskSettles(e) PROVE Fifo!FifoNext \/ UNCHANGED Fifo!fifoVars
  BY <1>2, <1>3 DEF TaskSettles
<1>4. ASSUME TaskThrows PROVE Fifo!FifoNext \/ UNCHANGED Fifo!fifoVars
  <2>1. Complete(Top.entry, "rejected", Popped) /\ Top.entry \in Entries /\ phase[Top.entry] = "running"
    BY <1>4, CompletesRunning DEF TaskThrows, IInv
  <2> QED
    BY <1>2, <2>1, "rejected" \in Outcomes DEF Outcomes
<1>5. ASSUME NEW l \in Lanes, PumpStart(l) \/ ClearCommandLane(l) PROVE Fifo!FifoNext
  BY <1>5, PumpStarts, ClearClears DEF Fifo!FifoNext
<1> QED
  BY <1>1, <1>3, <1>4, <1>5, SettleIsInner, QuietIsInner DEF LaneAction

(* Ids, flags, nested pumps, generations and late completions come to lanes *)
(* that start their entries in order, each once, within their limits.      *)
THEOREM LanesImplementFifo == Spec => LanesAreFifo
<1>1. IInv /\ [Next]_vars => [Fifo!FifoNext]_(Fifo!fifoVars)
  BY NextSplit, FifoStep
<1> QED
  BY <1>1, FifoBegins, IInvAlways, PTL DEF Spec, LanesAreFifo, Fifo!FifoSpec
=============================================================================
