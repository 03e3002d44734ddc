-------------------------- MODULE KeyedAsyncQueue --------------------------
(***************************************************************************)
(* plugin-sdk/keyed-async-queue.ts with the counts that                    *)
(* acp/control-plane/session-actor-queue.ts keeps in its hooks.            *)
(*                                                                         *)
(* There is no list of tasks: a task is chained to the promise its key has *)
(* in the map of tails, and the map forgets a tail when it settles.  A     *)
(* task is its number; its previous one is 0 when its key had no tail.     *)
(* Each reaction of a promise is a step, and new tasks may come in before  *)
(* it.                                                                     *)
(***************************************************************************)
EXTENDS Integers, FiniteSets

CONSTANTS Keys,       \* keys (actor keys of sessions)
          MaxTasks    \* bound on the tasks enqueued

ASSUME KeyedQueueAssumption == MaxTasks \in Nat

VARIABLES
  tails,              \* per key: the task whose tail is in the map, or 0
  links,              \* per task: its key, the one it is chained to, how far it is
  enqueued,           \* number of tasks enqueued
  pendingBySession    \* per key: the count of the hooks

keyedVars == <<tails, links, enqueued, pendingBySession>>

(* The function is called at "running"; its promise has settled at          *)
(* "settled", onSettle has run at "counted", and the tail has settled and  *)
(* the map been looked at when it is "gone".                               *)
TaskPhases == {"queued", "running", "settled", "counted", "gone"}

KeyedTypeOK ==
  /\ enqueued \in 0..MaxTasks
  /\ tails \in [Keys -> 0..enqueued]
  /\ links \in [1..enqueued -> [key : Keys, previous : 0..MaxTasks, phase : TaskPhases]]
  /\ pendingBySession \in [Keys -> Nat]

KeyedInit ==
  /\ tails = [k \in Keys |-> 0]
  /\ links = [t \in 1..0 |-> 0]
  /\ enqueued = 0
  /\ pendingBySession = [k \in Keys |-> 0]

InPhase(t, phase) == t \in 1..enqueued /\ links[t].phase = phase
MovesTo(t, phase) == links' = [links EXCEPT ![t].phase = phase]

-----------------------------------------------------------------------------
(* enqueueKeyedTask. *)
EnqueueKeyedTask(k) ==
  /\ enqueued < MaxTasks
  /\ enqueued' = enqueued + 1
  /\ pendingBySession' = [pendingBySession EXCEPT ![k] = @ + 1]
  /\ links' = [t \in 1..enqueued' |->
       IF t \in 1..enqueued THEN links[t] ELSE [key |-> k, previous |-> tails[k], phase |-> "queued"]]
  /\ tails' = [tails EXCEPT ![k] = enqueued']

(* previous.catch().then(task): the reaction that looks at the map was      *)
(* registered with the tail before this one, so it has run.                *)
TaskStarts(t) ==
  /\ InPhase(t, "queued")
  /\ links[t].previous # 0 => InPhase(links[t].previous, "gone")
  /\ MovesTo(t, "running")
  /\ UNCHANGED <<tails, enqueued, pendingBySession>>

(* The task resolves or rejects. *)
TaskSettles(t) ==
  /\ InPhase(t, "running")
  /\ MovesTo(t, "settled")
  /\ UNCHANGED <<tails, enqueued, pendingBySession>>

(* onSettle; a count that would be 0 is deleted and read as 0. *)
OnSettle(t) ==
  /\ InPhase(t, "settled")
  /\ MovesTo(t, "counted")
  /\ pendingBySession' = [pendingBySession EXCEPT ![links[t].key] = IF @ > 1 THEN @ - 1 ELSE 0]
  /\ UNCHANGED <<tails, enqueued>>

(* Mutant: the key's tail is deleted, whosever it is. *)
TailSettles_AnyTail(t) ==
  /\ InPhase(t, "counted")
  /\ MovesTo(t, "gone")
  /\ tails' = [tails EXCEPT ![links[t].key] = 0]
  /\ UNCHANGED <<enqueued, pendingBySession>>

(* The tail settles and is deleted, unless a later task replaced it. *)
TailSettles(t) ==
  /\ InPhase(t, "counted")
  /\ MovesTo(t, "gone")
  /\ tails' = [tails EXCEPT ![links[t].key] = IF @ = t THEN 0 ELSE @]
  /\ UNCHANGED <<enqueued, pendingBySession>>

KeyedNext ==
  \/ \E k \in Keys : EnqueueKeyedTask(k)
  \/ \E t \in 1..MaxTasks : TaskStarts(t) \/ TaskSettles(t) \/ OnSettle(t) \/ TailSettles(t)

(* Reactions of settled promises run, those of a task one after the other; *)
(* a task need not settle.                                                 *)
KeyedFairness ==
  \A t \in 1..MaxTasks : WF_keyedVars(TaskStarts(t) \/ OnSettle(t) \/ TailSettles(t))

KeyedQueueSpec == KeyedInit /\ [][KeyedNext]_keyedVars

KeyedQueueFairSpec == KeyedQueueSpec /\ KeyedFairness

-----------------------------------------------------------------------------
TasksIn(k, phases) == {t \in 1..enqueued : links[t].key = k /\ links[t].phase \in phases}

Mutex == INSTANCE KeyedMutex WITH
  waiting <- [k \in Keys |-> TasksIn(k, {"queued"})],
  active  <- [k \in Keys |-> TasksIn(k, {"running", "settled", "counted"})]

(* The map of tails makes a queue per key: the tasks of a key run one at a  *)
(* time in their order, whatever comes in while a tail settles, and a task *)
(* that is not held back by an earlier one of its key starts.              *)
QueuesPerKey == Mutex!MutexFairSpec
=============================================================================
