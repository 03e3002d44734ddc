----------------------- MODULE KeyedAsyncQueueProofs -----------------------
(***************************************************************************)
(* The chain of promises of KeyedAsyncQueue implements KeyedMutex, for any *)
(* keys and any number of tasks.                                           *)
(***************************************************************************)
EXTENDS KeyedAsyncQueue, TLAPS

SameKey(t, u) == links[t].key = links[u].key

(* A task starts after every earlier one of its key is gone. *)
OrderInv ==
  \A t, u \in 1..enqueued :
    u < t /\ SameKey(t, u) /\ links[t].phase # "queued" => links[u].phase = "gone"

(* What a task is chained to is the last of the earlier tasks of its key    *)
(* that are not gone, if there is one.                                     *)
ChainInv ==
  \A t \in 1..enqueued :
    /\ links[t].previous # 0 => links[t].previous < t /\ SameKey(t, links[t].previous)
    /\ \A u \in 1..enqueued :
         u < t /\ SameKey(t, u) /\ links[u].phase # "gone" => u <= links[t].previous

(* So is the tail of the key of a task that may come next. *)
TailInv ==
  /\ \A k \in Keys : tails[k] # 0 => links[tails[k]].key = k
  /\ \A u \in 1..enqueued : links[u].phase # "gone" => u <= tails[links[u].key]

KeyedInv == KeyedTypeOK /\ OrderInv /\ ChainInv /\ TailInv

-----------------------------------------------------------------------------
(* The queue begins with its invariant. *)
LEMMA KeyedInvInit == ASSUME KeyedQueueAssumption, KeyedInit PROVE KeyedInv
<1>1. enqueued = 0 /\ 1..enqueued = {}
  BY DEF KeyedInit
<1>2. KeyedTypeOK
  <2>1. tails \in [Keys -> 0..enqueued]
    BY <1>1 DEF KeyedInit
  <2>2. links \in [1..enqueued -> [key : Keys, previous : 0..MaxTasks, phase : TaskPhases]]
    BY <1>1 DEF KeyedInit
  <2>3. pendingBySession \in [Keys -> Nat] /\ enqueued \in 0..MaxTasks
    BY DEF KeyedInit, KeyedQueueAssumption
  <2>. QED
    BY <2>1, <2>2, <2>3 DEF KeyedTypeOK
<1>3. OrderInv /\ ChainInv
  BY <1>1 DEF OrderInv, ChainInv
<1>4. TailInv
  BY <1>1 DEF TailInv, KeyedInit
<1>. QED
  BY <1>2, <1>3, <1>4 DEF KeyedInv

(* A step that moves a task on from a phase: what the other fields of the   *)
(* tasks are afterwards.                                                   *)
LEMMA MoveFacts ==
  ASSUME KeyedTypeOK, NEW t \in 1..enqueued, NEW phase \in TaskPhases, MovesTo(t, phase), enqueued' = enqueued
  PROVE  /\ links' \in [1..enqueued -> [key : Keys, previous : 0..MaxTasks, phase : TaskPhases]]
         /\ \A u \in 1..enqueued :
              /\ links'[u].key = links[u].key /\ links'[u].previous = links[u].previous
              /\ links'[u].phase = IF u = t THEN phase ELSE links[u].phase
BY DEF KeyedTypeOK, MovesTo

(* A new task: the tasks before it are as they were. *)
LEMMA EnqueueFacts ==
  ASSUME KeyedTypeOK, KeyedQueueAssumption, NEW k \in Keys, EnqueueKeyedTask(k)
  PROVE  /\ enqueued \in Nat /\ enqueued' = enqueued + 1 /\ enqueued' \in 1..MaxTasks
         /\ \A u \in 1..enqueued : u \in 1..enqueued' /\ links'[u] = links[u]
         /\ links'[enqueued'] = [key |-> k, previous |-> tails[k], phase |-> "queued"]
         /\ links'[enqueued'].key = k /\ links'[enqueued'].phase = "queued"
         /\ tails[k] \in 0..enqueued
         /\ tails' = [tails EXCEPT ![k] = enqueued']
         /\ \A u \in 1..enqueued' : u \in 1..enqueued \/ u = enqueued'
<1>1. enqueued \in Nat /\ enqueued' = enqueued + 1 /\ enqueued' \in 1..MaxTasks
  BY DEF EnqueueKeyedTask, KeyedTypeOK, KeyedQueueAssumption
<1>2. links'[enqueued'] = [key |-> k, previous |-> tails[k], phase |-> "queued"]
  BY <1>1 DEF EnqueueKeyedTask
<1>3. \A u \in 1..enqueued : u \in 1..enqueued' /\ links'[u] = links[u]
  BY <1>1 DEF EnqueueKeyedTask
<1>4. tails[k] \in 0..enqueued /\ tails' = [tails EXCEPT ![k] = enqueued']
  BY DEF EnqueueKeyedTask, KeyedTypeOK
<1>5. \A u \in 1..enqueued' : u \in 1..enqueued \/ u = enqueued'
  BY <1>1
<1>. QED
  BY <1>1, <1>2, <1>3, <1>4, <1>5

(* The types are kept. *)
LEMMA KeyedTypeStep ==
  ASSUME KeyedTypeOK, KeyedQueueAssumption, KeyedNext
  PROVE  KeyedTypeOK'
<1>1. ASSUME NEW k \in Keys, EnqueueKeyedTask(k) PROVE KeyedTypeOK'
  <2>1. /\ enqueued \in Nat /\ enqueued' = enqueued + 1 /\ enqueued' \in 1..MaxTasks
        /\ tails[k] \in 0..MaxTasks
    <3>1. enqueued \in Nat /\ enqueued' = enqueued + 1 /\ enqueued' \in 1..MaxTasks /\ tails[k] \in 0..enqueued
      BY <1>1, EnqueueFacts
    <3>. QED
      BY <3>1
  <2>2. [key |-> k, previous |-> tails[k], phase |-> "queued"] \in [key : Keys, previous : 0..MaxTasks, phase : TaskPhases]
    BY <2>1 DEF TaskPhases
  <2>3. links' \in [1..enqueued' -> [key : Keys, previous : 0..MaxTasks, phase : TaskPhases]]
    <3>. DEFINE Link == [key : Keys, previous : 0..MaxTasks, phase : TaskPhases]
                new  == [key |-> k, previous |-> tails[k], phase |-> "queued"]
    <3>1. links' = [t \in 1..enqueued' |-> IF t \in 1..enqueued THEN links[t] ELSE new]
      BY <1>1 DEF EnqueueKeyedTask
    <3>2. \A t \in 1..enqueued : links[t] \in Link
      BY DEF KeyedTypeOK
    <3>3. new \in Link
      BY <2>2
    <3>. HIDE DEF Link, new
    <3>4. links' \in [1..enqueued' -> Link]
      BY <3>1, <3>2, <3>3
    <3>. QED
      BY <3>4 DEF Link
  <2>4. tails' \in [Keys -> 0..enqueued'] /\ pendingBySession' \in [Keys -> Nat]
    BY <1>1, <2>1 DEF EnqueueKeyedTask, KeyedTypeOK
  <2>. QED
    <3>1. enqueued' \in 0..MaxTasks
      BY <2>1
    <3>. QED
      BY <2>3, <2>4, <3>1 DEF KeyedTypeOK
<1>2. ASSUME NEW t \in 1..MaxTasks, TaskStarts(t) \/ TaskSettles(t) \/ OnSettle(t) \/ TailSettles(t)
      PROVE  KeyedTypeOK'
  <2>1. t \in 1..enqueued /\ enqueued' = enqueued /\ \E phase \in TaskPhases : MovesTo(t, phase)
    BY <1>2 DEF TaskStarts, TaskSettles, OnSettle, TailSettles, InPhase, TaskPhases
  <2>2. links' \in [1..enqueued' -> [key : Keys, previous : 0..MaxTasks, phase : TaskPhases]]
    BY <2>1, MoveFacts
  <2>3. links[t].key \in Keys
    BY <2>1 DEF KeyedTypeOK
  <2>4. tails' \in [Keys -> 0..enqueued']
    <3>1. tails' = tails \/ tails' = [tails EXCEPT ![links[t].key] = IF @ = t THEN 0 ELSE @]
      BY <1>2 DEF TaskStarts, TaskSettles, OnSettle, TailSettles
    <3>2. 0 \in 0..enqueued
      BY DEF KeyedTypeOK
    <3>. QED
      BY <2>1, <2>3, <3>1, <3>2 DEF KeyedTypeOK
  <2>5. pendingBySession' \in [Keys -> Nat]
    <3>1. \/ pendingBySession' = pendingBySession
          \/ pendingBySession' = [pendingBySession EXCEPT ![links[t].key] = IF @ > 1 THEN @ - 1 ELSE 0]
      BY <1>2 DEF TaskStarts, TaskSettles, OnSettle, TailSettles
    <3>2. pendingBySession \in [Keys -> Nat]
      BY DEF KeyedTypeOK
    <3>. QED
      BY <2>3, <3>1, <3>2
  <2>. QED
    BY <2>1, <2>2, <2>4, <2>5 DEF KeyedTypeOK
<1>. QED
  BY <1>1, <1>2 DEF KeyedNext

(* When a task starts, the earlier ones of its key are gone: the one it is  *)
(* chained to is, and that one started after the others.                   *)
LEMMA StartsInTurn ==
  ASSUME KeyedInv, NEW t \in 1..MaxTasks, TaskStarts(t), NEW u \in 1..enqueued, u < t, SameKey(t, u)
  PROVE  links[u].phase = "gone"
<1>. DEFINE p == links[t].previous
<1>1. t \in 1..enqueued /\ (p # 0 => InPhase(p, "gone"))
  BY DEF TaskStarts, InPhase
<1>2. SUFFICES ASSUME links[u].phase # "gone" PROVE FALSE
  OBVIOUS
<1>3. p \in Nat /\ u <= p
  BY <1>1, <1>2 DEF KeyedInv, ChainInv, KeyedTypeOK
<1>4. p \in 1..enqueued /\ links[p].phase = "gone" /\ SameKey(t, p)
  BY <1>1, <1>3 DEF InPhase, KeyedInv, ChainInv
<1>5. u # p
  BY <1>2, <1>4
<1>6. u < p /\ SameKey(p, u)
  BY <1>3, <1>4, <1>5 DEF SameKey
<1>. QED
  BY <1>2, <1>4, <1>6 DEF KeyedInv, OrderInv

(* The order is kept. *)
LEMMA OrderStep ==
  ASSUME KeyedInv, KeyedQueueAssumption, KeyedNext
  PROVE  OrderInv'
<1>1. KeyedTypeOK /\ OrderInv
  BY DEF KeyedInv
<1>2. ASSUME NEW k \in Keys, EnqueueKeyedTask(k) PROVE OrderInv'
  <2>. DEFINE n == enqueued'
  <2>1. /\ enqueued \in Nat /\ n = enqueued + 1
        /\ \A u \in 1..enqueued : links'[u] = links[u]
        /\ links'[n].phase = "queued"
        /\ \A u \in 1..n : u \in 1..enqueued \/ u = n
    BY <1>1, <1>2, EnqueueFacts
  <2>2. ASSUME NEW t \in 1..n, NEW u \in 1..n, u < t, links'[t].key = links'[u].key, links'[t].phase # "queued"
        PROVE  links'[u].phase = "gone"
    <3>1. t \in 1..enqueued /\ u \in 1..enqueued
      BY <2>1, <2>2
    <3>. QED
      BY <1>1, <2>1, <2>2, <3>1 DEF OrderInv, SameKey
  <2>. QED
    BY <2>2 DEF OrderInv, SameKey
<1>3. ASSUME NEW t \in 1..MaxTasks, TaskStarts(t) PROVE OrderInv'
  <2>1. t \in 1..enqueued /\ enqueued' = enqueued /\ MovesTo(t, "running") /\ links[t].phase = "queued"
    BY <1>3 DEF TaskStarts, InPhase
  <2>2. \A u \in 1..enqueued :
          /\ links'[u].key = links[u].key
          /\ links'[u].phase = IF u = t THEN "running" ELSE links[u].phase
    BY <1>1, <2>1, MoveFacts DEF TaskPhases
  <2>3. \A u \in 1..enqueued : u < t /\ SameKey(t, u) => links[u].phase = "gone"
    BY <1>3, StartsInTurn
  <2>. QED
    BY <1>1, <2>1, <2>2, <2>3 DEF OrderInv, SameKey
<1>4. ASSUME NEW t \in 1..MaxTasks, TaskSettles(t) \/ OnSettle(t) \/ TailSettles(t) PROVE OrderInv'
  <2>1. PICK phase \in TaskPhases \ {"queued"} : t \in 1..enqueued /\ enqueued' = enqueued /\ MovesTo(t, phase)
    BY <1>4 DEF TaskSettles, OnSettle, TailSettles, InPhase, TaskPhases
  <2>2. links[t].phase \notin {"queued", "gone"}
    BY <1>4 DEF TaskSettles, OnSettle, TailSettles, InPhase
  <2>3. \A u \in 1..enqueued :
          /\ links'[u].key = links[u].key
          /\ links'[u].phase = IF u = t THEN phase ELSE links[u].phase
    BY <1>1, <2>1, MoveFacts
  <2>. QED
    BY <1>1, <2>1, <2>2, <2>3 DEF OrderInv, SameKey
<1>. QED
  BY <1>2, <1>3, <1>4 DEF KeyedNext

(* The chain is kept: a new task is chained to the tail of its key. *)
LEMMA ChainStep ==
  ASSUME KeyedInv, KeyedQueueAssumption, KeyedNext
  PROVE  ChainInv'
<1>1. KeyedTypeOK /\ ChainInv /\ TailInv
  BY DEF KeyedInv
<1>2. ASSUME NEW k \in Keys, EnqueueKeyedTask(k) PROVE ChainInv'
  <2>. DEFINE n == enqueued'
  <2>1. /\ enqueued \in Nat /\ n = enqueued + 1
        /\ \A u \in 1..enqueued : u \in 1..n /\ links'[u] = links[u]
        /\ links'[n] = [key |-> k, previous |-> tails[k], phase |-> "queued"]
        /\ tails[k] \in 0..enqueued
        /\ \A u \in 1..n : u \in 1..enqueued \/ u = n
    BY <1>1, <1>2, EnqueueFacts
  <2>2. ASSUME NEW t \in 1..enqueued
        PROVE  /\ links'[t].previous # 0 =>
                    links'[t].previous < t /\ links'[t].key = links'[links'[t].previous].key
               /\ \A u \in 1..n :
                    u < t /\ links'[t].key = links'[u].key /\ links'[u].phase # "gone" => u <= links'[t].previous
    <3>1. links[t].previous \in 0..MaxTasks
      BY <1>1 DEF KeyedTypeOK
    <3>2. links[t].previous # 0 => links[t].previous \in 1..enqueued
      BY <1>1, <2>1, <3>1 DEF ChainInv
    <3>. QED
      BY <1>1, <2>1, <3>1, <3>2 DEF ChainInv, SameKey
  <2>3. /\ tails[k] # 0 => tails[k] < n /\ k = links'[tails[k]].key
        /\ \A u \in 1..n : u < n /\ k = links'[u].key /\ links'[u].phase # "gone" => u <= tails[k]
    BY <1>1, <2>1 DEF TailInv
  <2>4. \A t \in 1..n :
          /\ links'[t].previous # 0 =>
               links'[t].previous < t /\ links'[t].key = links'[links'[t].previous].key
          /\ \A u \in 1..n :
               u < t /\ links'[t].key = links'[u].key /\ links'[u].phase # "gone" => u <= links'[t].previous
    BY <2>1, <2>2, <2>3
  <2>. QED
    BY <2>4 DEF ChainInv, SameKey
<1>3. ASSUME NEW t \in 1..MaxTasks, TaskStarts(t) \/ TaskSettles(t) \/ OnSettle(t) \/ TailSettles(t)
      PROVE  ChainInv'
  <2>1. PICK phase \in TaskPhases : t \in 1..enqueued /\ enqueued' = enqueued /\ MovesTo(t, phase)
    BY <1>3 DEF TaskStarts, TaskSettles, OnSettle, TailSettles, InPhase, TaskPhases
  <2>2. links[t].phase # "gone"
    BY <1>3 DEF TaskStarts, TaskSettles, OnSettle, TailSettles, InPhase
  <2>3. \A u \in 1..enqueued :
          /\ links'[u].key = links[u].key /\ links'[u].previous = links[u].previous
          /\ links'[u].phase # "gone" => links[u].phase # "gone"
    BY <1>1, <2>1, <2>2, MoveFacts
  <2>4. \A u \in 1..enqueued : links[u].previous # 0 => links[u].previous \in 1..enqueued
    BY <1>1 DEF KeyedTypeOK, ChainInv
  <2>. QED
    BY <1>1, <2>1, <2>3, <2>4 DEF ChainInv, SameKey
<1>. QED
  BY <1>2, <1>3 DEF KeyedNext

(* The tails are kept: the one that is deleted is of the last task that was *)
(* not gone.                                                               *)
LEMMA TailStep ==
  ASSUME KeyedInv, KeyedQueueAssumption, KeyedNext
  PROVE  TailInv'
<1>1. KeyedTypeOK /\ OrderInv /\ TailInv
  BY DEF KeyedInv
<1>2. ASSUME NEW k \in Keys, EnqueueKeyedTask(k) PROVE TailInv'
  <2>1. \A j \in Keys : tails[j] \in 0..enqueued
    BY <1>1 DEF KeyedTypeOK
  <2>2. \A j \in Keys : tails'[j] = IF j = k THEN enqueued' ELSE tails[j]
    BY <1>1, <1>2 DEF EnqueueKeyedTask, KeyedTypeOK
  <2>3. \A u \in 1..enqueued : links[u].key \in Keys
    BY <1>1 DEF KeyedTypeOK
  <2>. DEFINE n == enqueued'
  <2>4. /\ enqueued \in Nat /\ n = enqueued + 1
        /\ \A u \in 1..enqueued : links'[u] = links[u]
        /\ links'[n].key = k
        /\ \A u \in 1..n : u \in 1..enqueued \/ u = n
    BY <1>1, <1>2, EnqueueFacts
  <2>5. ASSUME NEW j \in Keys, tails'[j] # 0 PROVE links'[tails'[j]].key = j
    <3>1. CASE j = k
      BY <2>2, <2>4, <3>1
    <3>2. CASE j # k
      <4>1. tails'[j] = tails[j] /\ tails[j] \in 1..enqueued
        BY <2>1, <2>2, <2>4, <2>5, <3>2
      <4>. QED
        BY <1>1, <2>4, <2>5, <4>1 DEF TailInv
    <3>. QED
      BY <3>1, <3>2
  <2>6. ASSUME NEW u \in 1..n, links'[u].phase # "gone" PROVE u <= tails'[links'[u].key]
    <3>1. CASE u = n
      BY <2>2, <2>4, <3>1
    <3>2. CASE u \in 1..enqueued
      <4>1. links'[u] = links[u] /\ links[u].key \in Keys /\ u <= tails[links[u].key]
        BY <1>1, <2>3, <2>4, <2>6, <3>2 DEF TailInv
      <4>. QED
        BY <2>2, <2>4, <3>2, <4>1
    <3>. QED
      BY <2>4, <3>1, <3>2
  <2>. QED
    BY <2>5, <2>6 DEF TailInv
<1>3. ASSUME NEW t \in 1..MaxTasks, TaskStarts(t) \/ TaskSettles(t) \/ OnSettle(t) PROVE TailInv'
  <2>1. PICK phase \in TaskPhases : t \in 1..enqueued /\ enqueued' = enqueued /\ MovesTo(t, phase)
    BY <1>3 DEF TaskStarts, TaskSettles, OnSettle, InPhase, TaskPhases
  <2>2. links[t].phase # "gone" /\ tails' = tails
    BY <1>3 DEF TaskStarts, TaskSettles, OnSettle, InPhase
  <2>3. \A u \in 1..enqueued :
          links'[u].key = links[u].key /\ (links'[u].phase # "gone" => links[u].phase # "gone")
    BY <1>1, <2>1, <2>2, MoveFacts
  <2>4. \A j \in Keys : tails[j] # 0 => tails[j] \in 1..enqueued
    BY <1>1 DEF KeyedTypeOK
  <2>. QED
    BY <1>1, <2>1, <2>2, <2>3, <2>4 DEF TailInv
<1>4. ASSUME NEW t \in 1..MaxTasks, TailSettles(t) PROVE TailInv'
  <2>. DEFINE k == links[t].key
  <2>1. t \in 1..enqueued /\ enqueued' = enqueued /\ MovesTo(t, "gone") /\ links[t].phase = "counted"
    BY <1>4 DEF TailSettles, InPhase
  <2>2. \A u \in 1..enqueued :
          links'[u].key = links[u].key /\ links'[u].phase = IF u = t THEN "gone" ELSE links[u].phase
    BY <1>1, <2>1, MoveFacts DEF TaskPhases
  <2>3. k \in Keys /\ \A j \in Keys : tails[j] \in 0..enqueued
    BY <1>1, <2>1 DEF KeyedTypeOK
  <2>4. \A j \in Keys : tails'[j] = IF j = k /\ tails[k] = t THEN 0 ELSE tails[j]
    BY <1>1, <1>4, <2>3 DEF TailSettles, KeyedTypeOK
  <2>5. \A j \in Keys : tails'[j] # 0 => links'[tails'[j]].key = j
    <3>1. \A j \in Keys : tails'[j] # 0 => tails'[j] = tails[j] /\ tails[j] \in 1..enqueued
      BY <2>3, <2>4
    <3>. QED
      BY <1>1, <2>2, <3>1 DEF TailInv
  <2>6. ASSUME NEW u \in 1..enqueued, links'[u].phase # "gone" PROVE u <= tails'[links'[u].key]
    <3>1. u # t /\ links[u].phase # "gone" /\ links'[u].key = links[u].key
      BY <2>2, <2>6
    <3>2. u <= tails[links[u].key]
      BY <1>1, <3>1 DEF TailInv
    <3>3. CASE links[u].key = k /\ tails[k] = t
      <4>1. u < t /\ SameKey(t, u)
        BY <2>1, <3>1, <3>2, <3>3 DEF SameKey
      <4>. QED
        BY <1>1, <2>1, <3>1, <4>1 DEF OrderInv
    <3>4. CASE ~(links[u].key = k /\ tails[k] = t)
      <4>1. links[u].key \in Keys
        BY <1>1 DEF KeyedTypeOK
      <4>. QED
        BY <2>4, <3>1, <3>2, <3>4, <4>1
    <3>. QED
      BY <3>3, <3>4
  <2>. QED
    BY <2>1, <2>5, <2>6 DEF TailInv
<1>. QED
  BY <1>2, <1>3, <1>4 DEF KeyedNext

(* Every state of the queue has the invariant. *)
LEMMA KeyedInvAlways == ASSUME KeyedQueueAssumption PROVE KeyedQueueSpec => []KeyedInv
<1>1. KeyedInit => KeyedInv
  BY KeyedInvInit
<1>2. KeyedInv /\ [KeyedNext]_keyedVars => KeyedInv'
  <2>1. ASSUME KeyedInv, KeyedNext PROVE KeyedInv'
    BY <2>1, KeyedTypeStep, OrderStep, ChainStep, TailStep DEF KeyedInv
  <2>2. ASSUME KeyedInv, UNCHANGED keyedVars PROVE KeyedInv'
    BY <2>2 DEF keyedVars, KeyedInv, KeyedTypeOK, OrderInv, ChainInv, TailInv, SameKey
  <2>. QED
    BY <2>1, <2>2
<1>. QED
  BY <1>1, <1>2, PTL DEF KeyedQueueSpec

(* The types of the queue hold, for any keys and any number of tasks. *)
THEOREM KeyedTypeCorrect == KeyedQueueSpec => []KeyedTypeOK
<1>1. KeyedInv => KeyedTypeOK
  BY DEF KeyedInv
<1>. QED
  BY <1>1, KeyedQueueAssumption, KeyedInvAlways, PTL

-----------------------------------------------------------------------------
(* A step of the queue, seen by who waits for a key and who runs in it.     *)
Waiting(k) == TasksIn(k, {"queued"})
Active(k)  == TasksIn(k, {"running", "settled", "counted"})

(* An operation that is enqueued arrives. *)
LEMMA EnqueueArrives ==
  ASSUME KeyedInv, KeyedQueueAssumption, NEW k \in Keys, EnqueueKeyedTask(k)
  PROVE  Mutex!MutexNext
<1>. DEFINE n == enqueued'
<1>1. /\ enqueued \in Nat /\ n = enqueued + 1 /\ n \in 1..MaxTasks
      /\ \A u \in 1..enqueued : u \in 1..n /\ links'[u] = links[u]
      /\ links'[n].key = k /\ links'[n].phase = "queued"
      /\ \A u \in 1..n : u \in 1..enqueued \/ u = n
  BY EnqueueFacts DEF KeyedInv
<1>2. \A j \in Keys : \A u \in Waiting(j) \cup Active(j) : u < n
  BY <1>1 DEF Waiting, Active, TasksIn
<1>3. \A j \in Keys : Waiting(j)' = IF j = k THEN Waiting(j) \cup {n} ELSE Waiting(j)
  BY <1>1 DEF Waiting, TasksIn
<1>4. \A j \in Keys : Active(j)' = Active(j)
  BY <1>1 DEF Active, TasksIn
<1>5. Mutex!Arrive(k, n)
  BY <1>2, <1>3, <1>4 DEF Mutex!Arrive, Waiting, Active
<1>. QED
  BY <1>1, <1>5 DEF Mutex!MutexNext

(* An operation that starts begins its turn. *)
LEMMA StartBegins ==
  ASSUME KeyedInv, NEW t \in 1..MaxTasks, TaskStarts(t)
  PROVE  Mutex!MutexNext
<1>. DEFINE k == links[t].key
<1>1. KeyedTypeOK /\ t \in 1..enqueued /\ links[t].phase = "queued" /\ enqueued' = enqueued /\ MovesTo(t, "running")
  BY DEF TaskStarts, InPhase, KeyedInv
<1>2. \A u \in 1..enqueued :
        links'[u].key = links[u].key /\ links'[u].phase = IF u = t THEN "running" ELSE links[u].phase
  BY <1>1, MoveFacts DEF TaskPhases
<1>3. enqueued \in Nat /\ k \in Keys
  BY <1>1 DEF KeyedTypeOK
<1>4. \A u \in 1..enqueued : u < t /\ links[u].key = k => links[u].phase = "gone"
  BY StartsInTurn DEF SameKey
<1>5. \A u \in 1..enqueued : t < u /\ links[u].key = k => links[u].phase = "queued"
  BY <1>1 DEF KeyedInv, OrderInv, SameKey
<1>6. Active(k) = {}
  BY <1>1, <1>3, <1>4, <1>5 DEF Active, TasksIn
<1>7. t \in Waiting(k) /\ \A u \in Waiting(k) : t <= u
  BY <1>1, <1>3, <1>4 DEF Waiting, TasksIn
<1>8. \A j \in Keys : Waiting(j)' = IF j = k THEN Waiting(j) \ {t} ELSE Waiting(j)
  BY <1>1, <1>2 DEF Waiting, TasksIn
<1>9. \A j \in Keys : Active(j)' = IF j = k THEN {t} ELSE Active(j)
  <2>1. \A j \in Keys : j # k => Active(j)' = Active(j)
    BY <1>1, <1>2 DEF Active, TasksIn
  <2>2. \A j \in Keys : j = k => Active(j)' = {t}
    BY <1>1, <1>2, <1>3, <1>4, <1>5 DEF Active, TasksIn
  <2>. QED
    BY <2>1, <2>2
<1>10. Mutex!Begin(k, t)
  BY <1>3, <1>6, <1>7, <1>8, <1>9 DEF Mutex!Begin, Waiting, Active
<1>. QED
  BY <1>3, <1>10 DEF Mutex!MutexNext

(* The settled promise and the hook change nothing for the others. *)
LEMMA SettlingIsInner ==
  ASSUME KeyedInv, NEW t \in 1..MaxTasks, TaskSettles(t) \/ OnSettle(t)
  PROVE  UNCHANGED Mutex!mutexVars
<1>1. PICK phase \in {"settled", "counted"} :
        /\ t \in 1..enqueued /\ enqueued' = enqueued /\ MovesTo(t, phase)
        /\ links[t].phase \in {"running", "settled"}
  BY DEF TaskSettles, OnSettle, InPhase
<1>2. \A u \in 1..enqueued :
        links'[u].key = links[u].key /\ links'[u].phase = IF u = t THEN phase ELSE links[u].phase
  BY <1>1, MoveFacts DEF TaskPhases, KeyedInv
<1>3. \A j \in Keys : Waiting(j)' = Waiting(j)
  BY <1>1, <1>2 DEF Waiting, TasksIn
<1>4. \A j \in Keys : Active(j)' = Active(j)
  BY <1>1, <1>2 DEF Active, TasksIn
<1>. QED
  BY <1>3, <1>4 DEF Mutex!mutexVars, Waiting, Active

(* An operation whose tail has settled ends its turn. *)
LEMMA TailEnds ==
  ASSUME KeyedInv, NEW t \in 1..MaxTasks, TailSettles(t)
  PROVE  Mutex!MutexNext
<1>. DEFINE k == links[t].key
<1>1. KeyedTypeOK /\ t \in 1..enqueued /\ links[t].phase = "counted" /\ enqueued' = enqueued /\ MovesTo(t, "gone")
  BY DEF TailSettles, InPhase, KeyedInv
<1>2. \A u \in 1..enqueued :
        links'[u].key = links[u].key /\ links'[u].phase = IF u = t THEN "gone" ELSE links[u].phase
  BY <1>1, MoveFacts DEF TaskPhases
<1>3. enqueued \in Nat /\ k \in Keys
  BY <1>1 DEF KeyedTypeOK
<1>4. \A u \in 1..enqueued : u < t /\ links[u].key = k => links[u].phase = "gone"
  BY <1>1 DEF KeyedInv, OrderInv, SameKey
<1>5. \A u \in 1..enqueued : t < u /\ links[u].key = k => links[u].phase = "queued"
  BY <1>1 DEF KeyedInv, OrderInv, SameKey
<1>6. Active(k) = {t}
  BY <1>1, <1>3, <1>4, <1>5 DEF Active, TasksIn
<1>7. \A j \in Keys : Waiting(j)' = Waiting(j)
  BY <1>1, <1>2 DEF Waiting, TasksIn
<1>8. \A j \in Keys : Active(j)' = IF j = k THEN {} ELSE Active(j)
  <2>1. \A j \in Keys : j # k => Active(j)' = Active(j)
    BY <1>1, <1>2 DEF Active, TasksIn
  <2>2. \A j \in Keys : j = k => Active(j)' = {}
    BY <1>1, <1>2, <1>3, <1>4, <1>5 DEF Active, TasksIn
  <2>. QED
    BY <2>1, <2>2
<1>9. Mutex!End(k, t)
  BY <1>3, <1>6, <1>7, <1>8 DEF Mutex!End, Waiting, Active
<1>. QED
  BY <1>3, <1>9 DEF Mutex!MutexNext

(* The map of tails and the promises chained to it are a mutex per key that *)
(* is served in the order of arrival: the safety part of QueuesPerKey.     *)
THEOREM KeyedQueueImplementsMutex == KeyedQueueSpec => Mutex!MutexSpec
<1>1. KeyedInit => Mutex!MutexInit
  <2>1. ASSUME KeyedInit PROVE \A k \in Keys : Waiting(k) = {} /\ Active(k) = {}
    BY <2>1 DEF KeyedInit, Waiting, Active, TasksIn
  <2>. QED
    BY <2>1 DEF Mutex!MutexInit, Waiting, Active
<1>2. KeyedInv /\ [KeyedNext]_keyedVars => [Mutex!MutexNext]_(Mutex!mutexVars)
  <2>1. ASSUME KeyedInv, KeyedNext PROVE [Mutex!MutexNext]_(Mutex!mutexVars)
    BY <2>1, KeyedQueueAssumption, EnqueueArrives, StartBegins, SettlingIsInner, TailEnds DEF KeyedNext
  <2>2. ASSUME UNCHANGED keyedVars PROVE UNCHANGED Mutex!mutexVars
    BY <2>2 DEF keyedVars, Mutex!mutexVars, TasksIn
  <2>. QED
    BY <2>1, <2>2
<1>. QED
  BY <1>1, <1>2, KeyedQueueAssumption, KeyedInvAlways, PTL DEF KeyedQueueSpec, Mutex!MutexSpec
=============================================================================
