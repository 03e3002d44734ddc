----------------------------- MODULE KeyedMutex -----------------------------
(***************************************************************************)
(* What a queue of tasks per key promises: the tasks of a key run one at a *)
(* time in the order they came in, a task that came in runs when the ones  *)
(* before it have ended, and the keys do not wait for each other.  Tasks   *)
(* are numbered as they come in.                                           *)
(***************************************************************************)
EXTENDS Integers

CONSTANTS Keys, MaxTasks

VARIABLES waiting, active   \* per key: the tasks that wait, the task that runs

mutexVars == <<waiting, active>>

MutexInit == waiting = [k \in Keys |-> {}] /\ active = [k \in Keys |-> {}]

Arrive(k, t) ==
  /\ \A j \in Keys : \A u \in waiting[j] \cup active[j] : u < t
  /\ waiting' = [waiting EXCEPT ![k] = @ \cup {t}]
  /\ UNCHANGED active

Begin(k, t) ==
  /\ active[k] = {}
  /\ t \in waiting[k] /\ \A u \in waiting[k] : t <= u
  /\ waiting' = [waiting EXCEPT ![k] = @ \ {t}]
  /\ active' = [active EXCEPT ![k] = {t}]

End(k, t) ==
  /\ active[k] = {t}
  /\ active' = [active EXCEPT ![k] = {}]
  /\ UNCHANGED waiting

MutexNext == \E k \in Keys, t \in 1..MaxTasks : Arrive(k, t) \/ Begin(k, t) \/ End(k, t)

MutexSpec == MutexInit /\ [][MutexNext]_mutexVars

(* Nobody holds back a task whose turn it is. *)
MutexFairness == \A k \in Keys : WF_mutexVars(\E t \in 1..MaxTasks : Begin(k, t))

MutexFairSpec == MutexSpec /\ MutexFairness
=============================================================================
