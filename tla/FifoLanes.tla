------------------------------ MODULE FifoLanes ------------------------------
(***************************************************************************)
(* What the command lanes promise their callers: in each lane the entries  *)
(* start in the order they came in, each once, at most as many at a time   *)
(* as the lane's limit; a waiting entry is skipped only when its whole     *)
(* lane is cleared.  A restart of the gateway forgets what runs, all of it *)
(* in one step, and keeps what waits.                                      *)
(***************************************************************************)
EXTENDS Integers, Sequences, FiniteSets

CONSTANTS Lanes, Entries, LaneOf,
          Resizable   \* the lanes whose limit may change; the others have one slot

VARIABLES
  came,      \* the entries that were accepted
  waiting,   \* per lane: those that have not started, in order
  running,   \* per lane: those that run in the gateway's present lifecycle
  limit      \* per lane: how many may run at a time

fifoVars == <<came, waiting, running, limit>>

FifoInit ==
  /\ came = {} /\ waiting = [l \in Lanes |-> <<>>]
  /\ running = [l \in Lanes |-> {}] /\ limit = [l \in Lanes |-> 1]

Accept(e) ==
  /\ e \notin came /\ came' = came \cup {e}
  /\ waiting' = [waiting EXCEPT ![LaneOf[e]] = Append(@, e)]
  /\ UNCHANGED <<running, limit>>

Start(l) ==
  /\ waiting[l] # <<>> /\ Cardinality(running[l]) < limit[l]
  /\ waiting' = [waiting EXCEPT ![l] = Tail(@)]
  /\ running' = [running EXCEPT ![l] = @ \cup {Head(waiting[l])}]
  /\ UNCHANGED <<came, limit>>

End(l, e) ==
  /\ e \in running[l]
  /\ running' = [running EXCEPT ![l] = @ \ {e}]
  /\ UNCHANGED <<came, waiting, limit>>

Clear(l) ==
  /\ waiting' = [waiting EXCEPT ![l] = <<>>]
  /\ UNCHANGED <<came, running, limit>>

SetLimit(l) ==
  /\ l \in Resizable
  /\ limit'[l] \in Nat \ {0} /\ limit' = [limit EXCEPT ![l] = limit'[l]]
  /\ UNCHANGED <<came, waiting, running>>

Restart ==
  /\ running' = [l \in Lanes |-> {}]
  /\ UNCHANGED <<came, waiting, limit>>

FifoNext ==
  \/ \E e \in Entries : Accept(e)
  \/ \E l \in Lanes : Start(l) \/ Clear(l) \/ SetLimit(l) \/ \E e \in Entries : End(l, e)
  \/ Restart

FifoSpec == FifoInit /\ [][FifoNext]_fifoVars
=============================================================================
