--------------------------- MODULE HeartbeatWake ---------------------------
(***************************************************************************)
(* infra/heartbeat-wake.ts: wakes are coalesced per target, a timer hands  *)
(* them in a batch to the registered handler, and a wake that meets a busy *)
(* lane or an error is queued again for a retry.                           *)
(*                                                                         *)
(* A reason is its priority (0: no wake).  Timers fire at any time, so of  *)
(* a timer only its kind is kept, and whether a new one preempts it is a   *)
(* choice.  Slots are the calls of the timer's callback that have a batch. *)
(***************************************************************************)
EXTENDS Integers, FiniteSets

CONSTANTS Targets,        \* wake targets (agent and session)
          Requests,       \* the wakes that are requested: a target, the priority of a reason
          Slots,          \* bound on the batches at one time
          MaxLifecycles,  \* bound on the registrations of a handler
          MaxThrows       \* bound on the errors of the handler

Nobody == "nobody"

ASSUME HeartbeatWakeAssumption ==
  /\ Requests \subseteq Targets \X (Nat \ {0}) /\ Nobody \notin Targets
  /\ MaxLifecycles \in Nat /\ MaxThrows \in Nat

VARIABLES
  handler,       \* a handler is registered
  pendingWakes,  \* per target: the priority of the pending reason
  timerKind,     \* of the timer, "none" without one
  scheduled,
  running,
  batch,         \* per slot: its wakes, the ones to do, the one in the handler, whose handler it is
  lifecycles,    \* number of registrations
  throws,        \* number of errors
  owed,          \* per target: the highest priority requested since the handler heard of it
  interrupted    \* a handler was registered while a batch was in its handler

wakeVars == <<handler, pendingWakes, timerKind, scheduled, running, batch,
              lifecycles, throws, owed, interrupted>>

Priorities == {r[2] : r \in Requests}
NoWakes == [t \in Targets |-> 0]
NoBatch == [wakes |-> NoWakes, todo |-> {}, current |-> Nobody, old |-> FALSE]
Higher(p, q) == IF p >= q THEN p ELSE q

WakeTypeOK ==
  /\ handler \in BOOLEAN /\ scheduled \in BOOLEAN /\ running \in BOOLEAN /\ interrupted \in BOOLEAN
  /\ pendingWakes \in [Targets -> Priorities \cup {0}]
  /\ owed \in [Targets -> Priorities \cup {0}]
  /\ timerKind \in {"none", "normal", "retry"}
  /\ batch \in [Slots -> [wakes : [Targets -> Priorities \cup {0}], todo : SUBSET Targets,
                          current : Targets \cup {Nobody}, old : BOOLEAN]]
  /\ lifecycles \in 0..MaxLifecycles /\ throws \in 0..MaxThrows

WakeInit ==
  /\ handler = FALSE
  /\ pendingWakes = NoWakes
  /\ timerKind = "none"
  /\ scheduled = FALSE /\ running = FALSE
  /\ batch = [b \in Slots |-> NoBatch]
  /\ lifecycles = 0 /\ throws = 0
  /\ owed = NoWakes
  /\ interrupted = FALSE

InHandler(b) == batch[b].current # Nobody

(* Slots are names for the batches under way: which one is free is all that *)
(* matters of them.                                                        *)
FreeSlot == CHOOSE b \in Slots : ~InHandler(b)

(* queuePendingWakeReason for every target, with the priorities of wakes: a *)
(* reason of a lower priority does not replace the pending one.            *)
Queued(wakes) == [t \in Targets |-> Higher(pendingWakes[t], wakes[t])]
Only(t, p) == [NoWakes EXCEPT ![t] = p]

(* schedule(): a retry timer stays; another one stays or, if it is due      *)
(* later, is replaced.                                                     *)
Scheduled(now, kind) ==
  CASE now = "none"   -> {kind}
    [] now = "retry"  -> {"retry"}
    [] now = "normal" -> {"normal", kind}

-----------------------------------------------------------------------------
RequestHeartbeatNow(t, p) ==
  /\ pendingWakes' = Queued(Only(t, p))
  /\ timerKind' \in Scheduled(timerKind, "normal")
  /\ owed' = [owed EXCEPT ![t] = Higher(@, p)]
  /\ UNCHANGED <<handler, scheduled, running, batch, lifecycles, throws, interrupted>>

(* Mutant: the old batch's flag stays. *)
SetHeartbeatWakeHandler_KeepsRunning ==
  /\ lifecycles < MaxLifecycles
  /\ lifecycles' = lifecycles + 1
  /\ handler' = TRUE
  /\ timerKind' = IF pendingWakes # NoWakes THEN "normal" ELSE "none"
  /\ scheduled' = FALSE
  /\ batch' = [b \in Slots |-> [batch[b] EXCEPT !.old = InHandler(b)]]
  /\ interrupted' = (interrupted \/ \E b \in Slots : InHandler(b))
  /\ UNCHANGED <<running, pendingWakes, throws, owed>>

(* setHeartbeatWakeHandler with a new handler. *)
SetHeartbeatWakeHandler ==
  /\ lifecycles < MaxLifecycles
  /\ lifecycles' = lifecycles + 1
  /\ handler' = TRUE
  /\ timerKind' = IF pendingWakes # NoWakes THEN "normal" ELSE "none"
  /\ running' = FALSE /\ scheduled' = FALSE
  /\ batch' = [b \in Slots |-> [batch[b] EXCEPT !.old = InHandler(b)]]
  /\ interrupted' = (interrupted \/ \E b \in Slots : InHandler(b))
  /\ UNCHANGED <<pendingWakes, throws, owed>>

(* The disposer of the current registration; an older one does nothing. *)
DisposeHandler ==
  /\ handler
  /\ handler' = FALSE
  /\ UNCHANGED <<pendingWakes, timerKind, scheduled, running, batch, lifecycles, throws, owed, interrupted>>

(* The timer without a handler, or with nothing to hand over: the batch of  *)
(* no wakes ends before the callback returns.                              *)
TimerFindsNothing ==
  /\ timerKind # "none"
  /\ ~handler \/ (~running /\ pendingWakes = NoWakes)
  /\ timerKind' = "none"
  /\ scheduled' = FALSE
  /\ UNCHANGED <<handler, pendingWakes, running, batch, lifecycles, throws, owed, interrupted>>

(* The timer while a batch runs: it is set again. *)
TimerWaits ==
  /\ timerKind # "none" /\ handler /\ running
  /\ scheduled' = TRUE
  /\ UNCHANGED <<handler, pendingWakes, timerKind, running, batch, lifecycles, throws, owed, interrupted>>

(* Mutant: the timer does not look at running. *)
TimerTakesBatch_WhileRunning(b, t) ==
  /\ timerKind # "none" /\ handler
  /\ b = FreeSlot /\ ~InHandler(b) /\ pendingWakes[t] # 0
  /\ timerKind' = "none" /\ scheduled' = FALSE /\ running' = TRUE
  /\ batch' = [batch EXCEPT ![b] = [wakes |-> pendingWakes, current |-> t, old |-> FALSE,
                                    todo |-> {u \in Targets : pendingWakes[u] # 0} \ {t}]]
  /\ pendingWakes' = NoWakes
  /\ owed' = [owed EXCEPT ![t] = 0]
  /\ UNCHANGED <<handler, lifecycles, throws, interrupted>>

(* The timer takes every pending wake and calls the handler for the first. *)
TimerTakesBatch(b, t) ==
  /\ timerKind # "none" /\ handler /\ ~running
  /\ b = FreeSlot /\ ~InHandler(b) /\ pendingWakes[t] # 0
  /\ timerKind' = "none" /\ scheduled' = FALSE /\ running' = TRUE
  /\ batch' = [batch EXCEPT ![b] = [wakes |-> pendingWakes, current |-> t, old |-> FALSE,
                                    todo |-> {u \in Targets : pendingWakes[u] # 0} \ {t}]]
  /\ pendingWakes' = NoWakes
  /\ owed' = [owed EXCEPT ![t] = 0]
  /\ UNCHANGED <<handler, lifecycles, throws, interrupted>>

(* The finally clause, when the timer is timerNow. *)
BatchEnds(b, timerNow) ==
  /\ batch' = [batch EXCEPT ![b] = NoBatch]
  /\ running' = FALSE
  /\ timerKind' \in IF pendingWakes' # NoWakes \/ scheduled
                    THEN Scheduled(timerNow, "normal") ELSE {timerNow}

(* The next wake of the batch, or its end. *)
BatchGoesOn(b, timerNow, owedNow) ==
  \/ \E t \in batch[b].todo :
       /\ batch' = [batch EXCEPT ![b].current = t, ![b].todo = @ \ {t}]
       /\ owed' = [owedNow EXCEPT ![t] = 0]
       /\ timerKind' = timerNow
       /\ UNCHANGED running
  \/ batch[b].todo = {} /\ owed' = owedNow /\ BatchEnds(b, timerNow)

(* The handler ran, failed or skipped the wake. *)
HandlerIsDone(b) ==
  /\ InHandler(b)
  /\ UNCHANGED pendingWakes
  /\ BatchGoesOn(b, timerKind, owed)
  /\ UNCHANGED <<handler, scheduled, lifecycles, throws, interrupted>>

(* It skipped it for requests in flight: the wake is queued for a retry. *)
HandlerIsBusy(b) ==
  /\ InHandler(b)
  /\ LET t == batch[b].current  p == batch[b].wakes[t] IN
       /\ pendingWakes' = Queued(Only(t, p))
       /\ \E now \in Scheduled(timerKind, "retry") :
            BatchGoesOn(b, now, [owed EXCEPT ![t] = Higher(@, p)])
  /\ UNCHANGED <<handler, scheduled, lifecycles, throws, interrupted>>

(* Mutant: only the wake that threw is queued again. *)
HandlerThrows_RequeuesOne(b) ==
  /\ InHandler(b) /\ throws < MaxThrows
  /\ throws' = throws + 1
  /\ LET t == batch[b].current IN
       /\ pendingWakes' = Queued(Only(t, batch[b].wakes[t]))
       /\ owed' = [owed EXCEPT ![t] = Higher(@, batch[b].wakes[t])]
  /\ \E now \in Scheduled(timerKind, "retry") : BatchEnds(b, now)
  /\ UNCHANGED <<handler, scheduled, lifecycles, interrupted>>

(* It threw: every wake of the batch is queued again. *)
HandlerThrows(b) ==
  /\ InHandler(b) /\ throws < MaxThrows
  /\ throws' = throws + 1
  /\ LET t == batch[b].current IN
       /\ pendingWakes' = Queued(batch[b].wakes)
       /\ owed' = [owed EXCEPT ![t] = Higher(@, batch[b].wakes[t])]
  /\ \E now \in Scheduled(timerKind, "retry") : BatchEnds(b, now)
  /\ UNCHANGED <<handler, scheduled, lifecycles, interrupted>>

TimerFires ==
  \/ TimerFindsNothing \/ TimerWaits
  \/ \E b \in Slots, t \in Targets : TimerTakesBatch(b, t)

HandlerReturns(b) == HandlerIsDone(b) \/ HandlerIsBusy(b) \/ HandlerThrows(b)

WakeNext ==
  \/ \E r \in Requests : RequestHeartbeatNow(r[1], r[2])
  \/ SetHeartbeatWakeHandler \/ DisposeHandler
  \/ TimerFires
  \/ \E b \in Slots : HandlerReturns(b)

(* Timers fire, and the current handler returns.  The handler of an earlier *)
(* lifecycle may have been interrupted and never return.                   *)
WakeFairness ==
  /\ WF_wakeVars(TimerFires)
  /\ \A b \in Slots : WF_wakeVars(~batch[b].old /\ HandlerReturns(b))

WakeSpec == WakeInit /\ [][WakeNext]_wakeVars /\ WakeFairness

-----------------------------------------------------------------------------
(* A wake that was requested, or that the handler sent back, is still in a  *)
(* batch or pending, with the highest of its priorities; and with a handler*)
(* there is a timer, or a batch whose end will set one.                    *)
NoWakeForgotten ==
  \A t \in Targets : owed[t] > 0 =>
    \/ \E b \in Slots : InHandler(b) /\ t \in batch[b].todo /\ batch[b].wakes[t] >= owed[t]
    \/ /\ pendingWakes[t] >= owed[t]
       /\ handler => timerKind # "none" \/ \E b \in Slots : InHandler(b)

(* Batches do not overlap, unless a handler was registered while one ran:   *)
(* the reset of running lets the next batch begin, and the old batch's end *)
(* then clears the flag of the new one.                                    *)
BatchesDoNotOverlap ==
  ~interrupted => \A b, c \in Slots : InHandler(b) /\ InHandler(c) => b = c

(* As long as there is a handler, it hears of every wake, unless the wake   *)
(* is left in the batch of an interrupted lifecycle.                       *)
WakesAreHeard ==
  \A t \in Targets :
    owed[t] > 0 ~> owed[t] = 0 \/ ~handler \/ \E b \in Slots : batch[b].old /\ t \in batch[b].todo
=============================================================================
