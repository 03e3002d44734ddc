------------------------ MODULE HeartbeatWakeProofs ------------------------
(***************************************************************************)
(* No wake is forgotten and batches do not overlap, for any targets,       *)
(* requests and number of batches.                                         *)
(***************************************************************************)
EXTENDS HeartbeatWake, TLAPS

Levels == Priorities \cup {0}
Kinds == {"none", "normal", "retry"}
Batches == [wakes : [Targets -> Levels], todo : SUBSET Targets, current : Targets \cup {Nobody}, old : BOOLEAN]

(* At most one batch, of which running tells, unless one was interrupted. *)
OneBatch ==
  ~interrupted =>
    /\ \A b \in Slots : InHandler(b) => running
    /\ \A b, c \in Slots : InHandler(b) /\ InHandler(c) => b = c

WakeInv == WakeTypeOK /\ NoWakeForgotten /\ OneBatch

(* t is in a batch that will get to it with at least priority p. *)
InABatch(t, p) == \E b \in Slots : InHandler(b) /\ t \in batch[b].todo /\ batch[b].wakes[t] >= p

-----------------------------------------------------------------------------
(* Priorities are numbers, and of two the higher is one. *)
LEMMA LevelFacts ==
  ASSUME HeartbeatWakeAssumption
  PROVE  /\ Levels \subseteq Nat /\ 0 \in Levels
         /\ \A r \in Requests : r[1] \in Targets /\ r[2] \in Levels /\ r[2] > 0
         /\ \A p, q \in Levels : Higher(p, q) \in Levels /\ Higher(p, q) >= p /\ Higher(p, q) >= q
<1>1. \A r \in Requests : r[1] \in Targets /\ r[2] \in Nat \ {0} /\ r[2] \in Priorities
  BY DEF HeartbeatWakeAssumption, Priorities
<1>2. Priorities \subseteq Nat
  BY <1>1 DEF Priorities
<1>3. Levels \subseteq Nat /\ 0 \in Levels
  BY <1>2 DEF Levels
<1>4. ASSUME NEW p \in Levels, NEW q \in Levels
      PROVE  Higher(p, q) \in Levels /\ Higher(p, q) >= p /\ Higher(p, q) >= q
  BY <1>3, <1>4 DEF Higher
<1>5. \A r \in Requests : r[2] \in Levels /\ r[2] > 0
  BY <1>1 DEF Levels
<1>. QED
  BY <1>1, <1>3, <1>4, <1>5

(* Queueing reasons again: no pending one gets lower. *)
LEMMA QueuedFacts ==
  ASSUME HeartbeatWakeAssumption, WakeTypeOK, NEW wakes \in [Targets -> Levels]
  PROVE  /\ Queued(wakes) \in [Targets -> Levels]
         /\ \A t \in Targets : Queued(wakes)[t] >= pendingWakes[t] /\ Queued(wakes)[t] >= wakes[t]
<1>1. pendingWakes \in [Targets -> Levels]
  BY DEF WakeTypeOK, Levels
<1>. QED
  BY <1>1, LevelFacts DEF Queued

(* One reason on its own. *)
LEMMA OnlyFacts ==
  ASSUME HeartbeatWakeAssumption, NEW t \in Targets, NEW p \in Levels
  PROVE  Only(t, p) \in [Targets -> Levels] /\ Only(t, p)[t] = p
BY LevelFacts DEF Only, NoWakes

(* A timer that is set stays or is set to the kind. *)
LEMMA ScheduledFacts ==
  ASSUME NEW now \in Kinds, NEW kind \in {"normal", "retry"}, NEW next \in Scheduled(now, kind)
  PROVE  next \in Kinds /\ next # "none"
BY DEF Scheduled, Kinds

(* The types of the variables, with the names above. *)
LEMMA WakeTypes ==
  WakeTypeOK <=> /\ handler \in BOOLEAN /\ scheduled \in BOOLEAN /\ running \in BOOLEAN /\ interrupted \in BOOLEAN
                 /\ pendingWakes \in [Targets -> Levels] /\ owed \in [Targets -> Levels]
                 /\ timerKind \in Kinds /\ batch \in [Slots -> Batches]
                 /\ lifecycles \in 0..MaxLifecycles /\ throws \in 0..MaxThrows
BY DEF WakeTypeOK, Levels, Kinds, Batches

(* In the beginning there is nothing. *)
LEMMA WakeInvInit == ASSUME HeartbeatWakeAssumption, WakeInit PROVE WakeInv
<1>1. NoWakes \in [Targets -> Levels] /\ \A t \in Targets : NoWakes[t] = 0
  BY LevelFacts DEF NoWakes
<1>2. NoBatch \in Batches /\ NoBatch.current = Nobody
  BY <1>1 DEF NoBatch, Batches
<1>3. batch \in [Slots -> Batches] /\ \A b \in Slots : ~InHandler(b)
  BY <1>2 DEF WakeInit, InHandler
<1>4. WakeTypeOK
  <2>1. lifecycles \in 0..MaxLifecycles /\ throws \in 0..MaxThrows
    BY DEF WakeInit, HeartbeatWakeAssumption
  <2>. QED
    BY <1>1, <1>3, <2>1, WakeTypes DEF WakeInit, Kinds
<1>5. NoWakeForgotten
  BY <1>1 DEF NoWakeForgotten, WakeInit
<1>6. OneBatch
  BY <1>3 DEF OneBatch
<1>. QED
  BY <1>4, <1>5, <1>6 DEF WakeInv

-----------------------------------------------------------------------------
(* A batch ends: what is owed by then is in another batch or pending, and   *)
(* then a timer is set.                                                    *)
LEMMA EndKeepsInv ==
  ASSUME HeartbeatWakeAssumption, WakeTypeOK, OneBatch, NEW b \in Slots, InHandler(b),
         NEW timerNow \in Kinds, BatchEnds(b, timerNow),
         pendingWakes' \in [Targets -> Levels], owed' \in [Targets -> Levels], throws' \in 0..MaxThrows,
         UNCHANGED <<handler, scheduled, lifecycles, interrupted>>,
         \A t \in Targets : owed'[t] > 0 =>
           \/ \E c \in Slots : c # b /\ InHandler(c) /\ t \in batch[c].todo /\ batch[c].wakes[t] >= owed'[t]
           \/ pendingWakes'[t] >= owed'[t]
  PROVE  WakeInv'
<1>1. /\ batch \in [Slots -> Batches] /\ batch[b].current # Nobody /\ Levels \subseteq Nat /\ 0 \in Levels
      /\ handler \in BOOLEAN /\ scheduled \in BOOLEAN /\ running \in BOOLEAN /\ interrupted \in BOOLEAN
      /\ lifecycles \in 0..MaxLifecycles
  BY WakeTypes, LevelFacts DEF InHandler
<1>2. /\ batch' = [batch EXCEPT ![b] = NoBatch] /\ running' = FALSE
      /\ timerKind' \in IF pendingWakes' # NoWakes \/ scheduled THEN Scheduled(timerNow, "normal") ELSE {timerNow}
  BY DEF BatchEnds
<1>3. NoBatch \in Batches /\ NoBatch.current = Nobody
  BY <1>1 DEF NoBatch, Batches, NoWakes
<1>4. batch' \in [Slots -> Batches] /\ \A c \in Slots : batch'[c] = IF c = b THEN NoBatch ELSE batch[c]
  BY <1>1, <1>2, <1>3
<1>5. timerKind' \in Kinds /\ (pendingWakes' # NoWakes => timerKind' # "none")
  BY <1>2, ScheduledFacts
<1>6. WakeTypeOK'
  BY <1>1, <1>2, <1>4, <1>5 DEF WakeTypeOK, Levels, Kinds, Batches
<1>7. \A c \in Slots : InHandler(c)' <=> c # b /\ InHandler(c)
  BY <1>3, <1>4 DEF InHandler
<1>8. ASSUME NEW u \in Targets, owed'[u] > 0
      PROVE  InABatch(u, owed[u])' \/ (pendingWakes'[u] >= owed'[u] /\ timerKind' # "none")
  <2>1. CASE \E c \in Slots : c # b /\ InHandler(c) /\ u \in batch[c].todo /\ batch[c].wakes[u] >= owed'[u]
    <3>1. PICK c \in Slots : c # b /\ InHandler(c) /\ u \in batch[c].todo /\ batch[c].wakes[u] >= owed'[u]
      BY <2>1
    <3>2. InHandler(c)' /\ batch'[c] = batch[c]
      BY <1>4, <1>7, <3>1
    <3>. QED
      BY <3>1, <3>2 DEF InABatch
  <2>2. CASE pendingWakes'[u] >= owed'[u]
    <3>1. pendingWakes'[u] \in Nat /\ owed'[u] \in Nat
      BY <1>1
    <3>2. pendingWakes'[u] # 0
      BY <1>8, <2>2, <3>1
    <3>3. pendingWakes' # NoWakes
      BY <3>2 DEF NoWakes
    <3>. QED
      BY <1>5, <2>2, <3>3
  <2>. QED
    BY <1>8, <2>1, <2>2
<1>9. NoWakeForgotten'
  BY <1>8 DEF NoWakeForgotten, InABatch
<1>10. OneBatch'
  BY <1>1, <1>7 DEF OneBatch, InHandler
<1>. QED
  BY <1>6, <1>9, <1>10 DEF WakeInv

(* A handler has returned: what is owed and pending by then is in a batch   *)
(* that goes on, or pending when a batch ends.                             *)
LEMMA GoesOnKeepsInv ==
  ASSUME HeartbeatWakeAssumption, WakeTypeOK, OneBatch, NEW b \in Slots, InHandler(b),
         NEW timerNow \in Kinds, NEW owedNow \in [Targets -> Levels],
         pendingWakes' \in [Targets -> Levels], throws' \in 0..MaxThrows,
         BatchGoesOn(b, timerNow, owedNow),
         UNCHANGED <<handler, scheduled, lifecycles, interrupted>>,
         \A t \in Targets : owedNow[t] > 0 => InABatch(t, owedNow[t]) \/ pendingWakes'[t] >= owedNow[t]
  PROVE  WakeInv'
<1>1. /\ batch \in [Slots -> Batches] /\ batch[b].current # Nobody /\ Levels \subseteq Nat /\ 0 \in Levels
      /\ handler \in BOOLEAN /\ scheduled \in BOOLEAN /\ running \in BOOLEAN /\ interrupted \in BOOLEAN
      /\ lifecycles \in 0..MaxLifecycles
  BY WakeTypes, LevelFacts DEF InHandler
<1>2. CASE \E t \in batch[b].todo :
             /\ batch' = [batch EXCEPT ![b].current = t, ![b].todo = @ \ {t}]
             /\ owed' = [owedNow EXCEPT ![t] = 0]
             /\ timerKind' = timerNow
             /\ UNCHANGED running
  <2>1. PICK t \in batch[b].todo :
          /\ batch' = [batch EXCEPT ![b].current = t, ![b].todo = @ \ {t}]
          /\ owed' = [owedNow EXCEPT ![t] = 0] /\ timerKind' = timerNow /\ running' = running
    BY <1>2
  <2>. DEFINE new == [batch[b] EXCEPT !.current = t, !.todo = batch[b].todo \ {t}]
  <2>2. t \in Targets /\ t # Nobody
    BY <1>1, <2>1 DEF Batches, HeartbeatWakeAssumption
  <2>3. new \in Batches /\ new.current = t /\ new.todo = batch[b].todo \ {t} /\ new.wakes = batch[b].wakes
    BY <1>1, <2>1, <2>2 DEF Batches
  <2>4. batch' = [batch EXCEPT ![b] = new]
    BY <2>1
  <2>. HIDE DEF new
  <2>5. batch' \in [Slots -> Batches] /\ \A c \in Slots : batch'[c] = IF c = b THEN new ELSE batch[c]
    BY <1>1, <2>3, <2>4
  <2>6. owed' \in [Targets -> Levels] /\ \A u \in Targets : owed'[u] = IF u = t THEN 0 ELSE owedNow[u]
    BY <1>1, <2>1
  <2>7. WakeTypeOK'
    <3>1. timerKind' \in Kinds /\ running' \in BOOLEAN
      BY <1>1, <2>1
    <3>. QED
      BY <1>1, <2>5, <2>6, <3>1 DEF WakeTypeOK, Levels, Kinds, Batches
  <2>8. \A c \in Slots : InHandler(c)' <=> InHandler(c)
    BY <1>1, <2>2, <2>3, <2>5 DEF InHandler
  <2>9. ASSUME NEW u \in Targets, owed'[u] > 0
        PROVE  InABatch(u, owed[u])' \/ pendingWakes'[u] >= owed'[u]
    <3>1. u # t /\ owed'[u] = owedNow[u]
      BY <2>6, <2>9
    <3>2. CASE pendingWakes'[u] >= owedNow[u]
      BY <3>1, <3>2
    <3>3. CASE InABatch(u, owedNow[u])
      <4>1. PICK c \in Slots : InHandler(c) /\ u \in batch[c].todo /\ batch[c].wakes[u] >= owedNow[u]
        BY <3>3 DEF InABatch
      <4>2. InHandler(c)' /\ u \in batch'[c].todo /\ batch'[c].wakes[u] >= owed'[u]
        BY <2>3, <2>5, <2>8, <3>1, <4>1
      <4>. QED
        BY <4>2 DEF InABatch
    <3>. QED
      BY <2>9, <3>1, <3>2, <3>3
  <2>10. NoWakeForgotten'
    <3>1. InHandler(b)'
      BY <2>8
    <3>. QED
      BY <2>9, <3>1 DEF NoWakeForgotten, InABatch
  <2>11. OneBatch'
    BY <2>1, <2>8 DEF OneBatch
  <2>. QED
    BY <2>7, <2>10, <2>11 DEF WakeInv
<1>3. CASE batch[b].todo = {} /\ owed' = owedNow /\ BatchEnds(b, timerNow)
  <2>1. ASSUME NEW t \in Targets, owed'[t] > 0
        PROVE  \/ \E c \in Slots : c # b /\ InHandler(c) /\ t \in batch[c].todo /\ batch[c].wakes[t] >= owed'[t]
               \/ pendingWakes'[t] >= owed'[t]
    BY <1>3, <2>1 DEF InABatch
  <2>. QED
    BY <1>3, <2>1, EndKeepsInv
<1>. QED
  BY <1>2, <1>3 DEF BatchGoesOn

-----------------------------------------------------------------------------
(* A request is pending with its priority, and a timer is set. *)
LEMMA RequestKeepsInv ==
  ASSUME HeartbeatWakeAssumption, WakeInv, NEW t \in Targets, NEW p \in Levels, p > 0, RequestHeartbeatNow(t, p)
  PROVE  WakeInv'
<1>1. /\ pendingWakes \in [Targets -> Levels] /\ owed \in [Targets -> Levels] /\ timerKind \in Kinds
      /\ Levels \subseteq Nat
  BY WakeTypes, LevelFacts DEF WakeInv
<1>2. /\ pendingWakes' = Queued(Only(t, p)) /\ timerKind' \in Scheduled(timerKind, "normal")
      /\ owed' = [owed EXCEPT ![t] = Higher(@, p)]
      /\ UNCHANGED <<handler, scheduled, running, batch, lifecycles, throws, interrupted>>
  BY DEF RequestHeartbeatNow
<1>3. /\ pendingWakes' \in [Targets -> Levels] /\ pendingWakes'[t] >= p
      /\ \A u \in Targets : pendingWakes'[u] >= pendingWakes[u]
  <2>1. Only(t, p) \in [Targets -> Levels] /\ Only(t, p)[t] = p /\ WakeTypeOK
    BY OnlyFacts DEF WakeInv
  <2>2. /\ Queued(Only(t, p)) \in [Targets -> Levels]
        /\ \A u \in Targets :
             Queued(Only(t, p))[u] >= pendingWakes[u] /\ Queued(Only(t, p))[u] >= Only(t, p)[u]
    BY <2>1, QueuedFacts
  <2>. QED
    BY <1>2, <2>1, <2>2
<1>4. /\ owed' \in [Targets -> Levels]
      /\ \A u \in Targets : owed'[u] = IF u = t THEN Higher(owed[t], p) ELSE owed[u]
  BY <1>1, <1>2, LevelFacts
<1>5. timerKind' \in Kinds /\ timerKind' # "none"
  BY <1>1, <1>2, ScheduledFacts
<1>6. WakeTypeOK'
  BY <1>2, <1>3, <1>4, <1>5 DEF WakeInv, WakeTypeOK, Levels, Kinds
<1>7. ASSUME NEW u \in Targets, owed'[u] > 0
      PROVE  InABatch(u, owed[u])' \/ pendingWakes'[u] >= owed'[u]
  <2>1. /\ pendingWakes'[u] \in Nat /\ pendingWakes[u] \in Nat /\ owed'[u] \in Nat /\ owed[u] \in Nat
        /\ p \in Nat /\ pendingWakes'[u] >= pendingWakes[u]
    BY <1>1, <1>3, <1>4
  <2>2. CASE owed'[u] = owed[u]
    <3>1. InABatch(u, owed[u]) \/ pendingWakes[u] >= owed[u]
      BY <1>7, <2>2 DEF WakeInv, NoWakeForgotten, InABatch
    <3>2. InABatch(u, owed[u]) => InABatch(u, owed[u])'
      BY <1>2, <2>2 DEF InABatch, InHandler
    <3>. QED
      BY <2>1, <2>2, <3>1, <3>2
  <2>3. CASE owed'[u] # owed[u]
    <3>1. u = t /\ owed'[u] = p
      BY <1>4, <2>3 DEF Higher
    <3>. QED
      BY <1>3, <3>1
  <2>. QED
    BY <2>2, <2>3
<1>8. NoWakeForgotten'
  BY <1>5, <1>7 DEF NoWakeForgotten, InABatch
<1>9. OneBatch'
  BY <1>2 DEF WakeInv, OneBatch, InHandler
<1>. QED
  BY <1>6, <1>8, <1>9 DEF WakeInv

(* A new lifecycle sets a timer for what is pending; the batch that is in   *)
(* its handler stays and counts as interrupted.                            *)
LEMMA SetHandlerKeepsInv ==
  ASSUME HeartbeatWakeAssumption, WakeInv, SetHeartbeatWakeHandler
  PROVE  WakeInv'
<1>1. /\ batch \in [Slots -> Batches] /\ pendingWakes \in [Targets -> Levels] /\ Levels \subseteq Nat
      /\ owed \in [Targets -> Levels] /\ lifecycles \in 0..MaxLifecycles /\ throws \in 0..MaxThrows
  BY WakeTypes, LevelFacts DEF WakeInv
<1>2. /\ lifecycles < MaxLifecycles /\ lifecycles' = lifecycles + 1 /\ handler' = TRUE
      /\ timerKind' = IF pendingWakes # NoWakes THEN "normal" ELSE "none"
      /\ running' = FALSE /\ scheduled' = FALSE
      /\ batch' = [b \in Slots |-> [batch[b] EXCEPT !.old = InHandler(b)]]
      /\ interrupted' = (interrupted \/ \E b \in Slots : InHandler(b))
      /\ UNCHANGED <<pendingWakes, throws, owed>>
  BY DEF SetHeartbeatWakeHandler
<1>3. ASSUME NEW b \in Slots
      PROVE  /\ batch'[b] \in Batches /\ batch'[b].wakes = batch[b].wakes /\ batch'[b].todo = batch[b].todo
             /\ batch'[b].current = batch[b].current
  <2>1. InHandler(b) \in BOOLEAN /\ batch[b] \in Batches
    BY <1>1 DEF InHandler
  <2>2. batch'[b] = [batch[b] EXCEPT !.old = InHandler(b)]
    BY <1>2
  <2>. QED
    BY <2>1, <2>2 DEF Batches
<1>4. batch' \in [Slots -> Batches]
  BY <1>2, <1>3
<1>5. \A b \in Slots : InHandler(b)' <=> InHandler(b)
  BY <1>3 DEF InHandler
<1>6. interrupted' \in BOOLEAN /\ lifecycles' \in 0..MaxLifecycles
  <2>1. interrupted' \in BOOLEAN
    BY <1>2
  <2>2. lifecycles' \in 0..MaxLifecycles
    BY <1>1, <1>2, HeartbeatWakeAssumption
  <2>. QED
    BY <2>1, <2>2
<1>7. WakeTypeOK'
  BY <1>1, <1>2, <1>4, <1>6 DEF WakeTypeOK, Levels, Batches
<1>8. ASSUME NEW t \in Targets, owed'[t] > 0
      PROVE  InABatch(t, owed[t])' \/ (pendingWakes'[t] >= owed'[t] /\ timerKind' # "none")
  <2>1. owed'[t] = owed[t] /\ pendingWakes'[t] = pendingWakes[t] /\ owed[t] \in Nat /\ pendingWakes[t] \in Nat
    BY <1>1, <1>2
  <2>2. InABatch(t, owed[t]) \/ pendingWakes[t] >= owed[t]
    BY <1>8, <2>1 DEF WakeInv, NoWakeForgotten, InABatch
  <2>3. InABatch(t, owed[t]) => InABatch(t, owed[t])'
    BY <1>3, <1>5, <2>1 DEF InABatch
  <2>4. pendingWakes[t] >= owed[t] => timerKind' # "none"
    <3>1. pendingWakes[t] >= owed[t] => pendingWakes[t] # 0
      BY <1>8, <2>1
    <3>. QED
      BY <1>2, <3>1 DEF NoWakes
  <2>. QED
    BY <2>1, <2>2, <2>3, <2>4
<1>9. NoWakeForgotten'
  BY <1>8 DEF NoWakeForgotten, InABatch
<1>10. OneBatch'
  BY <1>2, <1>5 DEF OneBatch
<1>. QED
  BY <1>7, <1>9, <1>10 DEF WakeInv

(* The timer that hands nothing over, and the end of a registration. *)
LEMMA IdleKeepsInv ==
  ASSUME WakeInv, DisposeHandler \/ TimerFindsNothing \/ TimerWaits
  PROVE  WakeInv'
<1>1. /\ handler \in BOOLEAN /\ scheduled \in BOOLEAN /\ timerKind \in Kinds
      /\ pendingWakes \in [Targets -> Levels] /\ owed \in [Targets -> Levels]
  BY WakeTypes DEF WakeInv
<1>2. /\ UNCHANGED <<pendingWakes, running, batch, lifecycles, throws, owed, interrupted>>
      /\ handler' \in BOOLEAN /\ scheduled' \in BOOLEAN /\ timerKind' \in Kinds
      /\ handler' => handler /\ (timerKind' = timerKind \/ pendingWakes = NoWakes)
  <2>1. CASE DisposeHandler
    BY <1>1, <2>1 DEF DisposeHandler
  <2>2. CASE TimerFindsNothing
    BY <1>1, <2>2 DEF TimerFindsNothing, Kinds
  <2>3. CASE TimerWaits
    BY <1>1, <2>3 DEF TimerWaits
  <2>. QED
    BY <2>1, <2>2, <2>3
<1>3. WakeTypeOK'
  BY <1>2 DEF WakeInv, WakeTypeOK, Kinds
<1>4. OneBatch'
  BY <1>2 DEF WakeInv, OneBatch, InHandler
<1>5. NoWakeForgotten'
  <2>1. \A b \in Slots : InHandler(b)' <=> InHandler(b)
    BY <1>2 DEF InHandler
  <2>2. ASSUME NEW t \in Targets, owed[t] > 0, pendingWakes[t] >= owed[t], handler'
        PROVE  timerKind' = timerKind /\ handler
    <3>1. pendingWakes[t] \in Nat /\ owed[t] \in Nat
      BY <1>1, LevelFacts, HeartbeatWakeAssumption
    <3>2. pendingWakes[t] # 0
      BY <2>2, <3>1
    <3>. QED
      BY <1>2, <2>2, <3>2 DEF NoWakes
  <2>. QED
    BY <1>2, <2>1, <2>2 DEF WakeInv, NoWakeForgotten
<1>. QED
  BY <1>3, <1>4, <1>5 DEF WakeInv

(* The timer takes what is pending into a batch of its own. *)
LEMMA TakeKeepsInv ==
  ASSUME HeartbeatWakeAssumption, WakeInv, NEW b \in Slots, NEW t \in Targets, TimerTakesBatch(b, t)
  PROVE  WakeInv'
<1>. DEFINE new == [wakes |-> pendingWakes, current |-> t, old |-> FALSE,
                    todo |-> {u \in Targets : pendingWakes[u] # 0} \ {t}]
<1>1. /\ batch \in [Slots -> Batches] /\ pendingWakes \in [Targets -> Levels] /\ owed \in [Targets -> Levels]
      /\ Levels \subseteq Nat /\ 0 \in Levels /\ t # Nobody
  BY WakeTypes, LevelFacts DEF WakeInv, HeartbeatWakeAssumption
<1>2. /\ ~running /\ ~InHandler(b) /\ timerKind' = "none" /\ scheduled' = FALSE /\ running' = TRUE
      /\ batch' = [batch EXCEPT ![b] = new] /\ pendingWakes' = NoWakes /\ owed' = [owed EXCEPT ![t] = 0]
      /\ UNCHANGED <<handler, lifecycles, throws, interrupted>>
  BY DEF TimerTakesBatch
<1>3. new \in Batches /\ new.current = t /\ new.wakes = pendingWakes /\ new.todo = {u \in Targets : pendingWakes[u] # 0} \ {t}
  BY <1>1 DEF Batches
<1>. HIDE DEF new
<1>4. batch' \in [Slots -> Batches] /\ \A c \in Slots : batch'[c] = IF c = b THEN new ELSE batch[c]
  BY <1>1, <1>2, <1>3
<1>5. owed' \in [Targets -> Levels] /\ \A u \in Targets : owed'[u] = IF u = t THEN 0 ELSE owed[u]
  BY <1>1, <1>2
<1>6. \A c \in Slots : InHandler(c)' <=> c = b \/ InHandler(c)
  BY <1>1, <1>3, <1>4 DEF InHandler
<1>7. WakeTypeOK'
  <2>1. pendingWakes' \in [Targets -> Levels] /\ timerKind' \in Kinds /\ running' \in BOOLEAN /\ scheduled' \in BOOLEAN
    BY <1>1, <1>2 DEF NoWakes, Kinds
  <2>. QED
    BY <1>2, <1>4, <1>5, <2>1 DEF WakeInv, WakeTypeOK, Levels, Kinds, Batches
<1>8. ASSUME NEW u \in Targets, owed'[u] > 0 PROVE InABatch(u, owed[u])'
  <2>1. u # t /\ owed'[u] = owed[u] /\ owed[u] \in Nat /\ pendingWakes[u] \in Nat
    <3>1. owed'[u] \in Nat /\ owed[u] \in Nat /\ pendingWakes[u] \in Nat
      BY <1>1, <1>5
    <3>2. owed'[u] # 0
      BY <1>8, <3>1
    <3>. QED
      BY <1>5, <3>1, <3>2
  <2>2. CASE InABatch(u, owed[u])
    <3>1. PICK c \in Slots : InHandler(c) /\ u \in batch[c].todo /\ batch[c].wakes[u] >= owed[u]
      BY <2>2 DEF InABatch
    <3>2. InHandler(c)' /\ batch'[c] = batch[c]
      BY <1>2, <1>4, <1>6, <3>1
    <3>. QED
      BY <2>1, <3>1, <3>2 DEF InABatch
  <2>3. CASE pendingWakes[u] >= owed[u]
    <3>1. pendingWakes[u] # 0
      BY <1>8, <2>1, <2>3
    <3>2. InHandler(b)' /\ u \in batch'[b].todo /\ batch'[b].wakes[u] >= owed'[u]
      BY <1>3, <1>4, <1>6, <2>1, <2>3, <3>1
    <3>. QED
      BY <3>2 DEF InABatch
  <2>. QED
    BY <1>8, <2>1, <2>2, <2>3 DEF WakeInv, NoWakeForgotten, InABatch
<1>9. NoWakeForgotten'
  BY <1>8 DEF NoWakeForgotten, InABatch
<1>10. OneBatch'
  BY <1>2, <1>6 DEF WakeInv, OneBatch
<1>. QED
  BY <1>7, <1>9, <1>10 DEF WakeInv

(* The wake in the handler. *)
LEMMA CurrentFacts ==
  ASSUME WakeTypeOK, NEW b \in Slots, InHandler(b)
  PROVE  /\ batch[b].current \in Targets /\ batch[b].wakes \in [Targets -> Levels]
         /\ batch[b].wakes[batch[b].current] \in Levels
<1>1. batch[b] \in Batches
  BY WakeTypes
<1>. QED
  BY <1>1 DEF Batches, InHandler

(* What is owed is in a batch or pending. *)
LEMMA OwedFacts ==
  ASSUME WakeInv, NEW t \in Targets, owed[t] > 0
  PROVE  InABatch(t, owed[t]) \/ pendingWakes[t] >= owed[t]
BY DEF WakeInv, NoWakeForgotten, InABatch

(* The handler is done with a wake. *)
LEMMA DoneKeepsInv ==
  ASSUME HeartbeatWakeAssumption, WakeInv, NEW b \in Slots, HandlerIsDone(b)
  PROVE  WakeInv'
<1>1. /\ InHandler(b) /\ BatchGoesOn(b, timerKind, owed) /\ pendingWakes' = pendingWakes
      /\ UNCHANGED <<handler, scheduled, lifecycles, throws, interrupted>>
  BY DEF HandlerIsDone
<1>2. /\ WakeTypeOK /\ OneBatch /\ timerKind \in Kinds /\ owed \in [Targets -> Levels]
      /\ pendingWakes' \in [Targets -> Levels] /\ throws' \in 0..MaxThrows
  BY <1>1, WakeTypes DEF WakeInv
<1>3. \A t \in Targets : owed[t] > 0 => InABatch(t, owed[t]) \/ pendingWakes'[t] >= owed[t]
  BY <1>1, OwedFacts
<1>. QED
  BY <1>1, <1>2, <1>3, GoesOnKeepsInv

(* The handler sends a wake back: it is pending with its priority. *)
LEMMA BusyKeepsInv ==
  ASSUME HeartbeatWakeAssumption, WakeInv, NEW b \in Slots, HandlerIsBusy(b)
  PROVE  WakeInv'
<1>. DEFINE t == batch[b].current
            p == batch[b].wakes[t]
            owedNow == [owed EXCEPT ![t] = Higher(@, p)]
<1>1. /\ InHandler(b) /\ pendingWakes' = Queued(Only(t, p))
      /\ \E now \in Scheduled(timerKind, "retry") : BatchGoesOn(b, now, owedNow)
      /\ UNCHANGED <<handler, scheduled, lifecycles, throws, interrupted>>
  BY DEF HandlerIsBusy
<1>2. PICK now \in Scheduled(timerKind, "retry") : BatchGoesOn(b, now, owedNow)
  BY <1>1
<1>3. /\ WakeTypeOK /\ OneBatch /\ timerKind \in Kinds /\ owed \in [Targets -> Levels] /\ Levels \subseteq Nat
      /\ pendingWakes \in [Targets -> Levels] /\ throws' \in 0..MaxThrows /\ t \in Targets /\ p \in Levels
  BY <1>1, WakeTypes, CurrentFacts, LevelFacts DEF WakeInv
<1>. HIDE DEF t, p
<1>4. now \in Kinds
  BY <1>3, ScheduledFacts
<1>5. owedNow \in [Targets -> Levels] /\ \A u \in Targets : owedNow[u] = IF u = t THEN Higher(owed[t], p) ELSE owed[u]
  BY <1>3, LevelFacts
<1>6. /\ pendingWakes' \in [Targets -> Levels] /\ pendingWakes'[t] >= p
      /\ \A u \in Targets : pendingWakes'[u] >= pendingWakes[u]
  <2>1. Only(t, p) \in [Targets -> Levels] /\ Only(t, p)[t] = p
    BY <1>3, OnlyFacts
  <2>2. /\ Queued(Only(t, p)) \in [Targets -> Levels]
        /\ \A u \in Targets :
             Queued(Only(t, p))[u] >= pendingWakes[u] /\ Queued(Only(t, p))[u] >= Only(t, p)[u]
    BY <1>3, <2>1, QueuedFacts
  <2>. QED
    BY <1>1, <1>3, <2>1, <2>2
<1>. HIDE DEF owedNow
<1>7. ASSUME NEW u \in Targets, owedNow[u] > 0 PROVE InABatch(u, owedNow[u]) \/ pendingWakes'[u] >= owedNow[u]
  <2>1. CASE owedNow[u] = owed[u]
    <3>1. InABatch(u, owed[u]) \/ pendingWakes[u] >= owed[u]
      BY <1>7, <2>1, OwedFacts
    <3>2. /\ pendingWakes'[u] \in Nat /\ pendingWakes[u] \in Nat /\ owed[u] \in Nat
          /\ pendingWakes'[u] >= pendingWakes[u]
      BY <1>3, <1>6
    <3>3. pendingWakes[u] >= owed[u] => pendingWakes'[u] >= owed[u]
      BY <3>2
    <3>. QED
      BY <2>1, <3>1, <3>3
  <2>2. CASE owedNow[u] # owed[u]
    <3>1. u = t /\ owedNow[u] = p
      BY <1>5, <2>2 DEF Higher
    <3>. QED
      BY <1>6, <3>1
  <2>. QED
    BY <2>1, <2>2
<1>. QED
  BY <1>1, <1>2, <1>3, <1>4, <1>5, <1>6, <1>7, GoesOnKeepsInv

(* The handler throws: its wake and the rest of the batch are pending. *)
LEMMA ThrowKeepsInv ==
  ASSUME HeartbeatWakeAssumption, WakeInv, NEW b \in Slots, HandlerThrows(b)
  PROVE  WakeInv'
<1>. DEFINE t == batch[b].current
            p == batch[b].wakes[t]
<1>1. /\ InHandler(b) /\ throws < MaxThrows /\ throws' = throws + 1
      /\ pendingWakes' = Queued(batch[b].wakes) /\ owed' = [owed EXCEPT ![t] = Higher(@, p)]
      /\ \E now \in Scheduled(timerKind, "retry") : BatchEnds(b, now)
      /\ UNCHANGED <<handler, scheduled, lifecycles, interrupted>>
  BY DEF HandlerThrows
<1>2. PICK now \in Scheduled(timerKind, "retry") : BatchEnds(b, now)
  BY <1>1
<1>3. /\ WakeTypeOK /\ OneBatch /\ timerKind \in Kinds /\ owed \in [Targets -> Levels] /\ Levels \subseteq Nat
      /\ pendingWakes \in [Targets -> Levels] /\ t \in Targets /\ p \in Levels
      /\ batch \in [Slots -> Batches] /\ batch[b].wakes \in [Targets -> Levels]
  BY <1>1, WakeTypes, CurrentFacts, LevelFacts DEF WakeInv
<1>4. throws' \in 0..MaxThrows
  BY <1>1, WakeTypes, HeartbeatWakeAssumption DEF WakeInv
<1>5. /\ pendingWakes' \in [Targets -> Levels]
      /\ \A u \in Targets : pendingWakes'[u] >= pendingWakes[u] /\ pendingWakes'[u] >= batch[b].wakes[u]
  BY <1>1, <1>3, QueuedFacts
<1>6. pendingWakes'[t] >= p
  BY <1>3, <1>5
<1>. HIDE DEF t, p
<1>7. now \in Kinds
  BY <1>3, ScheduledFacts
<1>8. owed' \in [Targets -> Levels] /\ \A u \in Targets : owed'[u] = IF u = t THEN Higher(owed[t], p) ELSE owed[u]
  BY <1>1, <1>3, LevelFacts
<1>9. ASSUME NEW u \in Targets, owed'[u] > 0
      PROVE  \/ \E c \in Slots : c # b /\ InHandler(c) /\ u \in batch[c].todo /\ batch[c].wakes[u] >= owed'[u]
             \/ pendingWakes'[u] >= owed'[u]
  <2>1. CASE owed'[u] = owed[u]
    <3>1. /\ pendingWakes'[u] \in Nat /\ pendingWakes[u] \in Nat /\ owed[u] \in Nat /\ batch[b].wakes[u] \in Nat
          /\ pendingWakes'[u] >= pendingWakes[u] /\ pendingWakes'[u] >= batch[b].wakes[u]
      BY <1>3, <1>5
    <3>2. CASE pendingWakes[u] >= owed[u]
      BY <2>1, <3>1, <3>2
    <3>3. CASE InABatch(u, owed[u])
      <4>1. PICK c \in Slots : InHandler(c) /\ u \in batch[c].todo /\ batch[c].wakes[u] >= owed[u]
        BY <3>3 DEF InABatch
      <4>2. CASE c = b
        <5>1. batch[b].wakes[u] >= owed[u]
          BY <4>1, <4>2
        <5>. QED
          BY <2>1, <3>1, <5>1
      <4>3. CASE c # b
        BY <2>1, <4>1, <4>3
      <4>. QED
        BY <4>2, <4>3
    <3>. QED
      BY <1>9, <2>1, <3>2, <3>3, OwedFacts
  <2>2. CASE owed'[u] # owed[u]
    <3>1. u = t /\ owed'[u] = p
      BY <1>8, <2>2 DEF Higher
    <3>. QED
      BY <1>6, <3>1
  <2>. QED
    BY <2>1, <2>2
<1>. QED
  BY <1>1, <1>2, <1>3, <1>4, <1>5, <1>7, <1>8, <1>9, EndKeepsInv

-----------------------------------------------------------------------------
(* Every state of the wakes has the invariant. *)
LEMMA WakeInvAlways == ASSUME HeartbeatWakeAssumption PROVE WakeSpec => []WakeInv
<1>1. WakeInit => WakeInv
  BY WakeInvInit
<1>2. WakeInv /\ [WakeNext]_wakeVars => WakeInv'
  <2>1. ASSUME WakeInv, WakeNext PROVE WakeInv'
    <3>1. ASSUME NEW r \in Requests, RequestHeartbeatNow(r[1], r[2]) PROVE WakeInv'
      <4>1. r[1] \in Targets /\ r[2] \in Levels /\ r[2] > 0
        BY LevelFacts
      <4>. QED
        BY <2>1, <3>1, <4>1, RequestKeepsInv
    <3>2. CASE SetHeartbeatWakeHandler
      BY <2>1, <3>2, SetHandlerKeepsInv
    <3>3. CASE DisposeHandler \/ TimerFindsNothing \/ TimerWaits
      BY <2>1, <3>3, IdleKeepsInv
    <3>4. ASSUME NEW b \in Slots, NEW t \in Targets, TimerTakesBatch(b, t) PROVE WakeInv'
      BY <2>1, <3>4, TakeKeepsInv
    <3>5. ASSUME NEW b \in Slots, HandlerReturns(b) PROVE WakeInv'
      BY <2>1, <3>5, DoneKeepsInv, BusyKeepsInv, ThrowKeepsInv DEF HandlerReturns
    <3>. QED
      BY <2>1, <3>1, <3>2, <3>3, <3>4, <3>5 DEF WakeNext, TimerFires
  <2>2. ASSUME WakeInv, UNCHANGED wakeVars PROVE WakeInv'
    BY <2>2 DEF wakeVars, WakeInv, WakeTypeOK, NoWakeForgotten, OneBatch, InHandler
  <2>. QED
    BY <2>1, <2>2
<1>. QED
  BY <1>1, <1>2, PTL DEF WakeSpec

(* The types of the wakes hold. *)
THEOREM WakeTypeCorrect == WakeSpec => []WakeTypeOK
<1>1. WakeInv => WakeTypeOK
  BY DEF WakeInv
<1>. QED
  BY <1>1, HeartbeatWakeAssumption, WakeInvAlways, PTL

(* However requests, retries, errors and lifecycles interleave, a wake the  *)
(* handler has not heard of is in a batch or pending with a timer to come. *)
THEOREM NoWakeForgottenAlways == WakeSpec => []NoWakeForgotten
<1>1. WakeInv => NoWakeForgotten
  BY DEF WakeInv
<1>. QED
  BY <1>1, HeartbeatWakeAssumption, WakeInvAlways, PTL

(* Only a lifecycle that interrupts a batch can make two of them overlap. *)
THEOREM BatchesDoNotOverlapAlways == WakeSpec => []BatchesDoNotOverlap
<1>1. WakeInv => BatchesDoNotOverlap
  BY DEF WakeInv, OneBatch, BatchesDoNotOverlap
<1>. QED
  BY <1>1, HeartbeatWakeAssumption, WakeInvAlways, PTL
=============================================================================
