------------------------ MODULE DeliveryQueueProofs ------------------------
(***************************************************************************)
(* The queue loses no delivery and leaks no claim, for any entries, calls, *)
(* recoveries and drains, any errors of files and sends, and any number of *)
(* crashes: it delivers at least once, as AtLeastOnceQueue says.  As long  *)
(* as only recoveries and drains are at work, what was                     *)
(* acked stays gone; and if files can be read and written, they send an    *)
(* entry once and attempt it no more often than allowed, whatever crashes  *)
(* in between.                                                             *)
(***************************************************************************)
EXTENDS DeliveryQueue, TLAPS, WellFoundedInduction

Counts == {Absent} \cup 0..MaxRetries
ActingStages == {"enqueueing", "sendingUnqueued", "sending", "marking", "unmarking", "failing", "claimed", "moving"}
ClaimStages == {"claimed", "sending", "marking", "unmarking", "failing", "moving"}
Others == Workers \ LiveCalls

(* A worker's own state: what stages it may have, and an entry where it     *)
(* acts on one.                                                            *)
WorkerOK(w, s) ==
  /\ s \in WorkerStates
  /\ w \in LiveCalls => s.stage \in LiveStages
  /\ w \notin LiveCalls => s.stage \notin {"enqueueing", "sendingUnqueued", "done", "dead"}
  /\ s.stage = "deferring" => w \in Recoveries
  /\ s.stage \in ActingStages => s.entry \in Entries

WorkersOK == worker \in [Workers -> WorkerStates] /\ \A w \in Workers : WorkerOK(w, worker[w])

FileTypes ==
  /\ json \in [Entries -> Counts] /\ marker \subseteq Entries /\ failed \subseteq Entries
  /\ crashes \in 0..MaxCrashes
  /\ did \in [Entries -> SUBSET Events]
  /\ sentThisLife \in [Entries -> 0..2] /\ failures \in [Entries -> 0..AttemptsCap]

(* An entry is claimed by one call, a key by one drain. *)
EntryClaims ==
  /\ entriesInProgress \subseteq Entries
  /\ \A v \in Others : worker[v].stage \in ClaimStages => worker[v].entry \in entriesInProgress
  /\ \A e \in entriesInProgress : \E v \in Others : worker[v].stage \in ClaimStages /\ worker[v].entry = e
  /\ \A v, w \in Others :
       /\ worker[v].stage \in ClaimStages /\ worker[w].stage \in ClaimStages
       /\ worker[v].entry = worker[w].entry
       => v = w

DrainClaims ==
  /\ \A v \in Drains : worker[v].stage # "idle" => KeyOf[v] \in drainInProgress
  /\ \A k \in drainInProgress : \E v \in Drains : worker[v].stage # "idle" /\ KeyOf[v] = k
  /\ \A v, w \in Drains :
       worker[v].stage # "idle" /\ worker[w].stage # "idle" /\ KeyOf[v] = KeyOf[w] => v = w

ClaimsInv == WorkersOK /\ EntryClaims /\ DrainClaims

(* What is about to be acked was sent or aborted. *)
Told(e) == did[e] \cap {"sent", "aborted"} # {}
MarkedWereTold ==
  \A w \in Workers :
    worker[w].stage = "marking" /\ worker[w].entry \notin BestEffort => Told(worker[w].entry)

QueueInv == FileTypes /\ ClaimsInv /\ MarkedWereTold /\ NothingLost

-----------------------------------------------------------------------------
(* The kinds of workers are apart. *)
LEMMA WorkerKinds ==
  ASSUME DeliveryQueueAssumption
  PROVE  /\ Others = Recoveries \cup Drains
         /\ \A w \in Drains : w \in Others /\ w \in Workers /\ w \notin LiveCalls /\ w \notin Recoveries
         /\ \A w \in Recoveries : w \in Others /\ w \in Workers /\ w \notin LiveCalls /\ w \notin Drains
         /\ \A w \in Workers : w \in LiveCalls \/ w \in Others
         /\ NoEntry \notin Entries /\ Entries \subseteq Nat
BY DEF DeliveryQueueAssumption, Workers, Others, NoEntry

(* A worker at rest. *)
LEMMA IdleFacts ==
  /\ IdleWorker \in WorkerStates /\ IdleWorker.stage = "idle" /\ IdleWorker.entry = NoEntry
  /\ \A stage \in Stages : [IdleWorker EXCEPT !.stage = stage] \in WorkerStates
                           /\ [IdleWorker EXCEPT !.stage = stage].stage = stage
<1>1. IdleWorker \in WorkerStates /\ IdleWorker.stage = "idle" /\ IdleWorker.entry = NoEntry
  BY DEF IdleWorker, WorkerStates, Stages
<1>. QED
  BY <1>1 DEF WorkerStates

(* One worker moves: the others are as they were. *)
LEMMA WorkerMoves ==
  ASSUME WorkersOK, NEW w \in Workers, NEW s, WorkerOK(w, s), worker' = [worker EXCEPT ![w] = s]
  PROVE  WorkersOK' /\ \A v \in Workers : worker'[v] = IF v = w THEN s ELSE worker[v]
<1>1. s \in WorkerStates /\ worker \in [Workers -> WorkerStates]
  BY DEF WorkerOK, WorkersOK
<1>2. worker' \in [Workers -> WorkerStates] /\ \A v \in Workers : worker'[v] = IF v = w THEN s ELSE worker[v]
  BY <1>1
<1>3. \A v \in Workers : WorkerOK(v, worker'[v])
  BY <1>2 DEF WorkersOK
<1>. QED
  BY <1>2, <1>3 DEF WorkersOK, WorkerOK

(* The claims on entries when a worker moves: it is a live call, keeps what *)
(* it has, releases it, or claims what nobody has.                         *)
LEMMA EntryClaimsMove ==
  ASSUME DeliveryQueueAssumption, WorkersOK, EntryClaims, NEW w \in Workers, NEW s, WorkerOK(w, s),
         worker' = [worker EXCEPT ![w] = s],
         \/ w \in LiveCalls /\ entriesInProgress' = entriesInProgress
         \/ /\ worker[w].stage \in ClaimStages <=> s.stage \in ClaimStages
            /\ s.stage \in ClaimStages => s.entry = worker[w].entry
            /\ entriesInProgress' = entriesInProgress
         \/ /\ w \notin LiveCalls /\ worker[w].stage \in ClaimStages /\ s.stage \notin ClaimStages
            /\ entriesInProgress' = entriesInProgress \ {worker[w].entry}
         \/ /\ w \notin LiveCalls /\ worker[w].stage \notin ClaimStages /\ s.stage \in ClaimStages
            /\ s.entry \in Entries \ entriesInProgress
            /\ entriesInProgress' = entriesInProgress \cup {s.entry}
  PROVE  EntryClaims'
<1>1. \A v \in Workers : worker'[v] = IF v = w THEN s ELSE worker[v]
  BY WorkerMoves
<1>2. Others \subseteq Workers /\ (w \in Others <=> w \notin LiveCalls)
  BY DEF Others
<1>3. CASE w \in LiveCalls /\ entriesInProgress' = entriesInProgress
  <2>1. \A v \in Others : worker'[v] = worker[v]
    BY <1>1, <1>2, <1>3
  <2>. QED
    BY <1>3, <2>1 DEF EntryClaims
<1>4. CASE /\ worker[w].stage \in ClaimStages <=> s.stage \in ClaimStages
           /\ s.stage \in ClaimStages => s.entry = worker[w].entry
           /\ entriesInProgress' = entriesInProgress
  <2>1. \A v \in Others :
          /\ worker'[v].stage \in ClaimStages <=> worker[v].stage \in ClaimStages
          /\ worker'[v].stage \in ClaimStages => worker'[v].entry = worker[v].entry
    BY <1>1, <1>2, <1>4
  <2>. QED
    BY <1>4, <2>1 DEF EntryClaims
<1>5. CASE /\ w \notin LiveCalls /\ worker[w].stage \in ClaimStages /\ s.stage \notin ClaimStages
           /\ entriesInProgress' = entriesInProgress \ {worker[w].entry}
  <2>1. \A v \in Others :
          /\ worker'[v].stage \in ClaimStages <=> v # w /\ worker[v].stage \in ClaimStages
          /\ worker'[v].stage \in ClaimStages => worker'[v].entry = worker[v].entry
    BY <1>1, <1>2, <1>5
  <2>2. entriesInProgress' \subseteq Entries
    BY <1>5 DEF EntryClaims
  <2>3. ASSUME NEW v \in Others, worker'[v].stage \in ClaimStages PROVE worker'[v].entry \in entriesInProgress'
    BY <1>2, <1>5, <2>1, <2>3 DEF EntryClaims
  <2>4. ASSUME NEW e \in entriesInProgress'
        PROVE  \E v \in Others : worker'[v].stage \in ClaimStages /\ worker'[v].entry = e
    <3>1. PICK v \in Others : worker[v].stage \in ClaimStages /\ worker[v].entry = e
      BY <1>5, <2>4 DEF EntryClaims
    <3>. QED
      BY <1>5, <2>1, <2>4, <3>1
  <2>. QED
    BY <2>1, <2>2, <2>3, <2>4 DEF EntryClaims
<1>6. CASE /\ w \notin LiveCalls /\ worker[w].stage \notin ClaimStages /\ s.stage \in ClaimStages
           /\ s.entry \in Entries \ entriesInProgress
           /\ entriesInProgress' = entriesInProgress \cup {s.entry}
  <2>1. \A v \in Others :
          /\ worker'[v].stage \in ClaimStages <=> v = w \/ worker[v].stage \in ClaimStages
          /\ worker'[v].entry = IF v = w THEN s.entry ELSE worker[v].entry
    BY <1>1, <1>2, <1>6
  <2>2. w \in Others /\ s.entry \notin entriesInProgress
    BY <1>2, <1>6
  <2>3. entriesInProgress' \subseteq Entries
    BY <1>6 DEF EntryClaims
  <2>4. \A v \in Others : worker'[v].stage \in ClaimStages => worker'[v].entry \in entriesInProgress'
    BY <1>6, <2>1 DEF EntryClaims
  <2>5. ASSUME NEW e \in entriesInProgress'
        PROVE  \E v \in Others : worker'[v].stage \in ClaimStages /\ worker'[v].entry = e
    <3>1. CASE e = s.entry
      BY <2>1, <2>2, <3>1
    <3>2. CASE e \in entriesInProgress
      <4>1. PICK v \in Others : worker[v].stage \in ClaimStages /\ worker[v].entry = e
        BY <3>2 DEF EntryClaims
      <4>. QED
        BY <1>6, <2>1, <4>1
    <3>. QED
      BY <1>6, <2>5, <3>1, <3>2
  <2>6. ASSUME NEW v \in Others, NEW u \in Others, worker'[v].stage \in ClaimStages, worker'[u].stage \in ClaimStages,
               worker'[v].entry = worker'[u].entry
        PROVE  v = u
    BY <2>1, <2>2, <2>6 DEF EntryClaims
  <2>. QED
    BY <2>3, <2>4, <2>5, <2>6 DEF EntryClaims
<1>. QED
  BY <1>3, <1>4, <1>5, <1>6

(* The claims on drain keys when a worker moves. *)
LEMMA DrainClaimsMove ==
  ASSUME DeliveryQueueAssumption, WorkersOK, DrainClaims, NEW w \in Workers, NEW s, WorkerOK(w, s),
         worker' = [worker EXCEPT ![w] = s],
         \/ (w \in Drains => (worker[w].stage = "idle" <=> s.stage = "idle")) /\ drainInProgress' = drainInProgress
         \/ /\ w \in Drains /\ worker[w].stage = "idle" /\ s.stage # "idle" /\ KeyOf[w] \notin drainInProgress
            /\ drainInProgress' = drainInProgress \cup {KeyOf[w]}
         \/ /\ w \in Drains /\ worker[w].stage # "idle" /\ s.stage = "idle"
            /\ drainInProgress' = drainInProgress \ {KeyOf[w]}
  PROVE  DrainClaims'
<1>1. \A v \in Workers : worker'[v] = IF v = w THEN s ELSE worker[v]
  BY WorkerMoves
<1>2. Drains \subseteq Workers
  BY DEF Workers
<1>3. CASE (w \in Drains => (worker[w].stage = "idle" <=> s.stage = "idle")) /\ drainInProgress' = drainInProgress
  <2>1. \A v \in Drains : worker'[v].stage = "idle" <=> worker[v].stage = "idle"
    BY <1>1, <1>2, <1>3
  <2>. QED
    BY <1>3, <2>1 DEF DrainClaims
<1>4. CASE /\ w \in Drains /\ worker[w].stage = "idle" /\ s.stage # "idle" /\ KeyOf[w] \notin drainInProgress
           /\ drainInProgress' = drainInProgress \cup {KeyOf[w]}
  <2>1. \A v \in Drains : worker'[v].stage # "idle" <=> v = w \/ worker[v].stage # "idle"
    BY <1>1, <1>2, <1>4
  <2>. QED
    BY <1>4, <2>1 DEF DrainClaims
<1>5. CASE /\ w \in Drains /\ worker[w].stage # "idle" /\ s.stage = "idle"
           /\ drainInProgress' = drainInProgress \ {KeyOf[w]}
  <2>1. \A v \in Drains : worker'[v].stage # "idle" <=> v # w /\ worker[v].stage # "idle"
    BY <1>1, <1>2, <1>5
  <2>. QED
    BY <1>5, <2>1 DEF DrainClaims
<1>. QED
  BY <1>3, <1>4, <1>5

(* A worker goes to another stage with its claims. *)
LEMMA GoesKeepsClaims ==
  ASSUME DeliveryQueueAssumption, ClaimsInv, NEW w \in Workers, NEW stage \in Stages, Goes(w, stage), UNCHANGED claims,
         w \in LiveCalls => stage \in LiveStages,
         w \notin LiveCalls =>
           /\ stage \notin {"idle", "enqueueing", "sendingUnqueued", "done", "dead"}
           /\ worker[w].stage \in ClaimStages <=> stage \in ClaimStages
           /\ worker[w].stage # "idle" \/ w \in Recoveries,
         stage = "deferring" => w \in Recoveries,
         stage \in ActingStages => worker[w].stage \in ActingStages
  PROVE  /\ ClaimsInv'
         /\ \A v \in Workers : v # w => worker'[v] = worker[v]
         /\ worker'[w].stage = stage /\ worker'[w].entry = worker[w].entry
<1>. DEFINE s == [worker[w] EXCEPT !.stage = stage]
<1>1. worker[w] \in WorkerStates /\ WorkersOK /\ EntryClaims /\ DrainClaims /\ WorkerOK(w, worker[w])
  BY DEF ClaimsInv, WorkersOK
<1>2. s \in WorkerStates /\ s.stage = stage /\ s.entry = worker[w].entry
  BY <1>1 DEF WorkerStates
<1>3. worker' = [worker EXCEPT ![w] = s] /\ entriesInProgress' = entriesInProgress /\ drainInProgress' = drainInProgress
  BY DEF Goes, claims
<1>. HIDE DEF s
<1>4. WorkerOK(w, s)
  BY <1>1, <1>2 DEF WorkerOK
<1>5. w \in Drains => w \notin LiveCalls /\ w \notin Recoveries
  BY WorkerKinds
<1>6. EntryClaims'
  BY <1>1, <1>2, <1>3, <1>4, EntryClaimsMove
<1>7. DrainClaims'
  BY <1>1, <1>2, <1>3, <1>4, <1>5, DrainClaimsMove
<1>8. WorkersOK' /\ \A v \in Workers : worker'[v] = IF v = w THEN s ELSE worker[v]
  BY <1>1, <1>3, <1>4, WorkerMoves
<1>. QED
  BY <1>2, <1>6, <1>7, <1>8 DEF ClaimsInv

(* An entry is done with: a live call ends, another releases its claim. *)
LEMMA EntryDoneKeepsClaims ==
  ASSUME DeliveryQueueAssumption, ClaimsInv, NEW w \in Workers, worker[w].stage \in ActingStages, EntryDone(w)
  PROVE  /\ ClaimsInv'
         /\ \A v \in Workers : v # w => worker'[v] = worker[v]
         /\ worker'[w].stage \in {"done", "next"}
<1>1. worker[w] \in WorkerStates /\ WorkersOK /\ EntryClaims /\ DrainClaims /\ WorkerOK(w, worker[w])
  BY DEF ClaimsInv, WorkersOK
<1>2. CASE w \in LiveCalls
  <2>. DEFINE s == [IdleWorker EXCEPT !.stage = "done"]
  <2>1. s \in WorkerStates /\ s.stage = "done"
    BY IdleFacts DEF Stages
  <2>2. worker' = [worker EXCEPT ![w] = s] /\ entriesInProgress' = entriesInProgress /\ drainInProgress' = drainInProgress
    BY <1>2 DEF EntryDone, claims
  <2>. HIDE DEF s
  <2>3. WorkerOK(w, s)
    BY <1>2, <2>1 DEF WorkerOK, LiveStages, ActingStages
  <2>4. w \notin Drains
    BY <1>2, WorkerKinds
  <2>5. EntryClaims'
    BY <1>1, <1>2, <2>2, <2>3, EntryClaimsMove
  <2>6. DrainClaims'
    BY <1>1, <2>2, <2>3, <2>4, DrainClaimsMove
  <2>7. WorkersOK' /\ \A v \in Workers : worker'[v] = IF v = w THEN s ELSE worker[v]
    BY <1>1, <2>2, <2>3, WorkerMoves
  <2>. QED
    BY <2>1, <2>5, <2>6, <2>7 DEF ClaimsInv
<1>3. CASE w \notin LiveCalls
  <2>. DEFINE e == worker[w].entry
              r == [worker[w].read EXCEPT ![e] = Absent]
              s == [worker[w] EXCEPT !.stage = "next", !.read = r]
  <2>1. r \in [Entries -> {Absent} \cup 0..MaxRetries]
    BY <1>1 DEF WorkerStates
  <2>2. s \in WorkerStates /\ s.stage = "next"
    BY <1>1, <2>1 DEF WorkerStates, Stages
  <2>3. worker' = [worker EXCEPT ![w] = s]
    BY <1>1, <1>3 DEF EntryDone, WorkersOK, WorkerStates
  <2>4. entriesInProgress' = entriesInProgress \ {e} /\ drainInProgress' = drainInProgress
    BY <1>3 DEF EntryDone
  <2>. HIDE DEF s
  <2>5. WorkerOK(w, s)
    BY <1>1, <1>3, <2>2 DEF WorkerOK, LiveStages, ActingStages
  <2>6. worker[w].stage \in ClaimStages /\ worker[w].stage # "idle" /\ s.stage \notin ClaimStages
    BY <1>1, <1>3, <2>2 DEF WorkerOK, ActingStages, ClaimStages
  <2>7. EntryClaims'
    BY <1>1, <1>3, <2>3, <2>4, <2>5, <2>6, EntryClaimsMove
  <2>8. DrainClaims'
    BY <1>1, <2>2, <2>3, <2>4, <2>5, <2>6, DrainClaimsMove
  <2>9. WorkersOK' /\ \A v \in Workers : worker'[v] = IF v = w THEN s ELSE worker[v]
    BY <1>1, <2>3, <2>5, WorkerMoves
  <2>. QED
    BY <2>2, <2>7, <2>8, <2>9 DEF ClaimsInv
<1>. QED
  BY <1>2, <1>3

(* A recovery or drain ends, between two entries or with a claim. *)
LEMMA CallEndsKeepsClaims ==
  ASSUME DeliveryQueueAssumption, ClaimsInv, NEW w \in Others, CallEnds(w),
         worker[w].stage \in ClaimStages \cup {"next"}
  PROVE  /\ ClaimsInv'
         /\ \A v \in Workers : v # w => worker'[v] = worker[v]
         /\ worker'[w].stage = "idle"
<1>1. /\ w \in Workers /\ w \notin LiveCalls /\ WorkersOK /\ EntryClaims /\ DrainClaims
      /\ WorkerOK(w, worker[w])
  BY DEF ClaimsInv, WorkersOK, Others
<1>2. /\ worker' = [worker EXCEPT ![w] = IdleWorker]
      /\ drainInProgress' = IF w \in Drains THEN drainInProgress \ {KeyOf[w]} ELSE drainInProgress
      /\ entriesInProgress' = IF worker[w].stage = "next" THEN entriesInProgress
                              ELSE entriesInProgress \ {worker[w].entry}
  BY DEF CallEnds
<1>3. IdleWorker \in WorkerStates /\ IdleWorker.stage = "idle" /\ "idle" \notin ClaimStages /\ "next" \notin ClaimStages
  BY IdleFacts DEF ClaimStages
<1>4. WorkerOK(w, IdleWorker)
  BY <1>1, <1>3 DEF WorkerOK, ActingStages
<1>5. EntryClaims'
  BY <1>1, <1>2, <1>3, <1>4, EntryClaimsMove
<1>6. worker[w].stage # "idle"
  BY DEF ClaimStages
<1>7. DrainClaims'
  BY <1>1, <1>2, <1>3, <1>4, <1>6, DrainClaimsMove
<1>8. WorkersOK' /\ \A v \in Workers : worker'[v] = IF v = w THEN IdleWorker ELSE worker[v]
  BY <1>1, <1>2, <1>4, WorkerMoves
<1>. QED
  BY <1>1, <1>3, <1>5, <1>7, <1>8 DEF ClaimsInv

(* A worker that moves between stages without a claim, whatever else of its *)
(* state changes.                                                          *)
LEMMA UnclaimedKeepsClaims ==
  ASSUME DeliveryQueueAssumption, ClaimsInv, NEW w \in Workers, NEW s, WorkerOK(w, s),
         worker' = [worker EXCEPT ![w] = s], UNCHANGED claims,
         w \in LiveCalls \/ (worker[w].stage \notin ClaimStages /\ s.stage \notin ClaimStages),
         w \notin Drains \/ (worker[w].stage # "idle" /\ s.stage # "idle")
  PROVE  /\ ClaimsInv'
         /\ \A v \in Workers : worker'[v] = IF v = w THEN s ELSE worker[v]
<1>1. /\ WorkersOK /\ EntryClaims /\ DrainClaims
      /\ entriesInProgress' = entriesInProgress /\ drainInProgress' = drainInProgress
  BY DEF ClaimsInv, claims
<1>2. EntryClaims'
  BY <1>1, EntryClaimsMove
<1>3. DrainClaims'
  BY <1>1, DrainClaimsMove
<1>4. WorkersOK' /\ \A v \in Workers : worker'[v] = IF v = w THEN s ELSE worker[v]
  BY <1>1, WorkerMoves
<1>. QED
  BY <1>2, <1>3, <1>4 DEF ClaimsInv

(* The first of the entries that are left is one of them. *)
LEMMA FirstFacts ==
  ASSUME DeliveryQueueAssumption, NEW S \in SUBSET Entries, S # {}
  PROVE  First(S) \in S
<1>1. S \subseteq Nat
  BY WorkerKinds
<1>2. \E e \in S : \A f \in S : e <= f
  <2>1. PICK e \in S : \A f \in S : <<f, e>> \notin OpToRel(<, Nat)
    BY <1>1, NatLessThanWellFounded, WFMin
  <2>2. ASSUME NEW f \in S PROVE e <= f
    <3>1. <<f, e>> \in Nat \X Nat /\ ~(f < e)
      BY <1>1, <2>1, <2>2 DEF OpToRel
    <3>. QED
      BY <1>1, <3>1
  <2>. QED
    BY <2>2
<1>. QED
  BY <1>2 DEF First

(* What is kept stays kept: files go to failed/ or because their delivery   *)
(* was sent or aborted, and a call that acks an entry knows of that.       *)
LEMMA KeptStep ==
  ASSUME DeliveryQueueAssumption, WorkersOK, MarkedWereTold, NothingLost, failed \subseteq failed',
         \A e \in Entries : did[e] \subseteq did'[e],
         \A w \in Workers : worker'[w].stage = "marking" /\ worker'[w].entry \notin BestEffort =>
           \/ worker[w].stage = "marking" /\ worker'[w].entry = worker[w].entry
           \/ did'[worker'[w].entry] \cap {"sent", "aborted"} # {},
         \A e \in Entries \ BestEffort :
           json'[e] = Absent => json[e] = Absent \/ e \in failed' \/ did'[e] \cap {"sent", "aborted"} # {},
         \A e \in Entries : "persisted" \in did'[e] \ did[e] => json'[e] # Absent
  PROVE  MarkedWereTold' /\ NothingLost'
<1>1. \A w \in Workers : worker[w].stage = "marking" => worker[w].entry \in Entries
  BY DEF WorkersOK, WorkerOK, ActingStages
<1>2. ASSUME NEW w \in Workers, worker'[w].stage = "marking", worker'[w].entry \notin BestEffort
      PROVE  did'[worker'[w].entry] \cap {"sent", "aborted"} # {}
  <2>1. CASE worker[w].stage = "marking" /\ worker'[w].entry = worker[w].entry
    <3>1. worker[w].entry \in Entries /\ did[worker[w].entry] \cap {"sent", "aborted"} # {}
      BY <1>1, <1>2, <2>1 DEF MarkedWereTold, Told
    <3>2. did[worker[w].entry] \subseteq did'[worker[w].entry]
      BY <3>1
    <3>. QED
      BY <2>1, <3>1, <3>2
  <2>. QED
    BY <1>2, <2>1
<1>3. ASSUME NEW e \in Entries \ BestEffort, "persisted" \in did'[e], json'[e] = Absent, e \notin failed'
      PROVE  did'[e] \cap {"sent", "aborted"} # {}
  <2>1. "persisted" \in did[e] /\ e \notin failed /\ did[e] \subseteq did'[e]
    BY <1>3
  <2>2. CASE json[e] = Absent
    <3>1. did[e] \cap {"sent", "aborted"} # {}
      BY <2>1, <2>2 DEF NothingLost, Kept
    <3>. QED
      BY <2>1, <3>1
  <2>. QED
    BY <1>3, <2>2
<1>4. MarkedWereTold'
  BY <1>2 DEF MarkedWereTold, Told
<1>5. NothingLost'
  BY <1>3 DEF NothingLost, Kept
<1>. QED
  BY <1>4, <1>5

(* An event of an entry. *)
LEMMA HappensFacts ==
  ASSUME FileTypes, NEW e \in Entries, NEW event \in Events, Happens(e, event)
  PROVE  /\ did' \in [Entries -> SUBSET Events]
         /\ \A f \in Entries : did'[f] = IF f = e THEN did[e] \cup {event} ELSE did[f]
BY DEF FileTypes, Happens

-----------------------------------------------------------------------------
(* The live call starts and writes its entry. *)
LEMMA LiveCallKeepsInv ==
  ASSUME DeliveryQueueAssumption, QueueInv, NEW w \in Workers, LiveCall(w)
  PROVE  QueueInv'
<1>. DEFINE s == [worker[w] EXCEPT !.stage = "enqueueing", !.entry = EntryOf[w]]
<1>1. w \in LiveCalls /\ worker[w].stage = "idle" /\ UNCHANGED <<json, marker, failed, crashes, did, sentThisLife, failures, claims>>
  BY DEF LiveCall, At, files, history
<1>2. WorkersOK /\ worker[w] \in WorkerStates /\ WorkerOK(w, worker[w]) /\ ClaimsInv
  BY DEF QueueInv, ClaimsInv, WorkersOK
<1>3. EntryOf[w] \in Entries /\ w \notin Drains
  BY <1>1, WorkerKinds DEF DeliveryQueueAssumption
<1>4. s \in WorkerStates /\ s.stage = "enqueueing" /\ s.entry = EntryOf[w]
  BY <1>2, <1>3 DEF WorkerStates, Stages
<1>5. worker' = [worker EXCEPT ![w] = s]
  BY <1>2 DEF LiveCall, WorkerStates
<1>. HIDE DEF s
<1>6. WorkerOK(w, s)
  BY <1>1, <1>3, <1>4 DEF WorkerOK, LiveStages
<1>7. ClaimsInv' /\ \A v \in Workers : worker'[v] = IF v = w THEN s ELSE worker[v]
  <2>1. UNCHANGED claims /\ (w \in LiveCalls \/ (worker[w].stage \notin ClaimStages /\ s.stage \notin ClaimStages))
    BY <1>1
  <2>2. w \notin Drains \/ (worker[w].stage # "idle" /\ s.stage # "idle")
    BY <1>3
  <2>. QED
    BY <1>2, <1>5, <1>6, <2>1, <2>2, UnclaimedKeepsClaims
<1>8. MarkedWereTold' /\ NothingLost'
  BY <1>1, <1>2, <1>4, <1>7, KeptStep DEF QueueInv
<1>. QED
  BY <1>1, <1>7, <1>8 DEF QueueInv, FileTypes

(* The file of the live call's entry is there, or the call goes on without. *)
LEMMA EnqueueKeepsInv ==
  ASSUME DeliveryQueueAssumption, QueueInv, NEW w \in Workers, EnqueueDelivery(w)
  PROVE  QueueInv'
<1>. DEFINE e == worker[w].entry
<1>1. worker[w].stage = "enqueueing" /\ UNCHANGED <<marker, failed, claims, crashes, sentThisLife, failures>>
  BY DEF EnqueueDelivery, At
<1>2. WorkersOK /\ ClaimsInv /\ w \in LiveCalls /\ e \in Entries /\ FileTypes
  BY <1>1 DEF QueueInv, ClaimsInv, WorkersOK, WorkerOK, ActingStages
<1>3. CASE json' = [json EXCEPT ![e] = 0] /\ Happens(e, "persisted") /\ Goes(w, "sending")
  <2>1. /\ ClaimsInv' /\ \A v \in Workers : v # w => worker'[v] = worker[v]
        /\ worker'[w].stage = "sending"
    BY <1>1, <1>2, <1>3, GoesKeepsClaims DEF Stages, LiveStages, ActingStages
  <2>2. did' \in [Entries -> SUBSET Events] /\ \A f \in Entries : did'[f] = IF f = e THEN did[e] \cup {"persisted"} ELSE did[f]
    BY <1>2, <1>3, HappensFacts DEF Events
  <2>3. json' \in [Entries -> Counts] /\ \A f \in Entries : json'[f] = IF f = e THEN 0 ELSE json[f]
    BY <1>2, <1>3 DEF FileTypes, Counts, DeliveryQueueAssumption
  <2>4. MarkedWereTold' /\ NothingLost'
    BY <1>1, <1>2, <2>1, <2>2, <2>3, KeptStep DEF QueueInv, Absent
  <2>5. FileTypes'
    BY <1>1, <1>2, <2>2, <2>3 DEF FileTypes, Counts, AttemptsCap
  <2>. QED
    BY <2>1, <2>4, <2>5 DEF QueueInv
<1>4. CASE Goes(w, "sendingUnqueued") /\ UNCHANGED <<json, did>>
  <2>1. /\ ClaimsInv' /\ \A v \in Workers : v # w => worker'[v] = worker[v]
        /\ worker'[w].stage = "sendingUnqueued"
    BY <1>1, <1>2, <1>4, GoesKeepsClaims DEF Stages, LiveStages, ActingStages
  <2>2. MarkedWereTold' /\ NothingLost'
    BY <1>1, <1>2, <1>4, <2>1, KeptStep DEF QueueInv
  <2>. QED
    BY <1>1, <1>2, <1>4, <2>1, <2>2 DEF QueueInv, FileTypes
<1>. QED
  BY <1>3, <1>4 DEF EnqueueDelivery

(* What is left to show of a step: files and events keep their types, and   *)
(* what is kept stays kept.                                                *)
LEMMA StepKeepsInv ==
  ASSUME DeliveryQueueAssumption, QueueInv, NEW w \in Workers, ClaimsInv', FileTypes',
         \A v \in Workers : v # w => worker'[v] = worker[v],
         failed \subseteq failed',
         \A e \in Entries : did[e] \subseteq did'[e],
         \/ worker'[w].stage # "marking"
         \/ worker'[w].entry \in BestEffort
         \/ did'[worker'[w].entry] \cap {"sent", "aborted"} # {},
         \A e \in Entries \ BestEffort :
           json'[e] = Absent => json[e] = Absent \/ e \in failed' \/ did'[e] \cap {"sent", "aborted"} # {},
         \A e \in Entries : "persisted" \in did'[e] => "persisted" \in did[e]
  PROVE  QueueInv'
<1>1. WorkersOK /\ MarkedWereTold /\ NothingLost
  BY DEF QueueInv, ClaimsInv
<1>2. \A v \in Workers : worker'[v].stage = "marking" /\ worker'[v].entry \notin BestEffort =>
        \/ worker[v].stage = "marking" /\ worker'[v].entry = worker[v].entry
        \/ did'[worker'[v].entry] \cap {"sent", "aborted"} # {}
  <2>1. ASSUME NEW v \in Workers, worker'[v].stage = "marking", worker'[v].entry \notin BestEffort
        PROVE  \/ worker[v].stage = "marking" /\ worker'[v].entry = worker[v].entry
               \/ did'[worker'[v].entry] \cap {"sent", "aborted"} # {}
    BY <2>1
  <2>. QED
    BY <2>1
<1>3. \A e \in Entries : "persisted" \in did'[e] \ did[e] => json'[e] # Absent
  OBVIOUS
<1>4. MarkedWereTold' /\ NothingLost'
  BY <1>1, <1>2, <1>3, KeptStep
<1>. QED
  BY <1>4 DEF QueueInv

(* A step that leaves the files and the events alone. *)
LEMMA QuietStepKeepsInv ==
  ASSUME DeliveryQueueAssumption, QueueInv, NEW w \in Workers, ClaimsInv',
         \A v \in Workers : v # w => worker'[v] = worker[v],
         worker'[w].stage # "marking",
         UNCHANGED <<json, failed, crashes, did>>,
         marker' \subseteq Entries,
         sentThisLife' \in [Entries -> 0..2], failures' \in [Entries -> 0..AttemptsCap]
  PROVE  QueueInv'
<1>1. FileTypes'
  BY DEF QueueInv, FileTypes, AttemptsCap
<1>. QED
  BY <1>1, StepKeepsInv

(* The facts of the worker that acts on its entry. *)
LEMMA ActingFacts ==
  ASSUME DeliveryQueueAssumption, QueueInv, NEW w \in Workers, worker[w].stage \in ActingStages
  PROVE  /\ worker[w].entry \in Entries /\ WorkerOK(w, worker[w]) /\ ClaimsInv /\ FileTypes
         /\ marker \subseteq Entries /\ sentThisLife \in [Entries -> 0..2]
         /\ failures \in [Entries -> 0..AttemptsCap]
BY DEF QueueInv, ClaimsInv, WorkersOK, WorkerOK, FileTypes

(* A send of an entry. *)
LEMMA SentFacts ==
  ASSUME FileTypes, NEW e \in Entries, Sent(e)
  PROVE  /\ sentThisLife' \in [Entries -> 0..2] /\ did' \in [Entries -> SUBSET Events]
         /\ \A f \in Entries : did'[f] = IF f = e THEN did[e] \cup {"sent"} ELSE did[f]
<1>1. sentThisLife \in [Entries -> 0..2] /\ sentThisLife[e] \in 0..2
  BY DEF FileTypes
<1>2. (IF CountReplays /\ sentThisLife[e] < 2 THEN sentThisLife[e] + 1 ELSE sentThisLife[e]) \in 0..2
  BY <1>1
<1>3. sentThisLife' \in [Entries -> 0..2]
  BY <1>1, <1>2 DEF Sent
<1>4. Happens(e, "sent") /\ "sent" \in Events
  BY DEF Sent, Events
<1>. QED
  BY <1>3, <1>4, HappensFacts

(* The send succeeds. *)
LEMMA SendSucceedsKeepsInv ==
  ASSUME DeliveryQueueAssumption, QueueInv, NEW w \in Workers, SendSucceeds(w)
  PROVE  QueueInv'
<1>. DEFINE e == worker[w].entry
<1>1. /\ worker[w].stage \in {"sending", "sendingUnqueued"} /\ Sent(e)
      /\ UNCHANGED <<json, marker, failed, crashes, failures>>
  BY DEF SendSucceeds, At, files
<1>2. worker[w].stage \in ActingStages
  BY <1>1 DEF ActingStages
<1>3. e \in Entries /\ WorkerOK(w, worker[w]) /\ ClaimsInv /\ FileTypes
  BY <1>2, ActingFacts
<1>4. /\ sentThisLife' \in [Entries -> 0..2] /\ did' \in [Entries -> SUBSET Events]
      /\ \A f \in Entries : did'[f] = IF f = e THEN did[e] \cup {"sent"} ELSE did[f]
  BY <1>1, <1>3, SentFacts
<1>5. FileTypes'
  BY <1>1, <1>3, <1>4 DEF FileTypes, AttemptsCap
<1>6. /\ ClaimsInv' /\ \A v \in Workers : v # w => worker'[v] = worker[v]
      /\ worker'[w].stage # "marking" \/ worker'[w].entry = e
  <2>1. CASE worker[w].stage = "sending"
    <3>1. Goes(w, "marking") /\ UNCHANGED claims
      BY <2>1 DEF SendSucceeds, At
    <3>. QED
      BY <1>2, <1>3, <2>1, <3>1, GoesKeepsClaims DEF Stages, LiveStages, ActingStages, ClaimStages
  <2>2. CASE worker[w].stage = "sendingUnqueued"
    <3>1. EntryDone(w)
      BY <2>2 DEF SendSucceeds, At
    <3>. QED
      BY <1>2, <1>3, <3>1, EntryDoneKeepsClaims
  <2>. QED
    BY <1>1, <2>1, <2>2
<1>7. "persisted" # "sent" /\ did'[e] \cap {"sent", "aborted"} # {}
  BY <1>3, <1>4
<1>. QED
  BY <1>1, <1>4, <1>5, <1>6, <1>7, StepKeepsInv

(* A part of a bestEffort send fails. *)
LEMMA SendPartlyKeepsInv ==
  ASSUME DeliveryQueueAssumption, QueueInv, NEW w \in Workers, NEW b \in BOOLEAN, SendPartly(w, b)
  PROVE  QueueInv'
<1>. DEFINE stage == IF b THEN "failing" ELSE "marking"
<1>1. /\ worker[w].stage = "sending" /\ worker[w].entry \in BestEffort /\ Goes(w, stage) /\ UNCHANGED claims
      /\ UNCHANGED <<json, marker, failed, crashes, did, sentThisLife, failures>>
  BY DEF SendPartly, At, files, history
<1>2. worker[w].stage \in ActingStages
  BY <1>1 DEF ActingStages
<1>3. WorkerOK(w, worker[w]) /\ ClaimsInv /\ FileTypes
  BY <1>2, ActingFacts
<1>4. stage \in Stages /\ stage \in LiveStages /\ stage \in {"failing", "marking"}
  BY DEF Stages, LiveStages
<1>. HIDE DEF stage
<1>5. /\ ClaimsInv' /\ \A v \in Workers : v # w => worker'[v] = worker[v]
      /\ worker'[w].entry = worker[w].entry
  BY <1>1, <1>2, <1>3, <1>4, GoesKeepsClaims DEF ClaimStages
<1>6. FileTypes'
  BY <1>1, <1>3 DEF FileTypes, AttemptsCap
<1>. QED
  BY <1>1, <1>5, <1>6, StepKeepsInv

(* The call is done with its entry and leaves the files and events alone. *)
LEMMA DoneQuietlyKeepsInv ==
  ASSUME DeliveryQueueAssumption, QueueInv, NEW w \in Workers, worker[w].stage \in ActingStages, EntryDone(w),
         UNCHANGED <<json, failed, crashes, did, sentThisLife, failures>>, marker' \subseteq Entries
  PROVE  QueueInv'
<1>1. ClaimsInv /\ sentThisLife \in [Entries -> 0..2] /\ failures \in [Entries -> 0..AttemptsCap]
  BY ActingFacts
<1>2. /\ ClaimsInv' /\ \A v \in Workers : v # w => worker'[v] = worker[v]
      /\ worker'[w].stage \in {"done", "next"}
  BY <1>1, EntryDoneKeepsClaims
<1>3. sentThisLife' \in [Entries -> 0..2] /\ failures' \in [Entries -> 0..AttemptsCap]
  BY <1>1 DEF AttemptsCap
<1>. QED
  BY <1>2, <1>3, QuietStepKeepsInv

(* The call goes on with its entry, other than to ack it. *)
LEMMA GoesQuietlyKeepsInv ==
  ASSUME DeliveryQueueAssumption, QueueInv, NEW w \in Workers, worker[w].stage \in ActingStages,
         NEW stage \in {"sending", "failing", "moving"}, Goes(w, stage), UNCHANGED claims,
         w \in LiveCalls => stage # "moving",
         UNCHANGED <<json, marker, failed, crashes, did>>,
         sentThisLife' \in [Entries -> 0..2], failures' \in [Entries -> 0..AttemptsCap]
  PROVE  QueueInv'
<1>1. ClaimsInv /\ WorkerOK(w, worker[w]) /\ marker \subseteq Entries
  BY ActingFacts
<1>2. stage \in Stages /\ stage \in ActingStages /\ stage \in ClaimStages /\ stage # "marking"
  BY DEF Stages, ActingStages, ClaimStages
<1>3. w \in LiveCalls => stage \in LiveStages
  BY DEF LiveStages
<1>4. w \notin LiveCalls =>
        /\ stage \notin {"idle", "enqueueing", "sendingUnqueued", "done", "dead"}
        /\ worker[w].stage \in ClaimStages <=> stage \in ClaimStages
        /\ worker[w].stage # "idle" \/ w \in Recoveries
  BY <1>1, <1>2 DEF WorkerOK, ActingStages, ClaimStages
<1>5. /\ ClaimsInv' /\ \A v \in Workers : v # w => worker'[v] = worker[v]
      /\ worker'[w].stage = stage
  BY <1>1, <1>2, <1>3, <1>4, GoesKeepsClaims
<1>. QED
  BY <1>1, <1>2, <1>5, QuietStepKeepsInv

(* The live send throws. *)
LEMMA LiveSendThrowsKeepsInv ==
  ASSUME DeliveryQueueAssumption, QueueInv, NEW w \in Workers, NEW b \in BOOLEAN, LiveSendThrows(w, b)
  PROVE  QueueInv'
<1>. DEFINE e == worker[w].entry
            stage == IF b THEN "marking" ELSE "failing"
<1>1. /\ w \in LiveCalls /\ worker[w].stage \in {"sending", "sendingUnqueued"}
      /\ UNCHANGED <<json, marker, failed, crashes, sentThisLife, failures>>
      /\ IF b THEN Happens(e, "aborted") ELSE UNCHANGED did
  BY DEF LiveSendThrows, At, files
<1>2. worker[w].stage \in ActingStages
  BY <1>1 DEF ActingStages
<1>3. e \in Entries /\ WorkerOK(w, worker[w]) /\ ClaimsInv /\ FileTypes
  BY <1>2, ActingFacts
<1>4. /\ did' \in [Entries -> SUBSET Events]
      /\ \A f \in Entries : did[f] \subseteq did'[f] /\ ("persisted" \in did'[f] => "persisted" \in did[f])
      /\ b => did'[e] \cap {"sent", "aborted"} # {}
  <2>1. CASE b
    <3>1. Happens(e, "aborted") /\ "aborted" \in Events
      BY <1>1, <2>1 DEF Events
    <3>2. /\ did' \in [Entries -> SUBSET Events]
          /\ \A f \in Entries : did'[f] = IF f = e THEN did[e] \cup {"aborted"} ELSE did[f]
      BY <1>3, <3>1, HappensFacts
    <3>3. \A f \in Entries : did[f] \subseteq did'[f] /\ ("persisted" \in did'[f] => "persisted" \in did[f])
      BY <1>3, <3>2
    <3>4. did'[e] \cap {"sent", "aborted"} # {}
      BY <1>3, <3>2
    <3>. QED
      BY <3>2, <3>3, <3>4
  <2>2. CASE ~b
    BY <1>1, <1>3, <2>2 DEF FileTypes
  <2>. QED
    BY <2>1, <2>2
<1>5. FileTypes'
  BY <1>1, <1>3, <1>4 DEF FileTypes, AttemptsCap
<1>6. /\ ClaimsInv' /\ \A v \in Workers : v # w => worker'[v] = worker[v]
      /\ worker'[w].stage = "marking" => b /\ worker'[w].entry = e
  <2>1. CASE worker[w].stage = "sending"
    <3>1. Goes(w, stage) /\ UNCHANGED claims
      BY <2>1 DEF LiveSendThrows, At
    <3>2. stage \in Stages /\ stage \in LiveStages /\ stage # "deferring" /\ (stage = "marking" => b)
      BY DEF Stages, LiveStages
    <3>. HIDE DEF stage
    <3>. QED
      BY <1>1, <1>2, <1>3, <3>1, <3>2, GoesKeepsClaims
  <2>2. CASE worker[w].stage = "sendingUnqueued"
    <3>1. EntryDone(w)
      BY <2>2 DEF LiveSendThrows, At
    <3>. QED
      BY <1>2, <1>3, <3>1, EntryDoneKeepsClaims
  <2>. QED
    BY <1>1, <2>1, <2>2
<1>7. worker'[w].stage # "marking" \/ did'[worker'[w].entry] \cap {"sent", "aborted"} # {}
  BY <1>4, <1>6
<1>. QED
  BY <1>1, <1>4, <1>5, <1>6, <1>7, StepKeepsInv

(* The replay throws. *)
LEMMA ReplayThrowsKeepsInv ==
  ASSUME DeliveryQueueAssumption, QueueInv, NEW w \in Workers, NEW b \in BOOLEAN, ReplayThrows(w, b)
  PROVE  QueueInv'
<1>. DEFINE e == worker[w].entry
            stage == IF b THEN "moving" ELSE "failing"
<1>1. /\ w \notin LiveCalls /\ worker[w].stage = "sending" /\ Goes(w, stage) /\ UNCHANGED claims
      /\ UNCHANGED <<json, marker, failed, crashes, did, sentThisLife>>
      /\ failures' = [failures EXCEPT ![e] = IF CountReplays /\ failures[e] < AttemptsCap THEN failures[e] + 1 ELSE failures[e]]
  BY DEF ReplayThrows, At, files
<1>2. worker[w].stage \in ActingStages
  BY <1>1 DEF ActingStages
<1>3. e \in Entries /\ sentThisLife \in [Entries -> 0..2] /\ failures \in [Entries -> 0..AttemptsCap]
  BY <1>2, ActingFacts
<1>4. failures' \in [Entries -> 0..AttemptsCap]
  <2>1. AttemptsCap \in Nat
    BY DEF AttemptsCap, DeliveryQueueAssumption
  <2>2. (IF CountReplays /\ failures[e] < AttemptsCap THEN failures[e] + 1 ELSE failures[e]) \in 0..AttemptsCap
    <3>1. failures[e] \in 0..AttemptsCap
      BY <1>3
    <3>2. failures[e] < AttemptsCap => failures[e] + 1 \in 0..AttemptsCap
      BY <2>1, <3>1
    <3>. QED
      BY <3>1, <3>2, Zenon
  <2>. QED
    BY <1>1, <1>3, <2>2
<1>5. stage \in {"sending", "failing", "moving"}
  OBVIOUS
<1>. HIDE DEF stage
<1>. QED
  BY <1>1, <1>2, <1>3, <1>4, <1>5, GoesQuietlyKeepsInv

(* A file is renamed to its marker. *)
LEMMA AckRenamesKeepsInv ==
  ASSUME DeliveryQueueAssumption, QueueInv, NEW w \in Workers, AckRenames(w)
  PROVE  QueueInv'
<1>. DEFINE e == worker[w].entry
<1>1. /\ worker[w].stage = "marking" /\ Goes(w, "unmarking") /\ UNCHANGED claims
      /\ UNCHANGED <<failed, crashes, sentThisLife, failures>>
      /\ \/ /\ json' = [json EXCEPT ![e] = Absent] /\ marker' = marker \cup {e}
            /\ Happens(e, "acked")
         \/ UNCHANGED <<json, marker, did>>
  BY DEF AckRenames, At
<1>2. worker[w].stage \in ActingStages
  BY <1>1 DEF ActingStages
<1>3. /\ e \in Entries /\ WorkerOK(w, worker[w]) /\ ClaimsInv /\ FileTypes
      /\ json \in [Entries -> Counts] /\ did \in [Entries -> SUBSET Events] /\ Absent \in Counts
  BY <1>2, ActingFacts DEF FileTypes, Counts
<1>4. e \notin BestEffort => did[e] \cap {"sent", "aborted"} # {}
  BY <1>1 DEF QueueInv, MarkedWereTold, Told
<1>5. /\ ClaimsInv' /\ \A v \in Workers : v # w => worker'[v] = worker[v]
      /\ worker'[w].stage = "unmarking"
  BY <1>1, <1>2, <1>3, GoesKeepsClaims DEF Stages, LiveStages, ActingStages, ClaimStages
<1>6. CASE /\ json' = [json EXCEPT ![e] = Absent] /\ marker' = marker \cup {e}
           /\ Happens(e, "acked")
  <2>1. "acked" \in Events
    BY DEF Events
  <2>2. did' \in [Entries -> SUBSET Events] /\ \A f \in Entries : did'[f] = IF f = e THEN did[e] \cup {"acked"} ELSE did[f]
    BY <1>3, <1>6, <2>1, HappensFacts
  <2>3. json' \in [Entries -> Counts] /\ \A f \in Entries : json'[f] = IF f = e THEN Absent ELSE json[f]
    BY <1>3, <1>6
  <2>4. FileTypes'
    BY <1>1, <1>3, <1>6, <2>2, <2>3 DEF FileTypes, Counts, AttemptsCap
  <2>5. \A f \in Entries : did[f] \subseteq did'[f] /\ ("persisted" \in did'[f] => "persisted" \in did[f])
    BY <1>3, <2>2
  <2>6. \A f \in Entries \ BestEffort :
          json'[f] = Absent => json[f] = Absent \/ f \in failed' \/ did'[f] \cap {"sent", "aborted"} # {}
    BY <1>3, <1>4, <2>2, <2>3
  <2>. QED
    BY <1>1, <1>5, <2>4, <2>5, <2>6, StepKeepsInv
<1>7. CASE UNCHANGED <<json, marker, did>>
  <2>1. FileTypes'
    BY <1>1, <1>3, <1>7 DEF FileTypes, AttemptsCap
  <2>. QED
    BY <1>1, <1>5, <1>7, <2>1, StepKeepsInv
<1>. QED
  BY <1>1, <1>6, <1>7

(* The rename fails. *)
LEMMA AckFailsKeepsInv ==
  ASSUME DeliveryQueueAssumption, QueueInv, NEW w \in Workers, AckFails(w)
  PROVE  QueueInv'
<1>1. /\ worker[w].stage = "marking" /\ UNCHANGED <<json, marker, failed, crashes, did, sentThisLife, failures>>
      /\ EntryDone(w) \/ (w \notin LiveCalls /\ Goes(w, "failing") /\ UNCHANGED claims)
  BY DEF AckFails, At, files, history
<1>2. worker[w].stage \in ActingStages
  BY <1>1 DEF ActingStages
<1>3. marker \subseteq Entries /\ sentThisLife \in [Entries -> 0..2] /\ failures \in [Entries -> 0..AttemptsCap]
  BY <1>2, ActingFacts
<1>4. CASE EntryDone(w)
  BY <1>1, <1>2, <1>3, <1>4, DoneQuietlyKeepsInv
<1>5. CASE w \notin LiveCalls /\ Goes(w, "failing") /\ UNCHANGED claims
  <2>1. sentThisLife' \in [Entries -> 0..2] /\ failures' \in [Entries -> 0..AttemptsCap]
    BY <1>1, <1>3 DEF AttemptsCap
  <2>2. "failing" \in {"sending", "failing", "moving"}
    OBVIOUS
  <2>. QED
    BY <1>1, <1>2, <1>5, <2>1, <2>2, GoesQuietlyKeepsInv
<1>. QED
  BY <1>1, <1>4, <1>5

(* The marker is removed. *)
LEMMA AckUnlinksKeepsInv ==
  ASSUME DeliveryQueueAssumption, QueueInv, NEW w \in Workers, AckUnlinks(w)
  PROVE  QueueInv'
<1>1. /\ worker[w].stage = "unmarking" /\ UNCHANGED <<json, failed, crashes, did, sentThisLife, failures>>
      /\ EntryDone(w) /\ marker' \subseteq marker
  BY DEF AckUnlinks, At, history
<1>2. worker[w].stage \in ActingStages
  BY <1>1 DEF ActingStages
<1>3. marker' \subseteq Entries
  BY <1>1, <1>2, ActingFacts
<1>. QED
  BY <1>1, <1>2, <1>3, DoneQuietlyKeepsInv

(* A worker keeps its stage and entry and changes the rest of its state. *)
LEMMA SameStageKeepsInv ==
  ASSUME DeliveryQueueAssumption, QueueInv, NEW w \in Workers, NEW s, s \in WorkerStates,
         s.stage = worker[w].stage, s.entry = worker[w].entry, s.stage # "marking",
         worker' = [worker EXCEPT ![w] = s], UNCHANGED claims,
         UNCHANGED <<marker, failed, crashes, did, sentThisLife, failures>>,
         json' \in [Entries -> Counts], \A e \in Entries : json'[e] # Absent \/ json[e] = Absent
  PROVE  QueueInv'
<1>1. /\ WorkersOK /\ EntryClaims /\ DrainClaims /\ WorkerOK(w, worker[w]) /\ FileTypes
      /\ entriesInProgress' = entriesInProgress /\ drainInProgress' = drainInProgress
  BY DEF QueueInv, ClaimsInv, WorkersOK, claims
<1>2. WorkerOK(w, s)
  BY <1>1 DEF WorkerOK
<1>3. EntryClaims'
  <2>1. (worker[w].stage \in ClaimStages <=> s.stage \in ClaimStages) /\ s.entry = worker[w].entry
    OBVIOUS
  <2>. QED
    BY <1>1, <1>2, <2>1, EntryClaimsMove
<1>4. DrainClaims'
  <2>1. worker[w].stage = "idle" <=> s.stage = "idle"
    OBVIOUS
  <2>. QED
    BY <1>1, <1>2, <2>1, DrainClaimsMove
<1>5. WorkersOK' /\ \A v \in Workers : worker'[v] = IF v = w THEN s ELSE worker[v]
  <2>1. worker \in [Workers -> WorkerStates] /\ \A v \in Workers : WorkerOK(v, worker[v])
    BY <1>1 DEF WorkersOK
  <2>2. \A v \in Workers : worker'[v] = IF v = w THEN s ELSE worker[v]
    BY <2>1
  <2>3. worker' \in [Workers -> WorkerStates]
    BY <2>1
  <2>4. \A v \in Workers : WorkerOK(v, worker'[v])
    BY <1>2, <2>1, <2>2
  <2>. QED
    BY <2>2, <2>3, <2>4 DEF WorkersOK, WorkerOK
<1>6. ClaimsInv'
  BY <1>3, <1>4, <1>5 DEF ClaimsInv
<1>7. FileTypes'
  BY <1>1 DEF FileTypes, AttemptsCap
<1>. QED
  BY <1>5, <1>6, <1>7, StepKeepsInv

(* What a call has read of a file is a count. *)
LEMMA ReadFacts ==
  ASSUME DeliveryQueueAssumption, QueueInv, NEW w \in Workers
  PROVE  /\ worker[w] \in WorkerStates /\ worker[w].read \in [Entries -> Counts]
         /\ json \in [Entries -> Counts] /\ Absent \in Counts /\ worker \in [Workers -> WorkerStates]
         /\ worker[w].todo \subseteq Entries
         /\ \A n \in Counts : n # Absent => Bumped(n) \in Counts /\ Bumped(n) # Absent
<1>1. worker[w] \in WorkerStates /\ worker \in [Workers -> WorkerStates] /\ json \in [Entries -> Counts] /\ Absent \in Counts
  BY DEF QueueInv, ClaimsInv, WorkersOK, FileTypes, Counts
<1>2. worker[w].read \in [Entries -> Counts] /\ worker[w].todo \subseteq Entries
  BY <1>1 DEF WorkerStates, Counts
<1>3. \A n \in Counts : n # Absent => Bumped(n) \in Counts /\ Bumped(n) # Absent
  BY DEF Counts, Absent, Bumped, DeliveryQueueAssumption
<1>. QED
  BY <1>1, <1>2, <1>3

(* failDelivery reads. *)
LEMMA FailReadsKeepsInv ==
  ASSUME DeliveryQueueAssumption, QueueInv, NEW w \in Workers, FailReads(w)
  PROVE  QueueInv'
<1>. DEFINE e == worker[w].entry
            r == [worker[w].read EXCEPT ![e] = json[e]]
            s == [worker[w] EXCEPT !.read = r]
<1>1. /\ worker[w].stage = "failing" /\ UNCHANGED <<json, marker, failed, crashes, did, sentThisLife, failures>>
      /\ \/ worker' = [worker EXCEPT ![w].read[e] = json[e]] /\ UNCHANGED claims
         \/ EntryDone(w)
  BY DEF FailReads, At, files, history
<1>2. worker[w].stage \in ActingStages
  BY <1>1 DEF ActingStages
<1>3. e \in Entries /\ marker \subseteq Entries
  BY <1>2, ActingFacts
<1>4. CASE EntryDone(w)
  BY <1>1, <1>2, <1>3, <1>4, DoneQuietlyKeepsInv
<1>5. CASE worker' = [worker EXCEPT ![w].read[e] = json[e]] /\ UNCHANGED claims
  <2>1. /\ worker[w] \in WorkerStates /\ worker[w].read \in [Entries -> Counts]
        /\ json \in [Entries -> Counts] /\ worker \in [Workers -> WorkerStates]
    BY ReadFacts
  <2>2. r \in [Entries -> {Absent} \cup 0..MaxRetries]
    BY <1>3, <2>1 DEF Counts
  <2>3. s \in WorkerStates /\ s.stage = worker[w].stage /\ s.entry = e
    BY <2>1, <2>2 DEF WorkerStates
  <2>4. worker' = [worker EXCEPT ![w] = s]
    BY <1>5, <2>1 DEF WorkerStates
  <2>5. \A f \in Entries : json'[f] # Absent \/ json[f] = Absent
    BY <1>1
  <2>6. json' \in [Entries -> Counts] /\ s.stage # "marking"
    BY <1>1, <2>1, <2>3
  <2>. HIDE DEF s
  <2>. QED
    BY <1>1, <1>5, <2>3, <2>4, <2>5, <2>6, SameStageKeepsInv
<1>. QED
  BY <1>1, <1>4, <1>5

(* failDelivery writes. *)
LEMMA FailWritesKeepsInv ==
  ASSUME DeliveryQueueAssumption, QueueInv, NEW w \in Workers, FailWrites(w)
  PROVE  QueueInv'
<1>. DEFINE e == worker[w].entry
            n == Bumped(worker[w].read[e])
<1>1. /\ worker[w].stage = "failing" /\ UNCHANGED <<marker, failed, crashes, did, sentThisLife, failures>>
      /\ worker[w].read[e] # Absent /\ EntryDone(w)
      /\ json' = [json EXCEPT ![e] = n] \/ UNCHANGED json
  BY DEF FailWrites, At, history
<1>2. worker[w].stage \in ActingStages
  BY <1>1 DEF ActingStages
<1>3. e \in Entries /\ FileTypes /\ ClaimsInv
  BY <1>2, ActingFacts
<1>4. json \in [Entries -> Counts] /\ n \in Counts /\ n # Absent
  <2>1. worker[w].read[e] \in Counts
    BY <1>3, ReadFacts
  <2>. QED
    BY <1>1, <2>1, ReadFacts
<1>. HIDE DEF n
<1>5. /\ json' \in [Entries -> Counts]
      /\ \A f \in Entries \ BestEffort :
           json'[f] = Absent => json[f] = Absent \/ f \in failed' \/ did'[f] \cap {"sent", "aborted"} # {}
  <2>1. CASE json' = [json EXCEPT ![e] = n]
    BY <1>3, <1>4, <2>1
  <2>2. CASE UNCHANGED json
    BY <1>4, <2>2
  <2>. QED
    BY <1>1, <2>1, <2>2
<1>6. FileTypes'
  BY <1>1, <1>3, <1>5 DEF FileTypes, AttemptsCap, Counts
<1>7. /\ ClaimsInv' /\ \A v \in Workers : v # w => worker'[v] = worker[v]
      /\ worker'[w].stage # "marking"
  BY <1>1, <1>2, <1>3, EntryDoneKeepsClaims
<1>. QED
  BY <1>1, <1>5, <1>6, <1>7, StepKeepsInv

(* A file is moved to failed/. *)
LEMMA MoveToFailedKeepsInv ==
  ASSUME DeliveryQueueAssumption, QueueInv, NEW w \in Workers, MoveToFailed(w)
  PROVE  QueueInv'
<1>. DEFINE e == worker[w].entry
<1>1. /\ worker[w].stage = "moving" /\ UNCHANGED <<marker, crashes, did, sentThisLife, failures>>
      /\ EntryDone(w)
      /\ \/ json' = [json EXCEPT ![e] = Absent] /\ failed' = failed \cup {e}
         \/ UNCHANGED <<json, failed>>
  BY DEF MoveToFailed, At, history
<1>2. worker[w].stage \in ActingStages
  BY <1>1 DEF ActingStages
<1>3. e \in Entries /\ FileTypes /\ ClaimsInv /\ failed \subseteq Entries
  BY <1>2, ActingFacts DEF FileTypes
<1>4. json \in [Entries -> Counts] /\ Absent \in Counts
  BY ReadFacts
<1>5. /\ json' \in [Entries -> Counts] /\ failed' \subseteq Entries /\ failed \subseteq failed'
      /\ \A f \in Entries \ BestEffort :
           json'[f] = Absent => json[f] = Absent \/ f \in failed' \/ did'[f] \cap {"sent", "aborted"} # {}
  <2>1. CASE json' = [json EXCEPT ![e] = Absent] /\ failed' = failed \cup {e}
    BY <1>3, <1>4, <2>1
  <2>2. CASE UNCHANGED <<json, failed>>
    BY <1>3, <1>4, <2>2
  <2>. QED
    BY <1>1, <2>1, <2>2
<1>6. FileTypes'
  BY <1>1, <1>3, <1>5 DEF FileTypes, AttemptsCap, Counts
<1>7. /\ ClaimsInv' /\ \A v \in Workers : v # w => worker'[v] = worker[v]
      /\ worker'[w].stage # "marking"
  BY <1>1, <1>2, <1>3, EntryDoneKeepsClaims
<1>. QED
  BY <1>1, <1>5, <1>6, <1>7, StepKeepsInv

(* A recovery or drain ends and leaves the files and events alone. *)
LEMMA EndsQuietlyKeepsInv ==
  ASSUME DeliveryQueueAssumption, QueueInv, NEW w \in Others, CallEnds(w),
         worker[w].stage \in ClaimStages \cup {"next"},
         UNCHANGED <<json, marker, failed, crashes, did, sentThisLife, failures>>
  PROVE  QueueInv'
<1>1. /\ ClaimsInv /\ w \in Workers /\ marker \subseteq Entries /\ sentThisLife \in [Entries -> 0..2]
      /\ failures \in [Entries -> 0..AttemptsCap]
  BY DEF QueueInv, FileTypes, Others
<1>2. /\ ClaimsInv' /\ \A v \in Workers : v # w => worker'[v] = worker[v]
      /\ worker'[w].stage = "idle"
  BY <1>1, CallEndsKeepsClaims
<1>3. sentThisLife' \in [Entries -> 0..2] /\ failures' \in [Entries -> 0..AttemptsCap]
  BY <1>1 DEF AttemptsCap
<1>. QED
  BY <1>1, <1>2, <1>3, QuietStepKeepsInv

(* moveToFailed fails. *)
LEMMA MoveFailsKeepsInv ==
  ASSUME DeliveryQueueAssumption, QueueInv, NEW w \in Workers, MoveFails(w)
  PROVE  QueueInv'
<1>1. /\ worker[w].stage = "moving" /\ UNCHANGED <<json, marker, failed, crashes, did, sentThisLife, failures>>
      /\ EntryDone(w) \/ (w \in Drains /\ CallEnds(w))
  BY DEF MoveFails, At, files, history
<1>2. worker[w].stage \in ActingStages /\ worker[w].stage \in ClaimStages \cup {"next"}
  BY <1>1 DEF ActingStages, ClaimStages
<1>3. marker' \subseteq Entries
  BY <1>1, <1>2, ActingFacts
<1>4. CASE EntryDone(w)
  BY <1>1, <1>2, <1>3, <1>4, DoneQuietlyKeepsInv
<1>5. CASE w \in Drains /\ CallEnds(w)
  <2>1. w \in Others
    BY <1>5, WorkerKinds
  <2>. QED
    BY <1>1, <1>2, <1>5, <2>1, EndsQuietlyKeepsInv
<1>. QED
  BY <1>1, <1>4, <1>5

-----------------------------------------------------------------------------
(* A recovery starts. *)
LEMMA RecoveryStartsKeepsInv ==
  ASSUME DeliveryQueueAssumption, QueueInv, NEW w \in Workers, RecoveryStarts(w)
  PROVE  QueueInv'
<1>1. /\ w \in Recoveries /\ worker[w].stage = "idle" /\ Goes(w, "loading") /\ UNCHANGED claims
      /\ UNCHANGED <<json, marker, failed, crashes, did, sentThisLife, failures>>
  BY DEF RecoveryStarts, At, files, history
<1>2. /\ ClaimsInv /\ marker \subseteq Entries /\ sentThisLife \in [Entries -> 0..2]
      /\ failures \in [Entries -> 0..AttemptsCap] /\ w \notin LiveCalls
  BY <1>1, WorkerKinds DEF QueueInv, FileTypes
<1>3. "loading" \in Stages /\ "loading" \notin ActingStages /\ "loading" \notin ClaimStages /\ "idle" \notin ClaimStages
  BY DEF Stages, ActingStages, ClaimStages
<1>4. /\ ClaimsInv' /\ \A v \in Workers : v # w => worker'[v] = worker[v]
      /\ worker'[w].stage = "loading"
  BY <1>1, <1>2, <1>3, GoesKeepsClaims
<1>5. sentThisLife' \in [Entries -> 0..2] /\ failures' \in [Entries -> 0..AttemptsCap]
  BY <1>1, <1>2 DEF AttemptsCap
<1>. QED
  BY <1>1, <1>2, <1>4, <1>5, QuietStepKeepsInv

(* A drain takes its key. *)
LEMMA DrainStartsKeepsInv ==
  ASSUME DeliveryQueueAssumption, QueueInv, NEW w \in Workers, DrainStarts(w)
  PROVE  QueueInv'
<1>. DEFINE s == [worker[w] EXCEPT !.stage = "loading"]
<1>1. /\ w \in Drains /\ worker[w].stage = "idle" /\ KeyOf[w] \notin drainInProgress
      /\ worker' = [worker EXCEPT ![w] = s]
      /\ drainInProgress' = drainInProgress \cup {KeyOf[w]} /\ entriesInProgress' = entriesInProgress
      /\ UNCHANGED <<json, marker, failed, crashes, did, sentThisLife, failures>>
  BY DEF DrainStarts, At, Goes, files, history
<1>2. /\ WorkersOK /\ EntryClaims /\ DrainClaims /\ marker \subseteq Entries /\ sentThisLife \in [Entries -> 0..2]
      /\ failures \in [Entries -> 0..AttemptsCap] /\ w \notin LiveCalls
  BY <1>1, WorkerKinds DEF QueueInv, ClaimsInv, FileTypes
<1>3. s \in WorkerStates /\ s.stage = "loading"
  BY ReadFacts DEF WorkerStates, Stages
<1>. HIDE DEF s
<1>4. "loading" \notin ActingStages /\ s.stage \notin ClaimStages /\ worker[w].stage \notin ClaimStages
  BY <1>1, <1>3 DEF ActingStages, ClaimStages
<1>5. WorkerOK(w, s)
  BY <1>2, <1>3, <1>4 DEF WorkerOK
<1>6. EntryClaims'
  <2>1. (worker[w].stage \in ClaimStages <=> s.stage \in ClaimStages) /\ (s.stage \in ClaimStages => s.entry = worker[w].entry)
    BY <1>4
  <2>. QED
    BY <1>1, <1>2, <1>5, <2>1, EntryClaimsMove
<1>7. DrainClaims'
  <2>1. s.stage # "idle"
    BY <1>3
  <2>. QED
    BY <1>1, <1>2, <1>5, <2>1, DrainClaimsMove
<1>8. WorkersOK' /\ \A v \in Workers : worker'[v] = IF v = w THEN s ELSE worker[v]
  <2>1. WorkersOK
    BY <1>2
  <2>2. worker' = [worker EXCEPT ![w] = s]
    BY <1>1
  <2>3. WorkersOK'
    BY <1>5, <2>1, <2>2, WorkerMoves
  <2>4. \A v \in Workers : worker'[v] = IF v = w THEN s ELSE worker[v]
    BY <1>5, <2>1, <2>2, WorkerMoves
  <2>. QED
    BY <2>3, <2>4
<1>9. ClaimsInv' /\ worker'[w].stage # "marking"
  BY <1>3, <1>6, <1>7, <1>8 DEF ClaimsInv
<1>10. sentThisLife' \in [Entries -> 0..2] /\ failures' \in [Entries -> 0..AttemptsCap]
  BY <1>1, <1>2 DEF AttemptsCap
<1>. QED
  BY <1>1, <1>2, <1>8, <1>9, <1>10, QuietStepKeepsInv

(* The snapshot is taken. *)
LEMMA LoadPendingDeliveriesKeepsInv ==
  ASSUME DeliveryQueueAssumption, QueueInv, NEW w \in Workers, LoadPendingDeliveries(w)
  PROVE  QueueInv'
<1>. DEFINE pending == {e \in Entries : json[e] # Absent}
            todo == IF w \in Drains THEN pending \cap Matching[w] ELSE pending
            s == [worker[w] EXCEPT !.stage = "next", !.todo = todo]
<1>1. /\ worker[w].stage = "loading" /\ UNCHANGED claims /\ marker' = {}
      /\ UNCHANGED <<json, failed, crashes, did, sentThisLife, failures>>
  BY DEF LoadPendingDeliveries, At, history
<1>2. /\ ClaimsInv /\ WorkerOK(w, worker[w]) /\ sentThisLife \in [Entries -> 0..2]
      /\ failures \in [Entries -> 0..AttemptsCap]
  BY DEF QueueInv, ClaimsInv, WorkersOK, FileTypes
<1>3. worker[w] \in WorkerStates /\ worker \in [Workers -> WorkerStates]
  BY ReadFacts
<1>4. todo \subseteq Entries
  OBVIOUS
<1>5. s \in WorkerStates /\ s.stage = "next"
  BY <1>3, <1>4 DEF WorkerStates, Stages
<1>6. worker' = [worker EXCEPT ![w] = s]
  BY <1>3 DEF LoadPendingDeliveries, WorkerStates
<1>. HIDE DEF s
<1>7. "next" \notin ActingStages /\ s.stage \notin ClaimStages /\ worker[w].stage \notin ClaimStages /\ w \notin LiveCalls
  BY <1>1, <1>2, <1>5 DEF ActingStages, ClaimStages, WorkerOK, LiveStages
<1>8. WorkerOK(w, s)
  BY <1>5, <1>7 DEF WorkerOK
<1>9. worker[w].stage # "idle" /\ s.stage # "idle" /\ s.stage # "marking"
  BY <1>1, <1>5
<1>10. ClaimsInv' /\ \A v \in Workers : worker'[v] = IF v = w THEN s ELSE worker[v]
  <2>1. UNCHANGED claims /\ ClaimsInv
    BY <1>1, <1>2
  <2>2. ClaimsInv'
    BY <1>6, <1>7, <1>8, <1>9, <2>1, UnclaimedKeepsClaims
  <2>3. \A v \in Workers : worker'[v] = IF v = w THEN s ELSE worker[v]
    BY <1>6, <1>7, <1>8, <1>9, <2>1, UnclaimedKeepsClaims
  <2>. QED
    BY <2>2, <2>3
<1>11. sentThisLife' \in [Entries -> 0..2] /\ failures' \in [Entries -> 0..AttemptsCap]
  BY <1>1, <1>2 DEF AttemptsCap
<1>. QED
  BY <1>1, <1>9, <1>10, <1>11, QuietStepKeepsInv

(* The next entry is claimed, or passed over. *)
LEMMA ClaimRecoveryEntryKeepsInv ==
  ASSUME DeliveryQueueAssumption, QueueInv, NEW w \in Workers, ClaimRecoveryEntry(w)
  PROVE  QueueInv'
<1>. DEFINE e == First(worker[w].todo)
            free == e \notin entriesInProgress
            stage == IF free THEN "claimed" ELSE "next"
            entry == IF free THEN e ELSE NoEntry
            todo == worker[w].todo \ {e}
            s == [worker[w] EXCEPT !.todo = todo, !.stage = stage, !.entry = entry]
<1>1. /\ worker[w].stage = "next" /\ worker[w].todo # {}
      /\ entriesInProgress' = entriesInProgress \cup {e} /\ drainInProgress' = drainInProgress
      /\ UNCHANGED <<json, marker, failed, crashes, did, sentThisLife, failures>>
  BY DEF ClaimRecoveryEntry, At, files, history
<1>2. /\ WorkersOK /\ EntryClaims /\ DrainClaims /\ ClaimsInv /\ WorkerOK(w, worker[w]) /\ marker \subseteq Entries
      /\ sentThisLife \in [Entries -> 0..2] /\ failures \in [Entries -> 0..AttemptsCap]
  BY DEF QueueInv, ClaimsInv, WorkersOK, FileTypes
<1>3. worker[w] \in WorkerStates /\ worker \in [Workers -> WorkerStates] /\ worker[w].todo \subseteq Entries
  BY ReadFacts
<1>4. e \in Entries /\ entry \in Entries \cup {NoEntry} /\ todo \subseteq Entries /\ stage \in {"claimed", "next"}
  BY <1>1, <1>3, FirstFacts
<1>5. worker' = [worker EXCEPT ![w] = s]
  BY <1>3 DEF ClaimRecoveryEntry, WorkerStates
<1>6. s \in WorkerStates /\ s.stage = stage /\ s.entry = entry
  BY <1>3, <1>4 DEF WorkerStates, Stages
<1>7. stage = "claimed" => entry = e /\ e \notin entriesInProgress
  OBVIOUS
<1>8. stage = "next" => e \in entriesInProgress
  OBVIOUS
<1>. HIDE DEF s, stage, entry, e
<1>9. w \notin LiveCalls /\ worker[w].stage \notin ClaimStages /\ worker[w].stage # "idle"
  BY <1>1, <1>2 DEF WorkerOK, LiveStages, ClaimStages
<1>10. s.stage # "idle" /\ s.stage # "marking"
  BY <1>4, <1>6
<1>11. WorkerOK(w, s)
  BY <1>4, <1>6, <1>7, <1>9 DEF WorkerOK, ActingStages
<1>12. EntryClaims'
  <2>1. CASE stage = "claimed"
    <3>1. s.stage \in ClaimStages /\ s.entry = e /\ s.entry \in Entries \ entriesInProgress
      BY <1>4, <1>6, <1>7, <2>1 DEF ClaimStages
    <3>2. entriesInProgress' = entriesInProgress \cup {s.entry}
      BY <1>1, <3>1
    <3>. QED
      BY <1>2, <1>5, <1>9, <1>11, <3>1, <3>2, EntryClaimsMove
  <2>2. CASE stage = "next"
    <3>1. s.stage \notin ClaimStages /\ entriesInProgress' = entriesInProgress
      BY <1>1, <1>6, <1>8, <2>2 DEF ClaimStages
    <3>. QED
      BY <1>2, <1>5, <1>9, <1>11, <3>1, EntryClaimsMove
  <2>. QED
    BY <1>4, <2>1, <2>2
<1>13. DrainClaims'
  BY <1>1, <1>2, <1>5, <1>9, <1>10, <1>11, DrainClaimsMove
<1>14. WorkersOK' /\ \A v \in Workers : worker'[v] = IF v = w THEN s ELSE worker[v]
  <2>1. WorkersOK
    BY <1>2
  <2>2. WorkersOK'
    BY <1>5, <1>11, <2>1, WorkerMoves
  <2>3. \A v \in Workers : worker'[v] = IF v = w THEN s ELSE worker[v]
    BY <1>5, <1>11, <2>1, WorkerMoves
  <2>. QED
    BY <2>2, <2>3
<1>15. ClaimsInv'
  BY <1>12, <1>13, <1>14 DEF ClaimsInv
<1>16. sentThisLife' \in [Entries -> 0..2] /\ failures' \in [Entries -> 0..AttemptsCap]
  BY <1>1, <1>2 DEF AttemptsCap
<1>. QED
  BY <1>1, <1>2, <1>10, <1>14, <1>15, <1>16, QuietStepKeepsInv

(* The claimed entry is gone, exhausted, backing off or sent. *)
LEMMA LoadPendingDeliveryKeepsInv ==
  ASSUME DeliveryQueueAssumption, QueueInv, NEW w \in Workers, LoadPendingDelivery(w)
  PROVE  QueueInv'
<1>1. /\ worker[w].stage = "claimed" /\ UNCHANGED <<json, marker, failed, crashes, did, sentThisLife, failures>>
      /\ \/ EntryDone(w)
         \/ Goes(w, "moving") /\ UNCHANGED claims
         \/ Goes(w, "sending") /\ UNCHANGED claims
  BY DEF LoadPendingDelivery, At, files, history
<1>2. worker[w].stage \in ActingStages
  BY <1>1 DEF ActingStages
<1>3. /\ WorkerOK(w, worker[w]) /\ marker' \subseteq Entries /\ sentThisLife \in [Entries -> 0..2]
      /\ failures \in [Entries -> 0..AttemptsCap]
  BY <1>1, <1>2, ActingFacts
<1>4. w \notin LiveCalls
  BY <1>1, <1>3 DEF WorkerOK, LiveStages
<1>5. sentThisLife' \in [Entries -> 0..2] /\ failures' \in [Entries -> 0..AttemptsCap]
  BY <1>1, <1>3 DEF AttemptsCap
<1>6. CASE EntryDone(w)
  BY <1>1, <1>2, <1>3, <1>6, DoneQuietlyKeepsInv
<1>7. ASSUME NEW stage \in {"sending", "failing", "moving"}, Goes(w, stage), UNCHANGED claims
      PROVE  QueueInv'
  BY <1>1, <1>2, <1>4, <1>5, <1>7, GoesQuietlyKeepsInv
<1>8. CASE Goes(w, "moving") /\ UNCHANGED claims
  BY <1>7, <1>8
<1>9. CASE Goes(w, "sending") /\ UNCHANGED claims
  BY <1>7, <1>9
<1>. QED
  BY <1>1, <1>6, <1>8, <1>9

(* The call ends: the re-read fails, or all entries are processed. *)
LEMMA EndingKeepsInv ==
  ASSUME DeliveryQueueAssumption, QueueInv, NEW w \in Workers, LoadFails(w) \/ AllProcessed(w)
  PROVE  QueueInv'
<1>1. /\ worker[w].stage \in {"claimed", "next"} /\ CallEnds(w)
      /\ UNCHANGED <<json, marker, failed, crashes, did, sentThisLife, failures>>
  BY DEF LoadFails, AllProcessed, At, files, history
<1>2. worker[w].stage \in ClaimStages \cup {"next"}
  BY <1>1 DEF ClaimStages
<1>3. WorkerOK(w, worker[w])
  BY DEF QueueInv, ClaimsInv, WorkersOK
<1>4. w \in Others
  BY <1>1, <1>3, WorkerKinds DEF WorkerOK, LiveStages
<1>. QED
  BY <1>1, <1>2, <1>4, EndsQuietlyKeepsInv

(* The recovery is out of time, or is done with deferring. *)
LEMMA BudgetKeepsInv ==
  ASSUME DeliveryQueueAssumption, QueueInv, NEW w \in Workers, BudgetExceeded(w) \/ DeferEnds(w)
  PROVE  QueueInv'
<1>1. /\ UNCHANGED claims /\ UNCHANGED <<json, marker, failed, crashes, did, sentThisLife, failures>>
  BY DEF BudgetExceeded, DeferEnds, files, history
<1>2. /\ ClaimsInv /\ WorkerOK(w, worker[w]) /\ marker \subseteq Entries
      /\ sentThisLife \in [Entries -> 0..2] /\ failures \in [Entries -> 0..AttemptsCap]
  BY DEF QueueInv, ClaimsInv, WorkersOK, FileTypes
<1>3. worker[w] \in WorkerStates /\ worker \in [Workers -> WorkerStates]
  BY ReadFacts
<1>4. w \in Recoveries /\ worker[w].stage \in {"next", "deferring"}
  BY <1>2 DEF BudgetExceeded, DeferEnds, At, WorkerOK
<1>5. w \notin LiveCalls /\ w \notin Drains /\ worker[w].stage \notin ClaimStages
  BY <1>4, WorkerKinds DEF ClaimStages
<1>6. PICK s : s \in WorkerStates /\ s.stage \in {"deferring", "idle"} /\ worker' = [worker EXCEPT ![w] = s]
  <2>1. CASE BudgetExceeded(w)
    <3>. DEFINE s == [worker[w] EXCEPT !.stage = "deferring"]
    <3>1. s \in WorkerStates /\ s.stage = "deferring"
      BY <1>3 DEF WorkerStates, Stages
    <3>2. worker' = [worker EXCEPT ![w] = s]
      BY <2>1 DEF BudgetExceeded, Goes
    <3>. QED
      BY <3>1, <3>2
  <2>2. CASE DeferEnds(w)
    BY <2>2, IdleFacts DEF DeferEnds
  <2>. QED
    BY <2>1, <2>2
<1>7. s.stage \notin ClaimStages /\ s.stage # "marking" /\ WorkerOK(w, s)
  BY <1>4, <1>5, <1>6 DEF WorkerOK, ActingStages, ClaimStages
<1>8. worker' = [worker EXCEPT ![w] = s] /\ UNCHANGED claims /\ ClaimsInv
  BY <1>1, <1>2, <1>6
<1>9. ClaimsInv'
  BY <1>5, <1>7, <1>8, UnclaimedKeepsClaims
<1>10. \A v \in Workers : worker'[v] = IF v = w THEN s ELSE worker[v]
  BY <1>5, <1>7, <1>8, UnclaimedKeepsClaims
<1>11. sentThisLife' \in [Entries -> 0..2] /\ failures' \in [Entries -> 0..AttemptsCap]
  BY <1>1, <1>2 DEF AttemptsCap
<1>. QED
  BY <1>1, <1>2, <1>7, <1>9, <1>10, <1>11, QuietStepKeepsInv

(* The remaining entries are failed without a claim. *)
LEMMA DeferReadsKeepsInv ==
  ASSUME DeliveryQueueAssumption, QueueInv, NEW w \in Workers, NEW e \in Entries, DeferReads(w, e)
  PROVE  QueueInv'
<1>. DEFINE r == [worker[w].read EXCEPT ![e] = json[e]]
            todo == worker[w].todo \ {e}
            s == [worker[w] EXCEPT !.todo = todo, !.read = r]
<1>1. /\ worker[w].stage = "deferring" /\ UNCHANGED claims
      /\ UNCHANGED <<json, marker, failed, crashes, did, sentThisLife, failures>>
  BY DEF DeferReads, At, files, history
<1>2. /\ worker[w] \in WorkerStates /\ worker[w].read \in [Entries -> Counts] /\ worker[w].todo \subseteq Entries
      /\ json \in [Entries -> Counts] /\ worker \in [Workers -> WorkerStates]
  BY ReadFacts
<1>3. r \in [Entries -> {Absent} \cup 0..MaxRetries] /\ todo \subseteq Entries
  BY <1>2 DEF Counts
<1>4. s \in WorkerStates /\ s.stage = worker[w].stage /\ s.entry = worker[w].entry
  BY <1>2, <1>3 DEF WorkerStates
<1>5. worker' = [worker EXCEPT ![w] = s]
  BY <1>2 DEF DeferReads, WorkerStates
<1>. HIDE DEF s
<1>6. s.stage # "marking" /\ json' \in [Entries -> Counts] /\ \A f \in Entries : json'[f] # Absent \/ json[f] = Absent
  BY <1>1, <1>2, <1>4
<1>. QED
  BY <1>1, <1>4, <1>5, <1>6, SameStageKeepsInv

LEMMA DeferWritesKeepsInv ==
  ASSUME DeliveryQueueAssumption, QueueInv, NEW w \in Workers, NEW e \in Entries, DeferWrites(w, e)
  PROVE  QueueInv'
<1>. DEFINE r == [worker[w].read EXCEPT ![e] = Absent]
            n == Bumped(worker[w].read[e])
            s == [worker[w] EXCEPT !.read = r]
<1>1. /\ worker[w].stage = "deferring" /\ worker[w].read[e] # Absent /\ UNCHANGED claims
      /\ json' = [json EXCEPT ![e] = n]
      /\ UNCHANGED <<marker, failed, crashes, did, sentThisLife, failures>>
  BY DEF DeferWrites, At, history
<1>2. /\ worker[w] \in WorkerStates /\ worker[w].read \in [Entries -> Counts] /\ Absent \in Counts
      /\ json \in [Entries -> Counts] /\ worker \in [Workers -> WorkerStates]
  BY ReadFacts
<1>3. n \in Counts /\ n # Absent
  <2>1. worker[w].read[e] \in Counts
    BY <1>2
  <2>. QED
    BY <1>1, <2>1, ReadFacts
<1>. HIDE DEF n
<1>4. r \in [Entries -> {Absent} \cup 0..MaxRetries]
  BY <1>2 DEF Counts
<1>5. s \in WorkerStates /\ s.stage = worker[w].stage /\ s.entry = worker[w].entry
  BY <1>2, <1>4 DEF WorkerStates
<1>6. worker' = [worker EXCEPT ![w] = s]
  BY <1>2 DEF DeferWrites, WorkerStates
<1>. HIDE DEF s
<1>7. s.stage # "marking" /\ json' \in [Entries -> Counts] /\ \A f \in Entries : json'[f] # Absent \/ json[f] = Absent
  BY <1>1, <1>2, <1>3, <1>5
<1>. QED
  BY <1>1, <1>5, <1>6, <1>7, SameStageKeepsInv

(* The process dies. *)
LEMMA CrashKeepsInv ==
  ASSUME DeliveryQueueAssumption, QueueInv, Crash
  PROVE  QueueInv'
<1>1. /\ crashes < MaxCrashes /\ crashes' = crashes + 1
      /\ entriesInProgress' = {} /\ drainInProgress' = {} /\ sentThisLife' = [e \in Entries |-> 0]
      /\ UNCHANGED <<json, marker, failed, did, failures>>
      /\ worker' = [w \in Workers |->
                      IF w \in LiveCalls /\ worker[w].stage \notin {"idle", "done"}
                      THEN [IdleWorker EXCEPT !.stage = "dead"]
                      ELSE IF w \in LiveCalls THEN worker[w] ELSE IdleWorker]
  BY DEF Crash, files
<1>2. WorkersOK /\ FileTypes /\ MarkedWereTold /\ NothingLost
  BY DEF QueueInv, ClaimsInv
<1>3. /\ [IdleWorker EXCEPT !.stage = "dead"] \in WorkerStates
      /\ [IdleWorker EXCEPT !.stage = "dead"].stage = "dead"
      /\ IdleWorker \in WorkerStates /\ IdleWorker.stage = "idle"
  BY IdleFacts DEF Stages
<1>4. \A w \in Workers :
        /\ worker'[w] \in WorkerStates /\ worker'[w].stage \in {"idle", "done", "dead"}
        /\ w \notin LiveCalls => worker'[w].stage = "idle"
  BY <1>1, <1>2, <1>3 DEF WorkersOK
<1>5. \A w \in Workers : WorkerOK(w, worker'[w])
  BY <1>4 DEF WorkerOK, LiveStages, ActingStages
<1>6. worker' \in [Workers -> WorkerStates]
  BY <1>1, <1>4
<1>7. WorkersOK'
  BY <1>5, <1>6 DEF WorkersOK, WorkerOK
<1>8. EntryClaims'
  <2>1. \A w \in Others : worker'[w].stage \notin ClaimStages
    BY <1>4 DEF Others, ClaimStages
  <2>. QED
    BY <1>1, <2>1 DEF EntryClaims
<1>9. DrainClaims'
  <2>1. \A w \in Drains : worker'[w].stage = "idle"
    BY <1>4, WorkerKinds
  <2>. QED
    BY <1>1, <2>1 DEF DrainClaims
<1>10. FileTypes'
  <2>1. crashes' \in 0..MaxCrashes
    BY <1>1, <1>2 DEF FileTypes, DeliveryQueueAssumption
  <2>2. sentThisLife' \in [Entries -> 0..2]
    BY <1>1
  <2>. QED
    BY <1>1, <1>2, <2>1, <2>2 DEF FileTypes, AttemptsCap
<1>11. MarkedWereTold'
  <2>1. \A w \in Workers : worker'[w].stage # "marking"
    BY <1>4
  <2>. QED
    BY <2>1 DEF MarkedWereTold
<1>12. NothingLost'
  BY <1>1, <1>2 DEF NothingLost, Kept
<1>. QED
  BY <1>7, <1>8, <1>9, <1>10, <1>11, <1>12 DEF QueueInv, ClaimsInv

-----------------------------------------------------------------------------
LEMMA InitInv == DeliveryQueueAssumption /\ Init => QueueInv
<1>. SUFFICES ASSUME DeliveryQueueAssumption, Init PROVE QueueInv
  OBVIOUS
<1>1. /\ worker = [w \in Workers |-> IdleWorker] /\ entriesInProgress = {} /\ drainInProgress = {}
      /\ IdleWorker \in WorkerStates /\ IdleWorker.stage = "idle"
  BY IdleFacts DEF Init
<1>2. WorkersOK
  BY <1>1 DEF WorkersOK, WorkerOK, LiveStages, ActingStages
<1>3. EntryClaims
  <2>1. \A w \in Others : worker[w].stage \notin ClaimStages
    BY <1>1 DEF Others, ClaimStages
  <2>. QED
    BY <1>1, <2>1 DEF EntryClaims
<1>4. DrainClaims
  <2>1. \A w \in Drains : worker[w].stage = "idle"
    BY <1>1, WorkerKinds
  <2>. QED
    BY <1>1, <2>1 DEF DrainClaims
<1>5. FileTypes
  <2>1. did \in [Entries -> SUBSET Events]
    BY DEF Init, Events
  <2>2. sentThisLife \in [Entries -> 0..2] /\ crashes \in 0..MaxCrashes
    BY DEF Init, DeliveryQueueAssumption
  <2>3. failures \in [Entries -> 0..AttemptsCap]
    <3>1. AttemptsCap \in Nat
      BY DEF AttemptsCap, DeliveryQueueAssumption
    <3>2. 0 \in 0..AttemptsCap
      BY <3>1
    <3>. QED
      BY <3>2 DEF Init
  <2>4. json \in [Entries -> Counts] /\ marker = {} /\ failed = {}
    BY DEF Init, Counts
  <2>. QED
    BY <2>1, <2>2, <2>3, <2>4 DEF FileTypes
<1>6. MarkedWereTold
  BY <1>1 DEF MarkedWereTold
<1>7. NothingLost
  <2>1. \A e \in Entries : "persisted" \in did[e] => json[e] # Absent
    BY DEF Init
  <2>. QED
    BY <2>1 DEF NothingLost, Kept
<1>. QED
  BY <1>2, <1>3, <1>4, <1>5, <1>6, <1>7 DEF QueueInv, ClaimsInv

LEMMA NextInv == DeliveryQueueAssumption /\ QueueInv /\ [Next]_vars => QueueInv'
<1>. SUFFICES ASSUME DeliveryQueueAssumption, QueueInv, [Next]_vars PROVE QueueInv'
  OBVIOUS
<1>1. ASSUME NEW w \in Workers, LiveCall(w) \/ RecoveryStarts(w) \/ DrainStarts(w) PROVE QueueInv'
  BY <1>1, LiveCallKeepsInv, RecoveryStartsKeepsInv, DrainStartsKeepsInv
<1>2. ASSUME NEW w \in Workers, Sending(w) PROVE QueueInv'
  BY <1>2, SendSucceedsKeepsInv, SendPartlyKeepsInv, LiveSendThrowsKeepsInv, ReplayThrowsKeepsInv DEF Sending
<1>3. ASSUME NEW w \in Workers, Storing(w) PROVE QueueInv'
  BY <1>3, EnqueueKeepsInv, AckRenamesKeepsInv, AckFailsKeepsInv, AckUnlinksKeepsInv, FailReadsKeepsInv,
     FailWritesKeepsInv, MoveToFailedKeepsInv, MoveFailsKeepsInv DEF Storing
<1>4. ASSUME NEW w \in Workers, Recovering(w) PROVE QueueInv'
  BY <1>4, LoadPendingDeliveriesKeepsInv, ClaimRecoveryEntryKeepsInv, LoadPendingDeliveryKeepsInv, EndingKeepsInv,
     BudgetKeepsInv, DeferReadsKeepsInv, DeferWritesKeepsInv DEF Recovering
<1>5. CASE UNCHANGED vars
  <2>1. UNCHANGED <<json, marker, failed, worker, entriesInProgress, drainInProgress, crashes, did, sentThisLife, failures>>
    BY <1>5 DEF vars, files, claims, history
  <2>. QED
    BY <2>1 DEF QueueInv, FileTypes, AttemptsCap, ClaimsInv, WorkersOK, WorkerOK, EntryClaims, DrainClaims,
       MarkedWereTold, Told, NothingLost, Kept
<1>. QED
  BY <1>1, <1>2, <1>3, <1>4, <1>5, CrashKeepsInv DEF Next

LEMMA QueueInvAlways == Spec => []QueueInv
<1>1. Init => QueueInv
  BY InitInv, DeliveryQueueAssumption
<1>2. QueueInv /\ [Next]_vars => QueueInv'
  BY NextInv, DeliveryQueueAssumption
<1>. QED
  BY <1>1, <1>2, PTL DEF Spec

(* Files, workers, claims and counters keep their types; a live call is in  *)
(* one of its own stages.                                                  *)
THEOREM DeliveryTypeCorrect == Spec => []TypeOK
<1>1. QueueInv => TypeOK
  <2>. SUFFICES ASSUME QueueInv PROVE TypeOK
    OBVIOUS
  <2>1. FileTypes /\ WorkersOK /\ EntryClaims /\ DrainClaims
    BY DEF QueueInv, ClaimsInv
  <2>2. \A w \in LiveCalls : worker[w].stage \in LiveStages
    BY <2>1 DEF WorkersOK, WorkerOK, Workers
  <2>3. drainInProgress \subseteq {KeyOf[w] : w \in Drains}
    BY <2>1 DEF DrainClaims
  <2>. QED
    BY <2>1, <2>2, <2>3 DEF TypeOK, FileTypes, Counts, WorkersOK, EntryClaims
<1>. QED
  BY <1>1, QueueInvAlways, PTL

(* A persisted delivery is in the queue, in failed/, sent or aborted: no    *)
(* crash, error or interleaving of live calls, recoveries and drains loses *)
(* one, though a failDelivery may write back a file that was acked.        *)
THEOREM NothingLostAlways == Spec => []NothingLost
<1>1. QueueInv => NothingLost
  BY DEF QueueInv
<1>. QED
  BY <1>1, QueueInvAlways, PTL

(* entriesInProgress and drainInProgress hold the claims of the calls under *)
(* way and nothing else, on every path out of an entry or a call.          *)
THEOREM ClaimsMatchCallsAlways == Spec => []ClaimsMatchCalls
<1>1. QueueInv => ClaimsMatchCalls
  <2>. SUFFICES ASSUME QueueInv PROVE ClaimsMatchCalls
    OBVIOUS
  <2>1. EntryClaims /\ DrainClaims
    BY DEF QueueInv, ClaimsInv
  <2>2. \A w : Claiming(w) <=> worker[w].stage \in ClaimStages
    BY DEF Claiming, ClaimStages
  <2>3. entriesInProgress = {worker[w].entry : w \in {v \in Workers \ LiveCalls : Claiming(v)}}
    BY <2>1, <2>2 DEF EntryClaims, Others
  <2>4. drainInProgress = {KeyOf[w] : w \in {v \in Drains : ~At(v, "idle")}}
    BY <2>1 DEF DrainClaims, At
  <2>5. \A v, w \in Workers \ LiveCalls :
          Claiming(v) /\ Claiming(w) /\ worker[v].entry = worker[w].entry => v = w
    BY <2>1, <2>2 DEF EntryClaims, Others
  <2>. QED
    BY <2>3, <2>4, <2>5 DEF ClaimsMatchCalls
<1>. QED
  BY <1>1, QueueInvAlways, PTL

-----------------------------------------------------------------------------
(* Replays alone: recoveries and drains without live calls, errors of files *)
(* and the deferral for the time budget, whose writes ask for no claim.    *)
ReplaysOnly == LiveCalls = {} /\ ~IoErrors /\ ~BudgetExpires

(* A replay sends, fails or moves an entry that is there and was not sent,  *)
(* and what it is about to write back is still what the file has.          *)
ReplayOK(s) ==
  /\ s.stage # "deferring"
  /\ s.stage \in {"sending", "failing", "moving"} =>
       json[s.entry] # Absent /\ sentThisLife[s.entry] = 0
  /\ s.stage = "sending" => json[s.entry] < MaxRetries
  /\ \A e \in Entries : s.read[e] # Absent =>
       s.stage = "failing" /\ e = s.entry /\ s.read[e] = json[e]

(* An entry that was sent and is still there is about to be acked, and a    *)
(* failed attempt that its file does not count is about to be recorded.    *)
OnIt(e, stages) == \E w \in Workers : worker[w].stage \in stages /\ worker[w].entry = e

EntryOK(e) ==
  /\ sentThisLife[e] <= 1
  /\ json[e] # Absent => sentThisLife[e] = 0 \/ OnIt(e, {"marking"})
  /\ failures[e] <= MaxRetries + crashes
  /\ json[e] # Absent =>
       \/ failures[e] <= json[e] + crashes
       \/ failures[e] <= json[e] + crashes + 1 /\ OnIt(e, {"failing", "moving"})

ReplayInv ==
  /\ \A w \in Workers : ReplayOK(worker[w])
  /\ \A e \in Entries : EntryOK(e)

(* The files, events and counters of an entry stay as they are. *)
EntryStays(e) ==
  /\ json'[e] = json[e] /\ did'[e] = did[e]
  /\ sentThisLife'[e] = sentThisLife[e] /\ failures'[e] = failures[e]

(* No other replay acts on the entry of one that has claimed it. *)
LEMMA OthersElsewhere ==
  ASSUME LiveCalls = {}, QueueInv, NEW v \in Workers, NEW w \in Workers, v # w,
         worker[v].stage \in ClaimStages, worker[w].stage \in ClaimStages
  PROVE  worker[v].entry # worker[w].entry
BY DEF QueueInv, ClaimsInv, EntryClaims, Others, Workers

(* A replay that has claimed an entry changes nothing but that entry: the   *)
(* others are as well off as before.                                       *)
LEMMA ClaimedStep ==
  ASSUME ReplaysOnly, QueueInv, ReplayInv, NEW w \in Workers, worker[w].stage \in ClaimStages,
         UNCHANGED crashes,
         \A v \in Workers : v # w => worker'[v] = worker[v],
         NEW e \in Entries, e = worker[w].entry,
         \A f \in Entries : f # e => EntryStays(f),
         ReplayOK(worker[w])', EntryOK(e)'
  PROVE  ReplayInv'
<1>1. WorkersOK
  BY DEF QueueInv, ClaimsInv
<1>2. ASSUME NEW v \in Workers, v # w PROVE ReplayOK(worker[v])'
  <2>1. worker'[v] = worker[v] /\ ReplayOK(worker[v]) /\ WorkerOK(v, worker[v])
    BY <1>1, <1>2 DEF ReplayInv, WorkersOK
  <2>2. worker[v].stage \in ClaimStages => worker[v].entry \in Entries /\ worker[v].entry # e
    BY <1>2, <2>1, OthersElsewhere DEF ReplaysOnly, WorkerOK, ActingStages, ClaimStages
  <2>3. worker[v].stage \in ClaimStages => EntryStays(worker[v].entry)
    BY <2>2
  <2>. QED
    BY <2>1, <2>3 DEF ReplayOK, EntryStays, ClaimStages
<1>3. ASSUME NEW f \in Entries, f # e PROVE EntryOK(f)'
  <2>1. EntryOK(f) /\ EntryStays(f)
    BY <1>3 DEF ReplayInv
  <2>2. ASSUME NEW stages, OnIt(f, stages) PROVE OnIt(f, stages)'
    <3>1. PICK v \in Workers : worker[v].stage \in stages /\ worker[v].entry = f
      BY <2>2 DEF OnIt
    <3>. QED
      BY <1>3, <3>1 DEF OnIt
  <2>3. (OnIt(f, {"marking"}) => OnIt(f, {"marking"})')
        /\ (OnIt(f, {"failing", "moving"}) => OnIt(f, {"failing", "moving"})')
    BY <2>2
  <2>. QED
    BY <2>1, <2>3 DEF EntryOK, EntryStays
<1>. QED
  BY <1>2, <1>3 DEF ReplayInv

(* A replay between two entries changes no entry. *)
LEMMA UnclaimedStep ==
  ASSUME ReplaysOnly, QueueInv, ReplayInv, NEW w \in Workers,
         worker[w].stage \notin {"marking", "failing", "moving"},
         worker'[w].stage \notin {"sending", "failing", "moving", "deferring"},
         worker'[w].read = worker[w].read \/ worker'[w].read = [e \in Entries |-> Absent],
         \A v \in Workers : v # w => worker'[v] = worker[v],
         UNCHANGED <<json, crashes, did, sentThisLife, failures>>
  PROVE  ReplayInv'
<1>1. ASSUME NEW v \in Workers PROVE ReplayOK(worker[v])'
  <2>1. ReplayOK(worker[v])
    BY DEF ReplayInv
  <2>2. CASE v = w
    BY <2>1, <2>2 DEF ReplayOK
  <2>3. CASE v # w
    BY <2>1, <2>3 DEF ReplayOK
  <2>. QED
    BY <2>2, <2>3
<1>2. ASSUME NEW f \in Entries PROVE EntryOK(f)'
  <2>1. EntryOK(f)
    BY DEF ReplayInv
  <2>2. (OnIt(f, {"marking"}) => OnIt(f, {"marking"})')
        /\ (OnIt(f, {"failing", "moving"}) => OnIt(f, {"failing", "moving"})')
    BY DEF OnIt
  <2>. QED
    BY <2>1, <2>2 DEF EntryOK
<1>. QED
  BY <1>1, <1>2 DEF ReplayInv

(* What is known of a replay that has claimed an entry, and of the entry. *)
LEMMA ClaimantFacts ==
  ASSUME DeliveryQueueAssumption, ReplaysOnly, QueueInv, ReplayInv, NEW w \in Workers,
         worker[w].stage \in ClaimStages, NEW e, e = worker[w].entry
  PROVE  /\ w \notin LiveCalls /\ e \in Entries /\ ReplayOK(worker[w]) /\ EntryOK(e)
         /\ json[e] \in Counts /\ failures[e] \in Nat /\ sentThisLife[e] \in 0..2
         /\ MaxRetries \in Nat \ {0} /\ crashes \in Nat
         /\ \A stages \in SUBSET ClaimStages : OnIt(e, stages) => worker[w].stage \in stages
<1>1. WorkerOK(w, worker[w]) /\ FileTypes
  BY DEF QueueInv, ClaimsInv, WorkersOK
<1>2. e \in Entries
  BY <1>1 DEF WorkerOK, ActingStages, ClaimStages
<1>3. AttemptsCap \in Nat /\ MaxRetries \in Nat \ {0} /\ MaxCrashes \in Nat
  BY DEF AttemptsCap, DeliveryQueueAssumption
<1>4. ASSUME NEW stages \in SUBSET ClaimStages, OnIt(e, stages) PROVE worker[w].stage \in stages
  <2>1. PICK v \in Workers : worker[v].stage \in stages /\ worker[v].entry = e
    BY <1>4 DEF OnIt
  <2>2. v = w
    BY <1>4, <2>1, OthersElsewhere DEF ReplaysOnly
  <2>. QED
    BY <2>1, <2>2
<1>5. failures[e] \in Nat /\ json[e] \in Counts /\ crashes \in Nat /\ sentThisLife[e] \in 0..2
  BY <1>1, <1>2, <1>3 DEF FileTypes
<1>. QED
  BY <1>2, <1>3, <1>4, <1>5 DEF ReplayInv, ReplaysOnly

(* A step to another stage. *)
LEMMA GoesFacts ==
  ASSUME QueueInv, NEW w \in Workers, NEW stage, Goes(w, stage)
  PROVE  /\ \A v \in Workers : v # w => worker'[v] = worker[v]
         /\ worker'[w].stage = stage /\ worker'[w].entry = worker[w].entry
         /\ worker'[w].read = worker[w].read
<1>1. worker \in [Workers -> WorkerStates]
  BY DEF QueueInv, ClaimsInv, WorkersOK
<1>. QED
  BY <1>1 DEF Goes, WorkerStates

(* A replay that is through with its entry has nothing to write back. *)
LEMMA EntryDoneFacts ==
  ASSUME DeliveryQueueAssumption, ReplaysOnly, QueueInv, ReplayInv, NEW w \in Workers,
         worker[w].stage \in ClaimStages, EntryDone(w)
  PROVE  /\ \A v \in Workers : v # w => worker'[v] = worker[v]
         /\ worker'[w].stage = "next" /\ worker'[w].read = [f \in Entries |-> Absent]
<1>. DEFINE e == worker[w].entry
            s == [worker[w] EXCEPT !.stage = "next", !.read[e] = Absent]
<1>1. worker \in [Workers -> WorkerStates] /\ worker[w] \in WorkerStates
  BY DEF QueueInv, ClaimsInv, WorkersOK
<1>2. w \notin LiveCalls /\ e \in Entries /\ ReplayOK(worker[w])
  BY ClaimantFacts
<1>3. worker' = [worker EXCEPT ![w].stage = "next", ![w].read[e] = Absent]
  BY <1>2 DEF EntryDone
<1>4. /\ \A v \in Workers : v # w => worker'[v] = worker[v]
      /\ worker'[w].stage = "next" /\ worker'[w].read = [worker[w].read EXCEPT ![e] = Absent]
  BY <1>1, <1>3 DEF WorkerStates
<1>5. worker[w].read \in [Entries -> {Absent} \cup 0..MaxRetries]
  BY <1>1 DEF WorkerStates
<1>6. \A f \in Entries : worker'[w].read[f] = Absent
  BY <1>2, <1>4, <1>5 DEF ReplayOK
<1>7. worker'[w].read = [f \in Entries |-> Absent]
  BY <1>4, <1>5, <1>6
<1>. QED
  BY <1>4, <1>7

(* A replay leaves its entry as it is and is through with it. *)
LEMMA DoneUnchanged ==
  ASSUME DeliveryQueueAssumption, ReplaysOnly, QueueInv, ReplayInv, NEW w \in Workers,
         worker[w].stage \in {"claimed", "unmarking"}, EntryDone(w),
         UNCHANGED <<json, crashes, did, sentThisLife, failures>>
  PROVE  ReplayInv'
<1>1. worker[w].stage \in ClaimStages
  BY DEF ClaimStages
<1>. QED
  BY <1>1, EntryDoneFacts, UnclaimedStep

-----------------------------------------------------------------------------
(* The re-read after the claim: an entry that is there and was sent would   *)
(* be the one another replay is about to ack, and the claim is this one's. *)
LEMMA LoadKeepsReplay ==
  ASSUME DeliveryQueueAssumption, ReplaysOnly, QueueInv, ReplayInv, NEW w \in Workers, LoadPendingDelivery(w)
  PROVE  ReplayInv'
<1>0. worker[w].stage \in ClaimStages
  BY DEF LoadPendingDelivery, At, ClaimStages
<1>. PICK e \in Entries : e = worker[w].entry
  BY <1>0, ClaimantFacts
<1>1. /\ worker[w].stage = "claimed" /\ worker[w].stage \in ClaimStages
      /\ UNCHANGED <<json, crashes, did, sentThisLife, failures>>
  BY DEF LoadPendingDelivery, At, files, history, ClaimStages
<1>2. /\ e \in Entries /\ ReplayOK(worker[w]) /\ EntryOK(e)
      /\ json[e] \in Counts /\ MaxRetries \in Nat
      /\ ~OnIt(e, {"marking"}) /\ ~OnIt(e, {"failing", "moving"})
  BY <1>1, ClaimantFacts DEF ClaimStages
<1>3. CASE EntryDone(w)
  BY <1>1, <1>3, DoneUnchanged
<1>4. ASSUME NEW stage \in {"sending", "moving"}, Goes(w, stage), json[e] # Absent,
             stage = "sending" => ~Exhausted(json[e])
      PROVE  ReplayInv'
  <2>1. /\ \A v \in Workers : v # w => worker'[v] = worker[v]
        /\ worker'[w].stage = stage /\ worker'[w].entry = e /\ worker'[w].read = worker[w].read
    BY <1>4, GoesFacts
  <2>2. sentThisLife[e] = 0
    BY <1>2, <1>4 DEF EntryOK
  <2>3. \A f \in Entries : worker[w].read[f] = Absent
    BY <1>1, <1>2 DEF ReplayOK
  <2>4. stage = "sending" => json[e] < MaxRetries
    BY <1>2, <1>4 DEF Exhausted, Counts, Absent
  <2>5. ReplayOK(worker[w])'
    BY <1>1, <1>4, <2>1, <2>2, <2>3, <2>4 DEF ReplayOK
  <2>6. EntryOK(e)'
    BY <1>1, <1>2, <1>4, <2>2 DEF EntryOK
  <2>7. \A f \in Entries : EntryStays(f)
    BY <1>1 DEF EntryStays
  <2>. QED
    BY <1>1, <1>2, <2>1, <2>5, <2>6, <2>7, ClaimedStep
<1>. QED
  BY <1>3, <1>4 DEF LoadPendingDelivery

(* A replay sends an entry that was not sent in this life of the process. *)
LEMMA SendKeepsReplay ==
  ASSUME DeliveryQueueAssumption, ReplaysOnly, QueueInv, ReplayInv, NEW w \in Workers,
         SendSucceeds(w) \/ SendPartly(w, FALSE) \/ SendPartly(w, TRUE)
  PROVE  ReplayInv'
<1>0. worker[w].stage = "sending" /\ worker[w].stage \in ClaimStages
  <2>1. WorkerOK(w, worker[w]) /\ w \notin LiveCalls
    BY DEF QueueInv, ClaimsInv, WorkersOK, ReplaysOnly
  <2>. QED
    BY <2>1 DEF WorkerOK, SendSucceeds, SendPartly, At, ClaimStages
<1>. PICK e \in Entries : e = worker[w].entry
  BY <1>0, ClaimantFacts
<1>1. /\ w \notin LiveCalls /\ ReplayOK(worker[w]) /\ EntryOK(e)
      /\ json[e] \in Counts /\ sentThisLife[e] \in 0..2
      /\ ~OnIt(e, {"failing", "moving"})
  BY <1>0, ClaimantFacts DEF ClaimStages
<1>2. Goes(w, "marking") /\ UNCHANGED <<json, crashes, failures>>
  BY <1>0, <1>1 DEF SendSucceeds, SendPartly, At, files, history
<1>3. /\ \A v \in Workers : v # w => worker'[v] = worker[v]
      /\ worker'[w].stage = "marking" /\ worker'[w].entry = e /\ worker'[w].read = worker[w].read
  BY <1>2, GoesFacts
<1>4. json[e] # Absent /\ sentThisLife[e] = 0 /\ \A f \in Entries : worker[w].read[f] = Absent
  BY <1>0, <1>1 DEF ReplayOK
<1>5. /\ did' = did \/ did' = [did EXCEPT ![e] = @ \cup {"sent"}]
      /\ sentThisLife' = sentThisLife
         \/ sentThisLife' = [sentThisLife EXCEPT ![e] = IF CountReplays /\ @ < 2 THEN @ + 1 ELSE @]
  BY <1>0 DEF SendSucceeds, SendPartly, Sent, Happens, history
<1>6. /\ did \in [Entries -> SUBSET Events] /\ sentThisLife \in [Entries -> 0..2]
  BY DEF QueueInv, FileTypes
<1>7. \A f \in Entries : f # e => EntryStays(f)
  BY <1>2, <1>5, <1>6 DEF EntryStays
<1>8. ReplayOK(worker[w])'
  BY <1>3, <1>4 DEF ReplayOK
<1>9. EntryOK(e)'
  <2>1. sentThisLife'[e] <= 1
    BY <1>4, <1>5, <1>6
  <2>2. OnIt(e, {"marking"})'
    BY <1>3 DEF OnIt
  <2>. QED
    BY <1>1, <1>2, <1>4, <2>1, <2>2 DEF EntryOK
<1>. QED
  BY <1>0, <1>2, <1>3, <1>7, <1>8, <1>9, ClaimedStep

(* A failed attempt is one of fewer than MaxRetries that the file counts,   *)
(* but for those that crashes kept from being recorded.                    *)
LEMMA ThrowKeepsReplay ==
  ASSUME DeliveryQueueAssumption, ReplaysOnly, QueueInv, ReplayInv, NEW w \in Workers, NEW b \in BOOLEAN,
         ReplayThrows(w, b)
  PROVE  ReplayInv'
<1>0. worker[w].stage = "sending" /\ worker[w].stage \in ClaimStages
  BY DEF ReplayThrows, At, ClaimStages
<1>. PICK e \in Entries : e = worker[w].entry
  BY <1>0, ClaimantFacts
<1>1. /\ ReplayOK(worker[w]) /\ EntryOK(e)
      /\ json[e] \in Counts /\ failures[e] \in Nat /\ crashes \in Nat /\ MaxRetries \in Nat
      /\ ~OnIt(e, {"failing", "moving"})
  BY <1>0, ClaimantFacts DEF ClaimStages
<1>2. PICK stage \in {"failing", "moving"} : Goes(w, stage)
  BY DEF ReplayThrows
<1>3. /\ \A v \in Workers : v # w => worker'[v] = worker[v]
      /\ worker'[w].stage = stage /\ worker'[w].entry = e /\ worker'[w].read = worker[w].read
  BY <1>2, GoesFacts
<1>4. UNCHANGED <<json, crashes, did, sentThisLife>>
  BY DEF ReplayThrows, files
<1>5. /\ json[e] # Absent /\ sentThisLife[e] = 0 /\ json[e] < MaxRetries /\ json[e] \in Nat
      /\ \A f \in Entries : worker[w].read[f] = Absent
  BY <1>0, <1>1 DEF ReplayOK, Counts
<1>6. failures[e] <= json[e] + crashes
  BY <1>1, <1>5 DEF EntryOK
<1>7. failures' = [failures EXCEPT ![e] = IF CountReplays /\ @ < AttemptsCap THEN @ + 1 ELSE @]
  BY DEF ReplayThrows
<1>8. failures \in [Entries -> 0..AttemptsCap]
  BY DEF QueueInv, FileTypes
<1>9. failures'[e] \in {failures[e], failures[e] + 1}
  BY <1>7, <1>8
<1>10. \A f \in Entries : f # e => EntryStays(f)
  BY <1>4, <1>7, <1>8 DEF EntryStays
<1>11. ReplayOK(worker[w])'
  BY <1>3, <1>4, <1>5 DEF ReplayOK
<1>12. EntryOK(e)'
  <2>1. failures'[e] <= json[e] + crashes + 1 /\ failures'[e] <= MaxRetries + crashes
    BY <1>1, <1>5, <1>6, <1>9
  <2>2. OnIt(e, {"failing", "moving"})'
    BY <1>3 DEF OnIt
  <2>. QED
    BY <1>1, <1>4, <1>5, <2>1, <2>2 DEF EntryOK
<1>. QED
  BY <1>0, <1>3, <1>4, <1>10, <1>11, <1>12, ClaimedStep

(* The entry's file becomes the marker; what had to be told has been. *)
LEMMA AckKeepsReplay ==
  ASSUME DeliveryQueueAssumption, ReplaysOnly, QueueInv, ReplayInv, NEW w \in Workers, AckRenames(w)
  PROVE  ReplayInv'
<1>0. worker[w].stage = "marking" /\ worker[w].stage \in ClaimStages
  BY DEF AckRenames, At, ClaimStages
<1>. PICK e \in Entries : e = worker[w].entry
  BY <1>0, ClaimantFacts
<1>1. ReplayOK(worker[w]) /\ EntryOK(e)
  BY <1>0, ClaimantFacts
<1>2. /\ \A v \in Workers : v # w => worker'[v] = worker[v]
      /\ worker'[w].stage = "unmarking" /\ worker'[w].entry = e /\ worker'[w].read = worker[w].read
  BY GoesFacts DEF AckRenames
<1>3. /\ UNCHANGED <<crashes, sentThisLife, failures>>
      /\ \/ json[e] # Absent /\ json' = [json EXCEPT ![e] = Absent] /\ Happens(e, "acked")
         \/ json[e] = Absent /\ UNCHANGED <<json, did>>
  BY DEF AckRenames
<1>4. json \in [Entries -> Counts] /\ did \in [Entries -> SUBSET Events]
  BY DEF QueueInv, FileTypes
<1>5. json'[e] = Absent /\ \A f \in Entries : f # e => EntryStays(f)
  BY <1>3, <1>4 DEF EntryStays, Happens
<1>6. ReplayOK(worker[w])'
  BY <1>0, <1>1, <1>2 DEF ReplayOK
<1>7. EntryOK(e)'
  BY <1>1, <1>3, <1>5 DEF EntryOK
<1>. QED
  BY <1>0, <1>2, <1>3, <1>5, <1>6, <1>7, ClaimedStep

(* failDelivery of an entry whose file is there reads it. *)
LEMMA FailReadsKeepsReplay ==
  ASSUME DeliveryQueueAssumption, ReplaysOnly, QueueInv, ReplayInv, NEW w \in Workers, FailReads(w)
  PROVE  ReplayInv'
<1>0. worker[w].stage = "failing" /\ worker[w].stage \in ClaimStages
  BY DEF FailReads, At, ClaimStages
<1>. PICK e \in Entries : e = worker[w].entry
  BY <1>0, ClaimantFacts
<1>1. ReplayOK(worker[w]) /\ EntryOK(e) /\ worker \in [Workers -> WorkerStates] /\ ~OnIt(e, {"marking"})
  BY <1>0, ClaimantFacts DEF QueueInv, ClaimsInv, WorkersOK, ClaimStages
<1>2. json[e] # Absent /\ sentThisLife[e] = 0 /\ \A f \in Entries : worker[w].read[f] = Absent
  BY <1>0, <1>1 DEF ReplayOK, FailReads
<1>3. worker' = [worker EXCEPT ![w].read[e] = json[e]] /\ UNCHANGED <<json, crashes, did, sentThisLife, failures>>
  BY <1>2 DEF FailReads, ReplaysOnly, files, history
<1>4. /\ \A v \in Workers : v # w => worker'[v] = worker[v]
      /\ worker'[w].stage = "failing" /\ worker'[w].entry = e
      /\ worker'[w].read = [worker[w].read EXCEPT ![e] = json[e]]
  BY <1>0, <1>1, <1>3 DEF WorkerStates
<1>5. worker[w].read \in [Entries -> {Absent} \cup 0..MaxRetries]
  BY <1>1 DEF WorkerStates
<1>6. \A f \in Entries : worker'[w].read[f] # Absent => f = e /\ worker'[w].read[f] = json[e]
  BY <1>2, <1>4, <1>5
<1>7. ReplayOK(worker[w])'
  BY <1>2, <1>3, <1>4, <1>6 DEF ReplayOK
<1>8. OnIt(e, {"failing", "moving"})'
  BY <1>4 DEF OnIt
<1>9. EntryOK(e)'
  BY <1>1, <1>2, <1>3, <1>8 DEF EntryOK
<1>10. \A f \in Entries : EntryStays(f)
  BY <1>3 DEF EntryStays
<1>. QED
  BY <1>0, <1>3, <1>4, <1>7, <1>9, <1>10, ClaimedStep

(* It writes back what the file still has, one more: the attempt is counted. *)
LEMMA FailWritesKeepsReplay ==
  ASSUME DeliveryQueueAssumption, ReplaysOnly, QueueInv, ReplayInv, NEW w \in Workers, FailWrites(w)
  PROVE  ReplayInv'
<1>0. worker[w].stage = "failing" /\ worker[w].stage \in ClaimStages
  BY DEF FailWrites, At, ClaimStages
<1>. PICK e \in Entries : e = worker[w].entry
  BY <1>0, ClaimantFacts
<1>1. /\ ReplayOK(worker[w]) /\ EntryOK(e)
      /\ json[e] \in Counts /\ failures[e] \in Nat /\ crashes \in Nat /\ MaxRetries \in Nat
  BY <1>0, ClaimantFacts
<1>2. json[e] # Absent /\ sentThisLife[e] = 0 /\ worker[w].read[e] = json[e] /\ json[e] \in 0..MaxRetries
  BY <1>0, <1>1 DEF ReplayOK, FailWrites, Counts
<1>3. /\ EntryDone(w) /\ json' = [json EXCEPT ![e] = Bumped(json[e])]
      /\ UNCHANGED <<crashes, did, sentThisLife, failures>>
  BY <1>2 DEF FailWrites, ReplaysOnly, history
<1>4. json \in [Entries -> Counts]
  BY DEF QueueInv, FileTypes
<1>5. json'[e] = Bumped(json[e]) /\ \A f \in Entries : f # e => EntryStays(f)
  BY <1>3, <1>4 DEF EntryStays
<1>6. /\ \A v \in Workers : v # w => worker'[v] = worker[v]
      /\ worker'[w].stage = "next" /\ worker'[w].read = [f \in Entries |-> Absent]
  BY <1>0, <1>3, EntryDoneFacts
<1>7. ReplayOK(worker[w])'
  BY <1>6 DEF ReplayOK
<1>8. json'[e] # Absent /\ failures[e] <= json'[e] + crashes
  <2>1. failures[e] <= MaxRetries + crashes /\ failures[e] <= json[e] + crashes + 1
    BY <1>1, <1>2 DEF EntryOK
  <2>2. CASE json[e] < MaxRetries
    <3>1. Bumped(json[e]) = json[e] + 1
      BY <2>2 DEF Bumped
    <3>. QED
      BY <1>1, <1>2, <1>5, <2>1, <3>1 DEF Absent
  <2>3. CASE json[e] = MaxRetries
    <3>1. Bumped(json[e]) = MaxRetries
      BY <1>1, <2>3 DEF Bumped
    <3>. QED
      BY <1>1, <1>2, <1>5, <2>1, <3>1 DEF Absent
  <2>. QED
    BY <1>1, <1>2, <2>2, <2>3
<1>9. EntryOK(e)'
  BY <1>1, <1>2, <1>3, <1>8 DEF EntryOK
<1>. QED
  BY <1>0, <1>3, <1>5, <1>6, <1>7, <1>9, ClaimedStep

(* The file of an exhausted or undeliverable entry leaves the queue. *)
LEMMA MoveKeepsReplay ==
  ASSUME DeliveryQueueAssumption, ReplaysOnly, QueueInv, ReplayInv, NEW w \in Workers, MoveToFailed(w)
  PROVE  ReplayInv'
<1>0. worker[w].stage = "moving" /\ worker[w].stage \in ClaimStages
  BY DEF MoveToFailed, At, ClaimStages
<1>. PICK e \in Entries : e = worker[w].entry
  BY <1>0, ClaimantFacts
<1>1. ReplayOK(worker[w]) /\ EntryOK(e)
  BY <1>0, ClaimantFacts
<1>2. json[e] # Absent
  BY <1>0, <1>1 DEF ReplayOK
<1>3. EntryDone(w) /\ json' = [json EXCEPT ![e] = Absent] /\ UNCHANGED <<crashes, did, sentThisLife, failures>>
  BY <1>2 DEF MoveToFailed, history
<1>4. json \in [Entries -> Counts]
  BY DEF QueueInv, FileTypes
<1>5. json'[e] = Absent /\ \A f \in Entries : f # e => EntryStays(f)
  BY <1>3, <1>4 DEF EntryStays
<1>6. /\ \A v \in Workers : v # w => worker'[v] = worker[v]
      /\ worker'[w].stage = "next" /\ worker'[w].read = [f \in Entries |-> Absent]
  BY <1>0, <1>3, EntryDoneFacts
<1>7. ReplayOK(worker[w])'
  BY <1>6 DEF ReplayOK
<1>8. EntryOK(e)'
  BY <1>1, <1>3, <1>5 DEF EntryOK
<1>. QED
  BY <1>0, <1>3, <1>5, <1>6, <1>7, <1>8, ClaimedStep

(* Calls begin, take the next entry and end. *)
LEMMA MovingOnKeepsReplay ==
  ASSUME DeliveryQueueAssumption, ReplaysOnly, QueueInv, ReplayInv, NEW w \in Workers,
         RecoveryStarts(w) \/ DrainStarts(w) \/ LoadPendingDeliveries(w) \/ ClaimRecoveryEntry(w) \/ AllProcessed(w)
  PROVE  ReplayInv'
<1>1. worker[w].stage \in {"idle", "loading", "next"} /\ UNCHANGED <<json, crashes, did, sentThisLife, failures>>
  BY DEF RecoveryStarts, DrainStarts, LoadPendingDeliveries, ClaimRecoveryEntry, AllProcessed, At, files, history
<1>2. worker \in [Workers -> WorkerStates] /\ worker[w] \in WorkerStates
  BY DEF QueueInv, ClaimsInv, WorkersOK
<1>3. /\ \A v \in Workers : v # w => worker'[v] = worker[v]
      /\ worker'[w].stage \in {"idle", "loading", "next", "claimed"}
      /\ worker'[w].read = worker[w].read \/ worker'[w].read = [f \in Entries |-> Absent]
  <2>1. CASE RecoveryStarts(w) \/ DrainStarts(w)
    BY <2>1, GoesFacts DEF RecoveryStarts, DrainStarts
  <2>2. CASE LoadPendingDeliveries(w)
    BY <1>2, <2>2 DEF LoadPendingDeliveries, WorkerStates
  <2>3. CASE ClaimRecoveryEntry(w)
    BY <1>2, <2>3 DEF ClaimRecoveryEntry, WorkerStates
  <2>4. CASE AllProcessed(w)
    BY <1>2, <2>4 DEF AllProcessed, CallEnds, IdleWorker
  <2>. QED
    BY <2>1, <2>2, <2>3, <2>4
<1>. QED
  BY <1>1, <1>3, UnclaimedStep

(* After a crash nobody acts on an entry; an attempt whose failure was not  *)
(* recorded yet is excused by the crash.                                   *)
LEMMA CrashKeepsReplay ==
  ASSUME DeliveryQueueAssumption, ReplaysOnly, QueueInv, ReplayInv, Crash
  PROVE  ReplayInv'
<1>1. /\ crashes' = crashes + 1 /\ sentThisLife' = [e \in Entries |-> 0]
      /\ UNCHANGED <<json, did, failures>>
      /\ \A w \in Workers : worker'[w] = IdleWorker
  BY DEF Crash, files, ReplaysOnly
<1>2. \A w \in Workers : ReplayOK(worker[w])'
  <2>1. \A w \in Workers : worker'[w].stage = "idle" /\ \A e \in Entries : worker'[w].read[e] = Absent
    BY <1>1 DEF IdleWorker
  <2>. QED
    BY <2>1 DEF ReplayOK
<1>3. ASSUME NEW e \in Entries PROVE EntryOK(e)'
  <2>1. EntryOK(e) /\ json[e] \in Counts /\ failures[e] \in 0..AttemptsCap /\ crashes \in Nat /\ MaxRetries \in Nat
    BY DEF ReplayInv, QueueInv, FileTypes, DeliveryQueueAssumption
  <2>2. json[e] # Absent => json[e] \in Nat
    BY <2>1 DEF Counts
  <2>3. failures[e] \in Nat
    BY <2>1 DEF AttemptsCap, DeliveryQueueAssumption
  <2>4. failures[e] <= MaxRetries + crashes'
    BY <1>1, <2>1, <2>3 DEF EntryOK
  <2>5. json[e] # Absent => failures[e] <= json[e] + crashes'
    BY <1>1, <2>1, <2>2, <2>3 DEF EntryOK
  <2>. QED
    BY <1>1, <2>1, <2>4, <2>5 DEF EntryOK
<1>. QED
  BY <1>2, <1>3 DEF ReplayInv

-----------------------------------------------------------------------------
LEMMA ReplayInit == DeliveryQueueAssumption /\ Init => ReplayInv
<1>. SUFFICES ASSUME DeliveryQueueAssumption, Init PROVE ReplayInv
  OBVIOUS
<1>1. \A w \in Workers : ReplayOK(worker[w])
  BY DEF Init, ReplayOK, IdleWorker
<1>2. ASSUME NEW e \in Entries PROVE EntryOK(e)
  <2>1. json[e] \in {Absent} \cup 0..MaxRetries /\ MaxRetries \in Nat
    BY DEF Init, DeliveryQueueAssumption
  <2>2. failures[e] = 0 /\ crashes = 0 /\ sentThisLife[e] = 0
    BY DEF Init
  <2>. QED
    BY <2>1, <2>2 DEF EntryOK
<1>. QED
  BY <1>1, <1>2 DEF ReplayInv

LEMMA ReplayNext ==
  ASSUME DeliveryQueueAssumption, ReplaysOnly, QueueInv, ReplayInv, [Next]_vars
  PROVE  ReplayInv'
<1>1. ASSUME NEW w \in Workers, LiveCall(w) \/ RecoveryStarts(w) \/ DrainStarts(w) PROVE ReplayInv'
  <2>1. ~LiveCall(w)
    BY DEF LiveCall, ReplaysOnly
  <2>. QED
    BY <1>1, <2>1, MovingOnKeepsReplay
<1>2. ASSUME NEW w \in Workers, Sending(w) PROVE ReplayInv'
  <2>1. \A b \in BOOLEAN : ~LiveSendThrows(w, b)
    BY DEF LiveSendThrows, ReplaysOnly
  <2>. QED
    BY <1>2, <2>1, SendKeepsReplay, ThrowKeepsReplay DEF Sending
<1>3. ASSUME NEW w \in Workers, Storing(w) PROVE ReplayInv'
  <2>1. ~EnqueueDelivery(w) /\ ~AckFails(w) /\ ~MoveFails(w)
    BY DEF EnqueueDelivery, AckFails, MoveFails, At, ReplaysOnly, QueueInv, ClaimsInv, WorkersOK, WorkerOK
  <2>2. CASE AckUnlinks(w)
    BY <2>2, DoneUnchanged DEF AckUnlinks, At, history
  <2>. QED
    BY <1>3, <2>1, <2>2, AckKeepsReplay, FailReadsKeepsReplay, FailWritesKeepsReplay, MoveKeepsReplay DEF Storing
<1>4. ASSUME NEW w \in Workers, Recovering(w) PROVE ReplayInv'
  <2>1. ~LoadFails(w) /\ ~BudgetExceeded(w)
    BY DEF LoadFails, BudgetExceeded, ReplaysOnly
  <2>2. worker[w].stage # "deferring"
    BY DEF ReplayInv, ReplayOK
  <2>3. ~DeferEnds(w) /\ \A e \in Entries : ~DeferReads(w, e) /\ ~DeferWrites(w, e)
    BY <2>2 DEF DeferEnds, DeferReads, DeferWrites, At
  <2>. QED
    BY <1>4, <2>1, <2>3, MovingOnKeepsReplay, LoadKeepsReplay DEF Recovering
<1>5. CASE UNCHANGED vars
  <2>1. UNCHANGED <<json, worker, crashes, did, sentThisLife, failures>>
    BY <1>5 DEF vars, files, claims, history
  <2>. QED
    BY <2>1 DEF ReplayInv, ReplayOK, EntryOK, OnIt
<1>. QED
  BY <1>1, <1>2, <1>3, <1>4, <1>5, CrashKeepsReplay DEF Next

LEMMA ReplayInvAlways == ReplaysOnly => (Spec => []ReplayInv)
<1>. SUFFICES ASSUME ReplaysOnly PROVE Spec => []ReplayInv
  OBVIOUS
<1>1. Init => ReplayInv
  BY ReplayInit, DeliveryQueueAssumption
<1>2. QueueInv /\ ReplayInv /\ [Next]_vars => ReplayInv'
  BY ReplayNext, DeliveryQueueAssumption
<1>. QED
  BY <1>1, <1>2, QueueInvAlways, PTL DEF Spec

(* The recoveries and the drains of one process send an entry at most once, *)
(* however old the snapshots are they work from: claimRecoveryEntry and    *)
(* the re-read after it.                                                   *)
THEOREM ReplayedOnceAlways == ReplaysOnly => (Spec => []ReplayedOnce)
<1>1. ReplayInv => ReplayedOnce
  BY DEF ReplayInv, EntryOK, ReplayedOnce
<1>. QED
  BY <1>1, ReplayInvAlways, PTL

(* An entry is attempted MAX_RETRIES times, plus once for each crash that   *)
(* came between an attempt and the record of its failure.                  *)
THEOREM AttemptsBoundedAlways == ReplaysOnly => (Spec => []AttemptsBounded)
<1>1. ReplayInv => AttemptsBounded
  BY DEF ReplayInv, EntryOK, AttemptsBounded
<1>. QED
  BY <1>1, ReplayInvAlways, PTL

-----------------------------------------------------------------------------
(* Acks, errors of files included: without live calls and without the       *)
(* deferral for the time budget every write of an entry is under a claim.  *)
ClaimedWrites == LiveCalls = {} /\ ~BudgetExpires

(* What failDelivery has read and will write back is what the file of its   *)
(* own entry still holds.                                                  *)
ReadOK(s) ==
  /\ s.stage # "deferring"
  /\ \A e \in Entries : s.read[e] # Absent =>
       s.stage = "failing" /\ e = s.entry /\ json[e] = s.read[e]

AckInv == (\A w \in Workers : ReadOK(worker[w])) /\ AckedStaysGone

(* A replay changes the file of no entry but the one it has claimed. *)
LEMMA AckStep ==
  ASSUME ClaimedWrites, QueueInv, AckInv, NEW w \in Workers,
         \A v \in Workers : v # w => worker'[v] = worker[v],
         ReadOK(worker[w])', AckedStaysGone',
         \A e \in Entries : json'[e] = json[e] \/ (worker[w].stage \in ClaimStages /\ e = worker[w].entry)
  PROVE  AckInv'
<1>1. ASSUME NEW v \in Workers, v # w PROVE ReadOK(worker[v])'
  <2>1. worker'[v] = worker[v] /\ ReadOK(worker[v])
    BY <1>1 DEF AckInv
  <2>2. ASSUME NEW e \in Entries, worker[v].read[e] # Absent PROVE json'[e] = worker[v].read[e]
    <3>1. worker[v].stage = "failing" /\ e = worker[v].entry /\ json[e] = worker[v].read[e]
      BY <2>1, <2>2 DEF ReadOK
    <3>2. json'[e] = json[e]
      BY <1>1, <3>1, OthersElsewhere DEF ClaimedWrites, ClaimStages
    <3>. QED
      BY <3>1, <3>2
  <2>. QED
    BY <2>1, <2>2 DEF ReadOK
<1>. QED
  BY <1>1 DEF AckInv

(* A worker that reads nothing: one that goes on, is through with an entry  *)
(* or ends.                                                                *)
ReadsNothing(s) == s.stage # "deferring" /\ \A e \in Entries : s.read[e] = Absent

LEMMA ReadsNothingFacts ==
  ASSUME DeliveryQueueAssumption, ClaimedWrites, QueueInv, AckInv, NEW w \in Workers,
         \/ worker[w].stage # "failing" /\ \E stage \in Stages \ {"deferring"} : Goes(w, stage)
         \/ worker[w].stage \in ClaimStages /\ EntryDone(w)
         \/ CallEnds(w)
  PROVE  ReadsNothing(worker'[w]) /\ \A v \in Workers : v # w => worker'[v] = worker[v]
<1>1. ReadOK(worker[w]) /\ worker \in [Workers -> WorkerStates] /\ worker[w] \in WorkerStates
  BY DEF AckInv, QueueInv, ClaimsInv, WorkersOK
<1>2. CASE worker[w].stage # "failing" /\ \E stage \in Stages \ {"deferring"} : Goes(w, stage)
  <2>1. \A e \in Entries : worker[w].read[e] = Absent
    BY <1>1, <1>2 DEF ReadOK
  <2>. QED
    BY <1>2, <2>1, GoesFacts DEF ReadsNothing
<1>3. CASE worker[w].stage \in ClaimStages /\ EntryDone(w)
  <2>1. worker' = [worker EXCEPT ![w].stage = "next", ![w].read[worker[w].entry] = Absent]
    BY <1>3 DEF EntryDone, ClaimedWrites
  <2>2. /\ \A v \in Workers : v # w => worker'[v] = worker[v]
        /\ worker'[w].stage = "next"
        /\ worker'[w].read = [worker[w].read EXCEPT ![worker[w].entry] = Absent]
    BY <1>1, <2>1 DEF WorkerStates
  <2>3. worker[w].read \in [Entries -> {Absent} \cup 0..MaxRetries]
    BY <1>1 DEF WorkerStates
  <2>4. \A e \in Entries : worker'[w].read[e] = Absent
    BY <1>1, <2>2, <2>3 DEF ReadOK
  <2>. QED
    BY <2>2, <2>4 DEF ReadsNothing
<1>4. CASE CallEnds(w)
  <2>1. worker'[w] = IdleWorker /\ \A v \in Workers : v # w => worker'[v] = worker[v]
    BY <1>1, <1>4 DEF CallEnds
  <2>. QED
    BY <2>1 DEF IdleWorker, ReadsNothing
<1>. QED
  BY <1>2, <1>3, <1>4

(* Steps that touch no file and ack nothing. *)
LEMMA QuietKeepsAck ==
  ASSUME ClaimedWrites, QueueInv, AckInv, NEW w \in Workers,
         ReadsNothing(worker'[w]), \A v \in Workers : v # w => worker'[v] = worker[v],
         UNCHANGED json, \A e \in Entries : "acked" \in did'[e] => "acked" \in did[e]
  PROVE  AckInv'
<1>1. ReadOK(worker[w])'
  BY DEF ReadsNothing, ReadOK
<1>2. AckedStaysGone'
  BY DEF AckInv, AckedStaysGone
<1>. QED
  BY <1>1, <1>2, AckStep

LEMMA SendingKeepsAck ==
  ASSUME DeliveryQueueAssumption, ClaimedWrites, QueueInv, AckInv, NEW w \in Workers, Sending(w)
  PROVE  AckInv'
<1>1. w \notin LiveCalls /\ WorkerOK(w, worker[w]) /\ did \in [Entries -> SUBSET Events]
  BY DEF ClaimedWrites, QueueInv, ClaimsInv, WorkersOK, FileTypes
<1>2. /\ worker[w].stage = "sending" /\ UNCHANGED json
      /\ \E stage \in {"marking", "failing", "moving"} : Goes(w, stage)
      /\ UNCHANGED did \/ Happens(worker[w].entry, "sent")
  BY <1>1 DEF Sending, SendSucceeds, SendPartly, LiveSendThrows, ReplayThrows, Sent, At, WorkerOK, files, history
<1>3. \A e \in Entries : "acked" \in did'[e] => "acked" \in did[e]
  BY <1>1, <1>2 DEF Happens
<1>4. {"marking", "failing", "moving"} \subseteq Stages \ {"deferring"}
  BY DEF Stages
<1>5. ReadsNothing(worker'[w]) /\ \A v \in Workers : v # w => worker'[v] = worker[v]
  BY <1>2, <1>4, ReadsNothingFacts
<1>. QED
  BY <1>2, <1>3, <1>5, QuietKeepsAck

(* The rename takes the file of the entry it acks. *)
LEMMA AckRenamesKeepsAck ==
  ASSUME DeliveryQueueAssumption, ClaimedWrites, QueueInv, AckInv, NEW w \in Workers, AckRenames(w)
  PROVE  AckInv'
<1>. DEFINE e == worker[w].entry
<1>1. worker[w].stage = "marking" /\ Goes(w, "unmarking")
      /\ \/ json[e] # Absent /\ json' = [json EXCEPT ![e] = Absent] /\ Happens(e, "acked")
         \/ UNCHANGED <<json, did>>
  BY DEF AckRenames, At
<1>2. ReadsNothing(worker'[w]) /\ \A v \in Workers : v # w => worker'[v] = worker[v]
  BY <1>1, ReadsNothingFacts DEF Stages
<1>3. json \in [Entries -> Counts] /\ did \in [Entries -> SUBSET Events]
  BY DEF QueueInv, FileTypes
<1>4. \A f \in Entries : json'[f] = json[f] \/ (f = e /\ json'[f] = Absent)
  BY <1>1, <1>3
<1>5. \A f \in Entries : "acked" \in did'[f] => "acked" \in did[f] \/ json'[f] = Absent
  BY <1>1, <1>3 DEF Happens
<1>6. AckedStaysGone'
  BY <1>4, <1>5 DEF AckInv, AckedStaysGone
<1>7. ReadOK(worker[w])'
  BY <1>2 DEF ReadsNothing, ReadOK
<1>. QED
  BY <1>1, <1>2, <1>4, <1>6, <1>7, AckStep DEF ClaimStages

(* failDelivery reads an entry it has claimed, and writes it back while the *)
(* claim keeps it from being acked.                                        *)
LEMMA FailKeepsAck ==
  ASSUME DeliveryQueueAssumption, ClaimedWrites, QueueInv, AckInv, NEW w \in Workers,
         FailReads(w) \/ FailWrites(w)
  PROVE  AckInv'
<1>. DEFINE e == worker[w].entry
<1>1. /\ worker[w].stage = "failing" /\ worker[w].stage \in ClaimStages /\ UNCHANGED did
      /\ ReadOK(worker[w])
  BY DEF FailReads, FailWrites, At, ClaimStages, history, AckInv
<1>2. /\ worker[w] \in WorkerStates /\ worker \in [Workers -> WorkerStates]
      /\ worker[w].read \in [Entries -> Counts] /\ json \in [Entries -> Counts]
  BY ReadFacts
<1>3. ASSUME EntryDone(w), UNCHANGED json PROVE AckInv'
  BY <1>1, <1>3, ReadsNothingFacts, QuietKeepsAck
<1>4. CASE FailReads(w)
  <2>1. ASSUME json[e] # Absent, worker' = [worker EXCEPT ![w].read[e] = json[e]], UNCHANGED json
        PROVE  AckInv'
    <3>1. /\ \A v \in Workers : v # w => worker'[v] = worker[v]
          /\ worker'[w].stage = "failing" /\ worker'[w].entry = e
          /\ worker'[w].read = [worker[w].read EXCEPT ![e] = json[e]]
      BY <1>1, <1>2, <2>1 DEF WorkerStates
    <3>2. \A f \in Entries : worker'[w].read[f] # Absent => f = e /\ json[f] = worker'[w].read[f]
      BY <1>1, <1>2, <3>1 DEF ReadOK
    <3>3. ReadOK(worker[w])'
      BY <2>1, <3>1, <3>2 DEF ReadOK
    <3>4. AckedStaysGone'
      BY <1>1, <2>1 DEF AckInv, AckedStaysGone
    <3>. QED
      BY <2>1, <3>1, <3>3, <3>4, AckStep
  <2>. QED
    BY <1>3, <1>4, <2>1 DEF FailReads, files
<1>5. CASE FailWrites(w)
  <2>1. /\ EntryDone(w) /\ worker[w].read[e] # Absent
        /\ json' = [json EXCEPT ![e] = Bumped(worker[w].read[e])] \/ UNCHANGED json
    BY <1>5 DEF FailWrites
  <2>2. ReadsNothing(worker'[w]) /\ \A v \in Workers : v # w => worker'[v] = worker[v]
    BY <1>1, <2>1, ReadsNothingFacts
  <2>3. e \in Entries
    BY <1>1, ActingFacts DEF ActingStages
  <2>4. json[e] # Absent
    BY <1>1, <2>1, <2>3 DEF ReadOK
  <2>5. \A f \in Entries : json'[f] = json[f] \/ f = e
    BY <1>2, <2>1
  <2>6. AckedStaysGone'
    BY <1>1, <2>4, <2>5 DEF AckInv, AckedStaysGone
  <2>7. ReadOK(worker[w])'
    BY <2>2 DEF ReadsNothing, ReadOK
  <2>. QED
    BY <1>1, <2>2, <2>5, <2>6, <2>7, AckStep
<1>. QED
  BY <1>4, <1>5

LEMMA MoveKeepsAck ==
  ASSUME DeliveryQueueAssumption, ClaimedWrites, QueueInv, AckInv, NEW w \in Workers, MoveToFailed(w)
  PROVE  AckInv'
<1>1. /\ worker[w].stage = "moving" /\ worker[w].stage \in ClaimStages /\ EntryDone(w) /\ UNCHANGED did
      /\ json' = [json EXCEPT ![worker[w].entry] = Absent] \/ UNCHANGED json
  BY DEF MoveToFailed, At, ClaimStages, history
<1>2. ReadsNothing(worker'[w]) /\ \A v \in Workers : v # w => worker'[v] = worker[v]
  BY <1>1, ReadsNothingFacts
<1>3. json \in [Entries -> Counts]
  BY DEF QueueInv, FileTypes
<1>4. \A f \in Entries : json'[f] = json[f] \/ (f = worker[w].entry /\ json'[f] = Absent)
  BY <1>1, <1>3
<1>5. AckedStaysGone'
  BY <1>1, <1>4 DEF AckInv, AckedStaysGone
<1>6. ReadOK(worker[w])'
  BY <1>2 DEF ReadsNothing, ReadOK
<1>. QED
  BY <1>1, <1>2, <1>4, <1>5, <1>6, AckStep

LEMMA StoringKeepsAck ==
  ASSUME DeliveryQueueAssumption, ClaimedWrites, QueueInv, AckInv, NEW w \in Workers, Storing(w)
  PROVE  AckInv'
<1>1. ~EnqueueDelivery(w)
  BY DEF EnqueueDelivery, At, ClaimedWrites, QueueInv, ClaimsInv, WorkersOK, WorkerOK
<1>2. CASE AckFails(w) \/ AckUnlinks(w) \/ MoveFails(w)
  <2>1. /\ UNCHANGED <<json, did>>
        /\ \/ worker[w].stage # "failing" /\ Goes(w, "failing")
           \/ worker[w].stage \in ClaimStages /\ EntryDone(w)
           \/ CallEnds(w)
    BY <1>2 DEF AckFails, AckUnlinks, MoveFails, At, ClaimStages, ClaimedWrites, files, history
  <2>2. ReadsNothing(worker'[w]) /\ \A v \in Workers : v # w => worker'[v] = worker[v]
    BY <2>1, ReadsNothingFacts DEF Stages
  <2>. QED
    BY <2>1, <2>2, QuietKeepsAck
<1>. QED
  BY <1>1, <1>2, AckRenamesKeepsAck, FailKeepsAck, MoveKeepsAck DEF Storing

LEMMA RecoveringKeepsAck ==
  ASSUME DeliveryQueueAssumption, ClaimedWrites, QueueInv, AckInv, NEW w \in Workers,
         RecoveryStarts(w) \/ DrainStarts(w) \/ Recovering(w)
  PROVE  AckInv'
<1>1. worker[w].stage # "deferring" /\ worker \in [Workers -> WorkerStates] /\ ReadOK(worker[w])
  BY DEF AckInv, ReadOK, QueueInv, ClaimsInv, WorkersOK
<1>2. CASE LoadPendingDeliveries(w) \/ ClaimRecoveryEntry(w)
  <2>1. worker[w].stage # "failing" /\ UNCHANGED <<json, did>>
    BY <1>2 DEF LoadPendingDeliveries, ClaimRecoveryEntry, At, files, history
  <2>2. /\ \A v \in Workers : v # w => worker'[v] = worker[v]
        /\ worker'[w].stage # "deferring" /\ worker'[w].read = worker[w].read
    BY <1>1, <1>2 DEF LoadPendingDeliveries, ClaimRecoveryEntry, WorkerStates
  <2>3. ReadsNothing(worker'[w])
    BY <1>1, <2>1, <2>2 DEF ReadOK, ReadsNothing
  <2>. QED
    BY <2>1, <2>2, <2>3, QuietKeepsAck
<1>3. CASE RecoveryStarts(w) \/ DrainStarts(w) \/ LoadPendingDelivery(w) \/ LoadFails(w) \/ AllProcessed(w)
  <2>1. /\ UNCHANGED <<json, did>>
        /\ \/ worker[w].stage # "failing" /\ \E stage \in {"loading", "moving", "sending"} : Goes(w, stage)
           \/ worker[w].stage \in ClaimStages /\ EntryDone(w)
           \/ CallEnds(w)
    BY <1>3 DEF RecoveryStarts, DrainStarts, LoadPendingDelivery, LoadFails, AllProcessed, At, ClaimStages, files, history
  <2>2. {"loading", "moving", "sending"} \subseteq Stages \ {"deferring"}
    BY DEF Stages
  <2>3. ReadsNothing(worker'[w]) /\ \A v \in Workers : v # w => worker'[v] = worker[v]
    BY <2>1, <2>2, ReadsNothingFacts
  <2>. QED
    BY <2>1, <2>3, QuietKeepsAck
<1>4. ~BudgetExceeded(w) /\ ~DeferEnds(w) /\ \A e \in Entries : ~DeferReads(w, e) /\ ~DeferWrites(w, e)
  BY <1>1 DEF BudgetExceeded, DeferEnds, DeferReads, DeferWrites, At, ClaimedWrites
<1>. QED
  BY <1>2, <1>3, <1>4 DEF Recovering

LEMMA AckInvAlways == ClaimedWrites => (Spec => []AckInv)
<1>. SUFFICES ASSUME ClaimedWrites PROVE Spec => []AckInv
  OBVIOUS
<1>1. ASSUME Init PROVE AckInv
  BY <1>1 DEF Init, AckInv, ReadOK, AckedStaysGone, IdleWorker
<1>2. ASSUME QueueInv, AckInv, [Next]_vars PROVE AckInv'
  <2>1. CASE \E w \in Workers : LiveCall(w)
    BY <2>1 DEF LiveCall, ClaimedWrites
  <2>2. CASE Crash
    <3>1. UNCHANGED <<json, did>> /\ \A w \in Workers : worker'[w] = IdleWorker
      BY <2>2 DEF Crash, files, ClaimedWrites
    <3>. QED
      BY <1>2, <3>1 DEF AckInv, ReadOK, AckedStaysGone, IdleWorker
  <2>3. CASE UNCHANGED vars
    <3>1. UNCHANGED <<json, worker, did>>
      BY <2>3 DEF vars, files, history
    <3>. QED
      BY <1>2, <3>1 DEF AckInv, ReadOK, AckedStaysGone
  <2>. QED
    BY <1>2, <2>1, <2>2, <2>3, SendingKeepsAck, StoringKeepsAck, RecoveringKeepsAck, DeliveryQueueAssumption DEF Next
<1>. QED
  BY <1>1, <1>2, QueueInvAlways, PTL DEF Spec

(* An entry that ackDelivery removed does not come back, also when files    *)
(* cannot be read or written: what failDelivery writes it has read under   *)
(* the same claim.                                                         *)
THEOREM AckedStaysGoneAlways == ClaimedWrites => (Spec => []AckedStaysGone)
<1>1. AckInv => AckedStaysGone
  BY DEF AckInv
<1>. QED
  BY <1>1, AckInvAlways, PTL
(* Nor is a failure miscounted: failDelivery's read and its write are two   *)
(* steps, but nobody else touches the file between them.                   *)
THEOREM ReadsAreFreshAlways == ClaimedWrites => (Spec => []ReadsAreFresh)
<1>1. AckInv => ReadsAreFresh
  BY DEF AckInv, ReadOK, ReadsAreFresh
<1>. QED
  BY <1>1, AckInvAlways, PTL

-----------------------------------------------------------------------------
(* Delivery at least once.  What is on disk, or was read from there, has    *)
(* been written by an enqueueDelivery; and a call that has yet to enqueue   *)
(* its entry is the first to do so.                                        *)
EnqueueInv ==
  /\ \A e \in Entries : json[e] # Absent => "persisted" \in did[e]
  /\ \A w \in Workers : \A e \in Entries : worker[w].read[e] # Absent => "persisted" \in did[e]
  /\ \A w \in LiveCalls :
       /\ worker[w].stage \in {"idle", "enqueueing"} => "persisted" \notin did[EntryOf[w]]
       /\ worker[w].stage = "enqueueing" => worker[w].entry = EntryOf[w]

(* What is written back has been there, or may return.                     *)
WritesClaimed == ClaimedWrites => AckInv

ServesQueue == EnqueueInv' /\ [AtLeastOnce!QueueNext]_(AtLeastOnce!queueVars)

(* A worker moves on, its live call not back to before its enqueue.        *)
MovesOn(w) ==
  /\ \A v \in Workers : v # w => worker'[v] = worker[v]
  /\ \A e \in Entries : worker'[w].read[e] # Absent => worker[w].read[e] # Absent \/ json[e] # Absent
  /\ w \in LiveCalls => worker'[w].stage \notin {"idle", "enqueueing"}

LEMMA MovesOnFacts ==
  ASSUME DeliveryQueueAssumption, QueueInv, NEW w \in Workers,
         \/ w \in LiveCalls /\ \E stage \in Stages \ {"idle", "enqueueing"} : Goes(w, stage)
         \/ w \notin LiveCalls /\ \E stage \in Stages : Goes(w, stage)
         \/ EntryDone(w)
         \/ w \notin LiveCalls /\ CallEnds(w)
  PROVE  MovesOn(w) /\ \A e \in Entries : worker'[w].read[e] # Absent => worker[w].read[e] # Absent
<1>1. worker[w] \in WorkerStates /\ worker[w].read \in [Entries -> Counts] /\ worker \in [Workers -> WorkerStates]
  BY ReadFacts
<1>2. CASE \E stage \in Stages : Goes(w, stage) /\ (w \in LiveCalls => stage \notin {"idle", "enqueueing"})
  BY <1>2, GoesFacts DEF MovesOn
<1>3. CASE EntryDone(w)
  <2>1. CASE w \in LiveCalls
    <3>1. /\ worker' = [worker EXCEPT ![w] = [IdleWorker EXCEPT !.stage = "done"]]
          /\ [IdleWorker EXCEPT !.stage = "done"].stage = "done"
          /\ [IdleWorker EXCEPT !.stage = "done"].read = [e \in Entries |-> Absent]
      BY <1>3, <2>1 DEF EntryDone, IdleWorker
    <3>. QED
      BY <1>1, <3>1 DEF MovesOn
  <2>2. CASE w \notin LiveCalls
    <3>1. worker' = [worker EXCEPT ![w].stage = "next", ![w].read[worker[w].entry] = Absent]
      BY <1>3, <2>2 DEF EntryDone
    <3>2. /\ \A v \in Workers : v # w => worker'[v] = worker[v]
          /\ worker'[w].read = [worker[w].read EXCEPT ![worker[w].entry] = Absent]
      BY <1>1, <3>1 DEF WorkerStates
    <3>3. \A e \in Entries : worker'[w].read[e] # Absent => worker[w].read[e] # Absent
      BY <1>1, <3>2
    <3>. QED
      BY <2>2, <3>2, <3>3 DEF MovesOn
  <2>. QED
    BY <2>1, <2>2
<1>4. CASE w \notin LiveCalls /\ CallEnds(w)
  <2>1. worker'[w] = IdleWorker /\ \A v \in Workers : v # w => worker'[v] = worker[v]
    BY <1>1, <1>4 DEF CallEnds
  <2>. QED
    BY <1>4, <2>1 DEF IdleWorker, MovesOn
<1>. QED
  BY <1>2, <1>3, <1>4

(* The invariant over a step that enqueues nothing.                        *)
LEMMA EnqueueStep ==
  ASSUME DeliveryQueueAssumption, EnqueueInv, NEW w \in Workers, MovesOn(w),
         \A e \in Entries : "persisted" \in did'[e] <=> "persisted" \in did[e],
         \A e \in Entries : json'[e] # Absent => json[e] # Absent \/ worker[w].read[e] # Absent
  PROVE  EnqueueInv'
<1>1. \A v \in LiveCalls : v \in Workers /\ EntryOf[v] \in Entries
  BY DEF Workers, DeliveryQueueAssumption
<1>2. \A e \in Entries : json'[e] # Absent => "persisted" \in did'[e]
  BY DEF EnqueueInv
<1>3. \A v \in Workers : \A e \in Entries : worker'[v].read[e] # Absent => "persisted" \in did'[e]
  BY DEF EnqueueInv, MovesOn
<1>4. ASSUME NEW v \in LiveCalls
      PROVE  /\ worker'[v].stage \in {"idle", "enqueueing"} => "persisted" \notin did'[EntryOf[v]]
             /\ worker'[v].stage = "enqueueing" => worker'[v].entry = EntryOf[v]
  <2>1. CASE v = w
    BY <2>1 DEF MovesOn
  <2>2. CASE v # w
    BY <1>1, <2>2 DEF MovesOn, EnqueueInv
  <2>. QED
    BY <2>1, <2>2
<1>. QED
  BY <1>2, <1>3, <1>4 DEF EnqueueInv

(* A step that neither writes, removes nor sends anything is none of the    *)
(* abstract queue.                                                         *)
LEMMA QuietServes ==
  ASSUME DeliveryQueueAssumption, EnqueueInv, NEW w \in Workers, MovesOn(w), UNCHANGED <<json, failed, did>>
  PROVE  ServesQueue
<1>1. EnqueueInv'
  BY EnqueueStep
<1>2. UNCHANGED AtLeastOnce!queueVars
  BY DEF AtLeastOnce!queueVars
<1>. QED
  BY <1>1, <1>2 DEF ServesQueue

LEMMA StepServes ==
  ASSUME EnqueueInv', NEW e \in Entries,
         \/ AtLeastOnce!Accept(e) \/ AtLeastOnce!Settle(e) \/ AtLeastOnce!Remove(e)
         \/ AtLeastOnce!SetAside(e) \/ AtLeastOnce!Return(e)
  PROVE  ServesQueue
<1>1. AtLeastOnce!QueueNext
  BY DEF AtLeastOnce!QueueNext
<1>. QED
  BY <1>1 DEF ServesQueue

(* A send, or the sender's giving up, settles the entry.                   *)
LEMMA SettleServes ==
  ASSUME DeliveryQueueAssumption, QueueInv, EnqueueInv, NEW w \in Workers, MovesOn(w), UNCHANGED <<json, failed>>,
         NEW e \in Entries, NEW event \in {"sent", "aborted"}, Happens(e, event)
  PROVE  ServesQueue
<1>1. \A f \in Entries : did'[f] = IF f = e THEN did[e] \cup {event} ELSE did[f]
  <2>1. FileTypes /\ event \in Events
    BY DEF QueueInv, Events
  <2>. QED
    BY <2>1, HappensFacts
<1>2. EnqueueInv'
  BY <1>1, EnqueueStep
<1>3. AtLeastOnce!Settle(e)
  <2>1. \A f \in Entries : "persisted" \in did'[f] <=> "persisted" \in did[f]
    BY <1>1
  <2>2. \A f \in Entries : did'[f] \cap {"sent", "aborted"} # {} <=> f = e \/ did[f] \cap {"sent", "aborted"} # {}
    BY <1>1
  <2>3. {f \in Entries : did[f] \cap {"sent", "aborted"} # {}}' = {f \in Entries : did[f] \cap {"sent", "aborted"} # {}} \cup {e}
    BY <2>2
  <2>. QED
    BY <2>1, <2>3 DEF AtLeastOnce!Settle
<1>. QED
  BY <1>2, <1>3, StepServes

LEMMA LiveCallServes ==
  ASSUME DeliveryQueueAssumption, QueueInv, EnqueueInv, NEW w \in Workers, LiveCall(w)
  PROVE  ServesQueue
<1>1. /\ w \in LiveCalls /\ worker[w].stage = "idle" /\ UNCHANGED <<json, failed, did>>
      /\ worker' = [worker EXCEPT ![w].stage = "enqueueing", ![w].entry = EntryOf[w]]
  BY DEF LiveCall, At, files, history
<1>2. /\ \A v \in Workers : v # w => worker'[v] = worker[v]
      /\ worker'[w].stage = "enqueueing" /\ worker'[w].entry = EntryOf[w] /\ worker'[w].read = worker[w].read
  BY <1>1, ReadFacts DEF WorkerStates
<1>3. \A v \in LiveCalls : v \in Workers
  BY DEF Workers
<1>4. EnqueueInv'
  <2>1. \A e \in Entries : json'[e] # Absent => "persisted" \in did'[e]
    BY <1>1 DEF EnqueueInv
  <2>2. \A v \in Workers : \A e \in Entries : worker'[v].read[e] # Absent => "persisted" \in did'[e]
    <3>1. \A v \in Workers : worker'[v].read = worker[v].read
      BY <1>2
    <3>. QED
      BY <1>1, <3>1 DEF EnqueueInv
  <2>3. ASSUME NEW v \in LiveCalls
        PROVE  /\ worker'[v].stage \in {"idle", "enqueueing"} => "persisted" \notin did'[EntryOf[v]]
               /\ worker'[v].stage = "enqueueing" => worker'[v].entry = EntryOf[v]
    <3>1. CASE v = w
      BY <1>1, <1>2, <3>1 DEF EnqueueInv
    <3>2. CASE v # w
      <4>1. worker'[v] = worker[v]
        BY <1>2, <1>3, <3>2
      <4>. QED
        BY <1>1, <4>1 DEF EnqueueInv
    <3>. QED
      BY <3>1, <3>2
  <2>. QED
    BY <2>1, <2>2, <2>3 DEF EnqueueInv
<1>5. UNCHANGED AtLeastOnce!queueVars
  BY <1>1 DEF AtLeastOnce!queueVars
<1>. QED
  BY <1>4, <1>5 DEF ServesQueue

(* An entry that is written for the first time is accepted.                *)
LEMMA EnqueueServes ==
  ASSUME DeliveryQueueAssumption, QueueInv, EnqueueInv, NEW w \in Workers, EnqueueDelivery(w),
         NEW e \in Entries, worker[w].entry = e
  PROVE  ServesQueue
<1>1. /\ worker[w].stage = "enqueueing" /\ UNCHANGED failed
      /\ \/ json' = [json EXCEPT ![e] = 0] /\ Happens(e, "persisted") /\ Goes(w, "sending")
         \/ Goes(w, "sendingUnqueued") /\ UNCHANGED <<json, did>>
  BY DEF EnqueueDelivery, At
<1>2. e \in Entries /\ w \in LiveCalls /\ FileTypes /\ json \in [Entries -> Counts]
  BY <1>1 DEF QueueInv, ClaimsInv, WorkersOK, WorkerOK, ActingStages, FileTypes
<1>3. e = EntryOf[w] /\ "persisted" \notin did[e]
  BY <1>1, <1>2 DEF EnqueueInv
<1>4. MovesOn(w) /\ \A f \in Entries : worker'[w].read[f] # Absent => worker[w].read[f] # Absent
  BY <1>1, <1>2, MovesOnFacts DEF Stages
<1>5. CASE json' = [json EXCEPT ![e] = 0] /\ Happens(e, "persisted")
  <2>1. \A f \in Entries : did'[f] = IF f = e THEN did[e] \cup {"persisted"} ELSE did[f]
    BY <1>2, <1>5, HappensFacts DEF Events
  <2>2. \A f \in Entries : json'[f] # Absent <=> f = e \/ json[f] # Absent
    BY <1>2, <1>5 DEF Absent
  <2>3. EnqueueInv'
    <3>1. \A f \in Entries : json'[f] # Absent => "persisted" \in did'[f]
      BY <2>1, <2>2 DEF EnqueueInv
    <3>2. \A v \in Workers : \A f \in Entries : worker'[v].read[f] # Absent => "persisted" \in did'[f]
      BY <1>4, <2>1 DEF EnqueueInv, MovesOn
    <3>3. ASSUME NEW v \in LiveCalls
          PROVE  /\ worker'[v].stage \in {"idle", "enqueueing"} => "persisted" \notin did'[EntryOf[v]]
                 /\ worker'[v].stage = "enqueueing" => worker'[v].entry = EntryOf[v]
      <4>1. CASE v = w
        BY <1>2, <1>4, <4>1 DEF MovesOn
      <4>2. CASE v # w
        <5>1. EntryOf[v] \in Entries /\ EntryOf[v] # e /\ v \in Workers
          BY <1>2, <1>3, <4>2 DEF DeliveryQueueAssumption, Workers
        <5>. QED
          BY <1>4, <2>1, <4>2, <5>1 DEF MovesOn, EnqueueInv
      <4>. QED
        BY <4>1, <4>2
    <3>. QED
      BY <3>1, <3>2, <3>3 DEF EnqueueInv
  <2>4. AtLeastOnce!Accept(e)
    <3>1. {f \in Entries : "persisted" \in did[f]}' = {f \in Entries : "persisted" \in did[f]} \cup {e}
      BY <1>2, <2>1
    <3>2. {f \in Entries : json[f] # Absent}' = {f \in Entries : json[f] # Absent} \cup {e}
      BY <1>2, <2>2
    <3>3. \A f \in Entries : did'[f] \cap {"sent", "aborted"} # {} <=> did[f] \cap {"sent", "aborted"} # {}
      BY <2>1
    <3>. QED
      BY <1>1, <1>3, <3>1, <3>2, <3>3 DEF AtLeastOnce!Accept
  <2>. QED
    BY <1>2, <2>3, <2>4, StepServes
<1>6. CASE UNCHANGED <<json, did>>
  BY <1>1, <1>4, <1>6, QuietServes
<1>. QED
  BY <1>1, <1>5, <1>6

LEMMA SendingServes ==
  ASSUME DeliveryQueueAssumption, QueueInv, EnqueueInv, NEW w \in Workers, Sending(w)
  PROVE  ServesQueue
<1>1. /\ worker[w].stage \in {"sending", "sendingUnqueued"} /\ UNCHANGED <<json, failed>>
      /\ EntryDone(w) \/ \E stage \in {"marking", "failing", "moving"} : Goes(w, stage)
      /\ UNCHANGED did \/ \E event \in {"sent", "aborted"} : Happens(worker[w].entry, event)
  BY DEF Sending, SendSucceeds, SendPartly, LiveSendThrows, ReplayThrows, Sent, At, files, history
<1>2. worker[w].entry \in Entries
  BY <1>1, ActingFacts DEF ActingStages
<1>3. {"marking", "failing", "moving"} \subseteq Stages \ {"idle", "enqueueing"}
  BY DEF Stages
<1>4. MovesOn(w)
  BY <1>1, <1>3, MovesOnFacts
<1>. QED
  BY <1>1, <1>2, <1>4, QuietServes, SettleServes

(* The rename of a delivery that was settled, or that may be lost, removes *)
(* it.                                                                     *)
LEMMA AckServes ==
  ASSUME DeliveryQueueAssumption, QueueInv, EnqueueInv, NEW w \in Workers, AckRenames(w),
         NEW e \in Entries, worker[w].entry = e
  PROVE  ServesQueue
<1>1. /\ worker[w].stage = "marking" /\ Goes(w, "unmarking") /\ UNCHANGED failed
      /\ \/ json[e] # Absent /\ json' = [json EXCEPT ![e] = Absent] /\ Happens(e, "acked")
         \/ UNCHANGED <<json, did>>
  BY DEF AckRenames, At
<1>2. e \in Entries /\ FileTypes /\ json \in [Entries -> Counts]
  BY <1>1, ActingFacts DEF ActingStages, FileTypes, Counts
<1>3. MovesOn(w)
  BY <1>1, MovesOnFacts DEF Stages
<1>4. CASE json[e] # Absent /\ json' = [json EXCEPT ![e] = Absent] /\ Happens(e, "acked")
  <2>1. \A f \in Entries : did'[f] = IF f = e THEN did[e] \cup {"acked"} ELSE did[f]
    BY <1>2, <1>4, HappensFacts DEF Events
  <2>2. \A f \in Entries : json'[f] # Absent <=> f # e /\ json[f] # Absent
    BY <1>2, <1>4
  <2>3. EnqueueInv'
    BY <1>3, <2>1, <2>2, EnqueueStep
  <2>4. e \in BestEffort \/ did[e] \cap {"sent", "aborted"} # {}
    BY <1>1 DEF QueueInv, MarkedWereTold, Told
  <2>5. AtLeastOnce!Remove(e)
    <3>1. {f \in Entries : json[f] # Absent}' = {f \in Entries : json[f] # Absent} \ {e}
      BY <2>2
    <3>2. \A f \in Entries :
            /\ "persisted" \in did'[f] <=> "persisted" \in did[f]
            /\ did'[f] \cap {"sent", "aborted"} # {} <=> did[f] \cap {"sent", "aborted"} # {}
      BY <2>1
    <3>. QED
      BY <1>1, <1>2, <1>4, <2>4, <3>1, <3>2 DEF AtLeastOnce!Remove
  <2>. QED
    BY <1>2, <2>3, <2>5, StepServes
<1>5. CASE UNCHANGED <<json, did>>
  BY <1>1, <1>3, <1>5, QuietServes
<1>. QED
  BY <1>1, <1>4, <1>5

(* A read of an entry for a later write. *)
LEMMA ReadServes ==
  ASSUME DeliveryQueueAssumption, QueueInv, EnqueueInv, NEW w \in Workers,
         FailReads(w) \/ \E e \in Entries : DeferReads(w, e)
  PROVE  ServesQueue
<1>1. /\ UNCHANGED <<json, failed, did>> /\ worker[w].stage \in {"failing", "deferring"}
      /\ \/ EntryDone(w)
         \/ \E e \in Entries, todo \in SUBSET Entries :
              worker' = [worker EXCEPT ![w].todo = todo, ![w].read[e] = json[e]]
         \/ worker' = [worker EXCEPT ![w].read[worker[w].entry] = json[worker[w].entry]]
  <2>1. worker[w].todo \subseteq Entries
    BY ReadFacts
  <2>2. \A e \in Entries : worker[w].todo \ {e} \in SUBSET Entries
    BY <2>1
  <2>. QED
    BY <2>2 DEF FailReads, DeferReads, At, files, history
<1>2. /\ worker[w] \in WorkerStates /\ worker \in [Workers -> WorkerStates]
      /\ worker[w].read \in [Entries -> Counts]
  BY ReadFacts
<1>3. CASE EntryDone(w)
  BY <1>1, <1>3, MovesOnFacts, QuietServes
<1>4. ASSUME NEW e, worker'[w].stage = worker[w].stage,
             worker'[w].read = [worker[w].read EXCEPT ![e] = json[e]],
             \A v \in Workers : v # w => worker'[v] = worker[v]
      PROVE  ServesQueue
  <2>1. \A f \in Entries : worker'[w].read[f] # Absent => worker[w].read[f] # Absent \/ json[f] # Absent
    BY <1>2, <1>4
  <2>2. MovesOn(w)
    BY <1>1, <1>4, <2>1 DEF MovesOn
  <2>. QED
    BY <1>1, <2>2, QuietServes
<1>5. ASSUME NEW e \in Entries, NEW todo \in SUBSET Entries,
             worker' = [worker EXCEPT ![w].todo = todo, ![w].read[e] = json[e]]
      PROVE  ServesQueue
  <2>1. /\ worker'[w].stage = worker[w].stage /\ worker'[w].read = [worker[w].read EXCEPT ![e] = json[e]]
        /\ \A v \in Workers : v # w => worker'[v] = worker[v]
    BY <1>2, <1>5 DEF WorkerStates
  <2>. QED
    BY <1>4, <2>1
<1>6. CASE worker' = [worker EXCEPT ![w].read[worker[w].entry] = json[worker[w].entry]]
  <2>1. /\ worker'[w].stage = worker[w].stage
        /\ worker'[w].read = [worker[w].read EXCEPT ![worker[w].entry] = json[worker[w].entry]]
        /\ \A v \in Workers : v # w => worker'[v] = worker[v]
    BY <1>2, <1>6 DEF WorkerStates
  <2>. QED
    BY <1>4, <2>1
<1>. QED
  BY <1>1, <1>3, <1>5, <1>6

(* An entry that is written back has not left, or returns.                 *)
LEMMA WriteBackServes ==
  ASSUME DeliveryQueueAssumption, QueueInv, EnqueueInv, NEW w \in Workers, MovesOn(w), UNCHANGED <<failed, did>>,
         NEW e \in Entries, worker[w].read[e] # Absent,
         json' = [json EXCEPT ![e] = Bumped(worker[w].read[e])],
         ClaimedWrites => json[e] # Absent
  PROVE  ServesQueue
<1>1. Bumped(worker[w].read[e]) # Absent /\ json \in [Entries -> Counts]
  BY ReadFacts
<1>2. \A f \in Entries : json'[f] # Absent <=> f = e \/ json[f] # Absent
  BY <1>1
<1>3. EnqueueInv'
  BY <1>2, EnqueueStep
<1>4. {f \in Entries : json[f] # Absent}' = {f \in Entries : json[f] # Absent} \cup {e}
  BY <1>2
<1>5. CASE ClaimedWrites
  <2>1. UNCHANGED AtLeastOnce!queueVars
    BY <1>4, <1>5 DEF AtLeastOnce!queueVars
  <2>. QED
    BY <1>3, <2>1 DEF ServesQueue
<1>6. CASE ~ClaimedWrites
  <2>1. "persisted" \in did[e]
    BY DEF EnqueueInv
  <2>2. AtLeastOnce!Return(e)
    BY <1>4, <1>6, <2>1 DEF AtLeastOnce!Return, ClaimedWrites
  <2>. QED
    BY <1>3, <2>2, StepServes
<1>. QED
  BY <1>5, <1>6

LEMMA FailWritesServes ==
  ASSUME DeliveryQueueAssumption, QueueInv, EnqueueInv, WritesClaimed, NEW w \in Workers, FailWrites(w)
  PROVE  ServesQueue
<1>. DEFINE e == worker[w].entry
<1>1. /\ worker[w].stage = "failing" /\ worker[w].read[e] # Absent /\ EntryDone(w) /\ UNCHANGED <<failed, did>>
      /\ json' = [json EXCEPT ![e] = Bumped(worker[w].read[e])] \/ UNCHANGED json
  BY DEF FailWrites, At, history
<1>2. e \in Entries
  BY <1>1, ActingFacts DEF ActingStages
<1>3. MovesOn(w)
  BY <1>1, MovesOnFacts
<1>4. ClaimedWrites => json[e] # Absent
  BY <1>1, <1>2 DEF WritesClaimed, AckInv, ReadOK
<1>. QED
  BY <1>1, <1>2, <1>3, <1>4, QuietServes, WriteBackServes

LEMMA DeferWritesServes ==
  ASSUME DeliveryQueueAssumption, QueueInv, EnqueueInv, WritesClaimed, NEW w \in Workers, NEW e \in Entries,
         DeferWrites(w, e)
  PROVE  ServesQueue
<1>1. /\ worker[w].stage = "deferring" /\ worker[w].read[e] # Absent /\ UNCHANGED <<failed, did>>
      /\ json' = [json EXCEPT ![e] = Bumped(worker[w].read[e])]
      /\ worker' = [worker EXCEPT ![w].read[e] = Absent]
  BY DEF DeferWrites, At, history
<1>2. /\ worker[w] \in WorkerStates /\ worker \in [Workers -> WorkerStates]
      /\ worker[w].read \in [Entries -> Counts]
  BY ReadFacts
<1>3. /\ \A v \in Workers : v # w => worker'[v] = worker[v]
      /\ worker'[w].stage = "deferring" /\ worker'[w].read = [worker[w].read EXCEPT ![e] = Absent]
  BY <1>1, <1>2 DEF WorkerStates
<1>4. MovesOn(w)
  BY <1>2, <1>3 DEF MovesOn
<1>5. ~ClaimedWrites
  BY <1>1 DEF WritesClaimed, AckInv, ReadOK
<1>. QED
  BY <1>1, <1>4, <1>5, WriteBackServes

LEMMA MoveServes ==
  ASSUME DeliveryQueueAssumption, QueueInv, EnqueueInv, NEW w \in Workers, MoveToFailed(w),
         NEW e \in Entries, worker[w].entry = e
  PROVE  ServesQueue
<1>1. /\ worker[w].stage = "moving" /\ EntryDone(w) /\ UNCHANGED did
      /\ \/ json[e] # Absent /\ json' = [json EXCEPT ![e] = Absent] /\ failed' = failed \cup {e}
         \/ UNCHANGED <<json, failed>>
  BY DEF MoveToFailed, At, history
<1>2. e \in Entries /\ json \in [Entries -> Counts]
  BY <1>1, ActingFacts, ReadFacts DEF ActingStages
<1>3. MovesOn(w)
  BY <1>1, MovesOnFacts
<1>4. CASE json[e] # Absent /\ json' = [json EXCEPT ![e] = Absent] /\ failed' = failed \cup {e}
  <2>1. \A f \in Entries : json'[f] # Absent <=> f # e /\ json[f] # Absent
    BY <1>2, <1>4
  <2>2. EnqueueInv'
    BY <1>1, <1>3, <2>1, EnqueueStep
  <2>3. {f \in Entries : json[f] # Absent}' = {f \in Entries : json[f] # Absent} \ {e}
    BY <2>1
  <2>4. AtLeastOnce!SetAside(e)
    BY <1>1, <1>2, <1>4, <2>3 DEF AtLeastOnce!SetAside
  <2>. QED
    BY <1>2, <2>2, <2>4, StepServes
<1>5. CASE UNCHANGED <<json, failed>>
  BY <1>1, <1>3, <1>5, QuietServes
<1>. QED
  BY <1>1, <1>4, <1>5

LEMMA StoringServes ==
  ASSUME DeliveryQueueAssumption, QueueInv, EnqueueInv, WritesClaimed, NEW w \in Workers, Storing(w)
  PROVE  ServesQueue
<1>1. CASE AckFails(w) \/ AckUnlinks(w) \/ MoveFails(w)
  <2>1. /\ UNCHANGED <<json, failed, did>>
        /\ \/ EntryDone(w)
           \/ w \notin LiveCalls /\ Goes(w, "failing")
           \/ w \notin LiveCalls /\ CallEnds(w)
    BY <1>1, WorkerKinds DEF AckFails, AckUnlinks, MoveFails, files, history
  <2>2. MovesOn(w)
    BY <2>1, MovesOnFacts DEF Stages
  <2>. QED
    BY <2>1, <2>2, QuietServes
<1>2. CASE EnqueueDelivery(w) \/ AckRenames(w) \/ MoveToFailed(w)
  <2>1. worker[w].stage \in ActingStages
    BY <1>2 DEF EnqueueDelivery, AckRenames, MoveToFailed, At, ActingStages
  <2>2. PICK e \in Entries : worker[w].entry = e
    BY <2>1, ActingFacts
  <2>. QED
    BY <1>2, <2>2, EnqueueServes, AckServes, MoveServes
<1>. QED
  BY <1>1, <1>2, ReadServes, FailWritesServes DEF Storing

LEMMA RecoveringServes ==
  ASSUME DeliveryQueueAssumption, QueueInv, EnqueueInv, WritesClaimed, NEW w \in Workers,
         RecoveryStarts(w) \/ DrainStarts(w) \/ Recovering(w)
  PROVE  ServesQueue
<1>1. WorkerOK(w, worker[w]) /\ worker[w] \in WorkerStates /\ worker \in [Workers -> WorkerStates]
  BY DEF QueueInv, ClaimsInv, WorkersOK
<1>2. CASE LoadPendingDeliveries(w) \/ ClaimRecoveryEntry(w)
  <2>1. UNCHANGED <<json, failed, did>> /\ w \notin LiveCalls
    BY <1>1, <1>2 DEF LoadPendingDeliveries, ClaimRecoveryEntry, At, files, history, WorkerOK, LiveStages
  <2>2. (\A v \in Workers : v # w => worker'[v] = worker[v]) /\ worker'[w].read = worker[w].read
    BY <1>1, <1>2 DEF LoadPendingDeliveries, ClaimRecoveryEntry, WorkerStates
  <2>3. MovesOn(w)
    BY <2>1, <2>2 DEF MovesOn
  <2>. QED
    BY <2>1, <2>3, QuietServes
<1>3. CASE \/ RecoveryStarts(w) \/ DrainStarts(w) \/ LoadPendingDelivery(w) \/ LoadFails(w)
           \/ AllProcessed(w) \/ BudgetExceeded(w)
  <2>1. w \notin LiveCalls
    BY <1>1, <1>3, WorkerKinds DEF RecoveryStarts, DrainStarts, LoadPendingDelivery, LoadFails, AllProcessed,
      BudgetExceeded, At, WorkerOK, LiveStages
  <2>2. /\ UNCHANGED <<json, failed, did>>
        /\ \/ \E stage \in {"loading", "moving", "sending", "deferring"} : Goes(w, stage)
           \/ EntryDone(w)
           \/ CallEnds(w)
    BY <1>3 DEF RecoveryStarts, DrainStarts, LoadPendingDelivery, LoadFails, AllProcessed, BudgetExceeded,
      files, history
  <2>3. {"loading", "moving", "sending", "deferring"} \subseteq Stages
    BY DEF Stages
  <2>4. MovesOn(w)
    BY <2>1, <2>2, <2>3, MovesOnFacts
  <2>. QED
    BY <2>2, <2>4, QuietServes
<1>4. CASE DeferEnds(w)
  <2>1. /\ worker'[w] = IdleWorker /\ \A v \in Workers : v # w => worker'[v] = worker[v]
        /\ UNCHANGED <<json, failed, did>> /\ worker[w].stage = "deferring"
    BY <1>1, <1>4 DEF DeferEnds, At, files, history
  <2>2. w \notin LiveCalls
    BY <1>1, <2>1 DEF WorkerOK, LiveStages
  <2>3. MovesOn(w)
    BY <2>1, <2>2 DEF MovesOn, IdleWorker
  <2>. QED
    BY <2>1, <2>3, QuietServes
<1>. QED
  BY <1>2, <1>3, <1>4, ReadServes, DeferWritesServes DEF Recovering

(* A crash leaves the files, and no call that would enqueue again.         *)
LEMMA CrashServes ==
  ASSUME DeliveryQueueAssumption, QueueInv, EnqueueInv, Crash
  PROVE  ServesQueue
<1>1. UNCHANGED <<json, failed, did>>
  BY DEF Crash, files
<1>2. ASSUME NEW v \in Workers
      PROVE  /\ worker'[v] = worker[v] \/ worker'[v].read = [e \in Entries |-> Absent]
             /\ v \in LiveCalls /\ worker'[v].stage \in {"idle", "enqueueing"} => worker'[v] = worker[v]
  <2>1. worker'[v] \in {worker[v], IdleWorker, [IdleWorker EXCEPT !.stage = "dead"]}
    BY DEF Crash
  <2>2. v \in LiveCalls => worker'[v] \in {worker[v], [IdleWorker EXCEPT !.stage = "dead"]}
    BY DEF Crash
  <2>3. /\ [IdleWorker EXCEPT !.stage = "dead"].stage = "dead"
        /\ [IdleWorker EXCEPT !.stage = "dead"].read = [e \in Entries |-> Absent]
        /\ IdleWorker.read = [e \in Entries |-> Absent]
    BY DEF IdleWorker
  <2>. QED
    BY <2>1, <2>2, <2>3
<1>3. LiveCalls \subseteq Workers
  BY DEF Workers
<1>4. EnqueueInv'
  BY <1>1, <1>2, <1>3 DEF EnqueueInv
<1>5. UNCHANGED AtLeastOnce!queueVars
  BY <1>1 DEF AtLeastOnce!queueVars
<1>. QED
  BY <1>4, <1>5 DEF ServesQueue

LEMMA QueueBegins ==
  ASSUME DeliveryQueueAssumption, Init
  PROVE  EnqueueInv /\ AtLeastOnce!QueueInit
<1>1. /\ \A e \in Entries : json[e] # Absent <=> e \in Orphans
      /\ did = [e \in Entries |-> IF e \in Orphans THEN {"persisted"} ELSE {}]
      /\ worker = [w \in Workers |-> IdleWorker] /\ failed = {}
  BY DEF Init
<1>2. \A e \in Entries : ("persisted" \in did[e] <=> e \in Orphans) /\ did[e] \cap {"sent", "aborted"} = {}
  BY <1>1
<1>3. EnqueueInv
  <2>1. \A w \in LiveCalls : EntryOf[w] \in Entries \ Orphans /\ w \in Workers
    BY DEF DeliveryQueueAssumption, Workers
  <2>2. \A w \in Workers : worker[w].stage = "idle" /\ worker[w].read = [e \in Entries |-> Absent]
    BY <1>1 DEF IdleWorker
  <2>. QED
    BY <1>1, <1>2, <2>1, <2>2 DEF EnqueueInv
<1>4. Orphans \subseteq Entries
  BY DEF DeliveryQueueAssumption
<1>5. AtLeastOnce!QueueInit
  BY <1>1, <1>2, <1>4 DEF AtLeastOnce!QueueInit
<1>. QED
  BY <1>3, <1>5

LEMMA QueueStep ==
  ASSUME DeliveryQueueAssumption, QueueInv, EnqueueInv, WritesClaimed, [Next]_vars
  PROVE  ServesQueue
<1>1. CASE Next
  BY <1>1, LiveCallServes, SendingServes, StoringServes, RecoveringServes, CrashServes DEF Next
<1>2. CASE UNCHANGED vars
  <2>1. UNCHANGED <<json, failed, did, worker>>
    BY <1>2 DEF vars, files, history
  <2>2. EnqueueInv'
    BY <2>1 DEF EnqueueInv
  <2>3. UNCHANGED AtLeastOnce!queueVars
    BY <2>1 DEF AtLeastOnce!queueVars
  <2>. QED
    BY <2>2, <2>3 DEF ServesQueue
<1>. QED
  BY <1>1, <1>2

LEMMA WritesClaimedAlways == Spec => []WritesClaimed
<1>1. CASE ClaimedWrites
  <2>1. AckInv => WritesClaimed
    BY DEF WritesClaimed
  <2>. QED
    BY <1>1, <2>1, AckInvAlways, PTL
<1>2. CASE ~ClaimedWrites
  <2>1. WritesClaimed
    BY <1>2 DEF WritesClaimed
  <2>. QED
    BY <2>1, PTL
<1>. QED
  BY <1>1, <1>2

(* The write-ahead queue is an at-least-once queue: whatever crashes, I/O   *)
(* errors and races between live calls, recoveries and drains, an accepted  *)
(* delivery stays pending until it was sent or given up, or is set aside;   *)
(* and without live calls and deferrals nothing that left it is written     *)
(* back.                                                                   *)
THEOREM QueueImplementsAtLeastOnce == Spec => DeliversAtLeastOnce
<1>1. Init => EnqueueInv /\ AtLeastOnce!QueueInit
  BY QueueBegins, DeliveryQueueAssumption
<1>2. QueueInv /\ EnqueueInv /\ WritesClaimed /\ [Next]_vars
        => EnqueueInv' /\ [AtLeastOnce!QueueNext]_(AtLeastOnce!queueVars)
  BY QueueStep, DeliveryQueueAssumption DEF ServesQueue
<1>. QED
  BY <1>1, <1>2, QueueInvAlways, WritesClaimedAlways, PTL DEF Spec, DeliversAtLeastOnce, AtLeastOnce!QueueSpec
=============================================================================
