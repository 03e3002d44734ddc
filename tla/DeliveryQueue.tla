---------------------------- MODULE DeliveryQueue ----------------------------
(***************************************************************************)
(* The write-ahead queue of outbound messages                              *)
(* (src/infra/outbound/delivery-queue-storage.ts and -recovery.ts, with    *)
(* the wrapper deliverOutboundPayloads of deliver.ts): a file per message, *)
(* written before the send and removed after it, replayed by a recovery at *)
(* startup and by drains when a channel reconnects.                        *)
(*                                                                         *)
(* Every file operation and every send is awaited, so live calls,          *)
(* recoveries and drains of a process interleave between them; the crash   *)
(* of the process leaves the files.  A worker is one call.  An entry is    *)
(* its place in the order of enqueuedAt.  A file is its retryCount,        *)
(* saturated at MaxRetries since the code only tests >=; a backoff that    *)
(* has elapsed or not is a choice, as is the outcome of a send.            *)
(* Legacy and malformed files are left out.                                *)
(***************************************************************************)
EXTENDS Integers, FiniteSets

CONSTANTS Entries,       \* queued deliveries, numbered by enqueuedAt
          Orphans,       \* those a previous process left on disk
          BestEffort,    \* those sent with bestEffort
          LiveCalls,     \* calls of deliverOutboundPayloads,
          EntryOf,       \*   and the entry of each
          Recoveries,    \* calls of recoverPendingDeliveries
          Drains,        \* calls of drainPendingDeliveries,
          KeyOf,         \*   the drainKey of each
          Matching,      \*   and the entries its selectEntry matches
          MaxRetries,    \* MAX_RETRIES
          BudgetExpires, \* may a recovery exceed maxRecoveryMs?
          IoErrors,      \* may a file operation fail?
          MaxCrashes,    \* bound on the crashes
          CountReplays   \* are sentThisLife and failures kept?

Workers == LiveCalls \cup Recoveries \cup Drains

ASSUME DeliveryQueueAssumption ==
  /\ Entries \subseteq Nat \ {0} /\ IsFiniteSet(Entries)
  /\ Orphans \subseteq Entries /\ BestEffort \subseteq Entries
  /\ EntryOf \in [LiveCalls -> Entries \ Orphans]
  /\ \A v, w \in LiveCalls : EntryOf[v] = EntryOf[w] => v = w
  /\ Matching \in [Drains -> SUBSET Entries]
  /\ LiveCalls \cap (Recoveries \cup Drains) = {} /\ Recoveries \cap Drains = {}
  /\ MaxRetries \in Nat \ {0} /\ MaxCrashes \in Nat
  /\ BudgetExpires \in BOOLEAN /\ IoErrors \in BOOLEAN /\ CountReplays \in BOOLEAN

VARIABLES
  json,              \* per entry: the retryCount in {id}.json, or Absent
  marker,            \* entries with a file {id}.delivered
  failed,            \* entries with a file failed/{id}.json
  worker,            \* per worker: see WorkerStates
  entriesInProgress,
  drainInProgress,
  crashes,
  \* History:
  did,               \* per entry: which of Events have happened
  sentThisLife,      \* per entry: sends completed by this process, up to 2
  failures           \* per entry: failed attempts of recoveries and drains

files == <<json, marker, failed>>
claims == <<entriesInProgress, drainInProgress>>
history == <<did, sentThisLife, failures>>
vars == <<files, worker, claims, crashes, history>>

Absent == -1
NoEntry == 0
Stages == {"idle", "enqueueing", "sendingUnqueued", "sending", "marking", "unmarking",
           "failing", "moving", "loading", "next", "claimed", "deferring", "done", "dead"}

LiveStages == {"idle", "enqueueing", "sendingUnqueued", "sending", "marking", "unmarking",
               "failing", "done", "dead"}

(* entry: the current one; todo: the entries of the snapshot that are left; *)
(* read: per entry, the retryCount failDelivery has read and not yet       *)
(* written back.                                                           *)
WorkerStates == [stage : Stages, entry : Entries \cup {NoEntry}, todo : SUBSET Entries,
                 read : [Entries -> {Absent} \cup 0..MaxRetries]]
IdleWorker == [stage |-> "idle", entry |-> NoEntry, todo |-> {},
               read |-> [e \in Entries |-> Absent]]
Events == {"persisted", "sent", "aborted", "acked"}

(* Enough to tell an entry that was attempted too often. *)
AttemptsCap == MaxRetries + MaxCrashes + 1

TypeOK ==
  /\ json \in [Entries -> {Absent} \cup 0..MaxRetries]
  /\ marker \subseteq Entries /\ failed \subseteq Entries
  /\ worker \in [Workers -> WorkerStates]
  /\ \A w \in LiveCalls : worker[w].stage \in LiveStages
  /\ entriesInProgress \subseteq Entries
  /\ drainInProgress \subseteq {KeyOf[w] : w \in Drains}
  /\ crashes \in 0..MaxCrashes
  /\ did \in [Entries -> SUBSET Events]
  /\ sentThisLife \in [Entries -> 0..2]
  /\ failures \in [Entries -> 0..AttemptsCap]

Init ==
  /\ json \in [Entries -> {Absent} \cup 0..MaxRetries]
  /\ \A e \in Entries : json[e] # Absent <=> e \in Orphans
  /\ marker = {} /\ failed = {}
  /\ worker = [w \in Workers |-> IdleWorker]
  /\ entriesInProgress = {} /\ drainInProgress = {}
  /\ crashes = 0
  /\ did = [e \in Entries |-> IF e \in Orphans THEN {"persisted"} ELSE {}]
  /\ sentThisLife = [e \in Entries |-> 0]
  /\ failures = [e \in Entries |-> 0]

-----------------------------------------------------------------------------
First(S) == CHOOSE e \in S : \A f \in S : e <= f
At(w, stage) == worker[w].stage = stage
Bumped(retryCount) == IF retryCount < MaxRetries THEN retryCount + 1 ELSE MaxRetries
Happens(e, event) == did' = [did EXCEPT ![e] = @ \cup {event}]
Goes(w, stage) == worker' = [worker EXCEPT ![w].stage = stage]

(* The call is through with its entry: a live call returns; a recovery or a *)
(* drain releases its claim (releaseRecoveryEntry) and turns to the next.  *)
EntryDone(w) ==
  IF w \in LiveCalls
  THEN /\ worker' = [worker EXCEPT ![w] = [IdleWorker EXCEPT !.stage = "done"]]
       /\ UNCHANGED claims
  ELSE /\ worker' = [worker EXCEPT ![w].stage = "next", ![w].read[worker[w].entry] = Absent]
       /\ entriesInProgress' = entriesInProgress \ {worker[w].entry}
       /\ UNCHANGED drainInProgress

(* The call itself ends, by its end or by an error, through its finally     *)
(* clauses.                                                                *)
CallEnds(w) ==
  /\ worker' = [worker EXCEPT ![w] = IdleWorker]
  /\ drainInProgress' = IF w \in Drains THEN drainInProgress \ {KeyOf[w]} ELSE drainInProgress
  /\ entriesInProgress' = IF worker[w].stage = "next" THEN entriesInProgress
                          ELSE entriesInProgress \ {worker[w].entry}

-----------------------------------------------------------------------------
(* deliverOutboundPayloads, the live call. *)

(* enqueueDelivery stamps enqueuedAt and starts to write. *)
LiveCall(w) ==
  /\ w \in LiveCalls /\ At(w, "idle")
  /\ \A v \in LiveCalls : EntryOf[v] < EntryOf[w] => ~At(v, "idle")
  /\ worker' = [worker EXCEPT ![w].stage = "enqueueing", ![w].entry = EntryOf[w]]
  /\ UNCHANGED <<files, claims, crashes, history>>

(* The entry is on disk, or the call goes on without one. *)
EnqueueDelivery(w) ==
  /\ At(w, "enqueueing")
  /\ \/ /\ json' = [json EXCEPT ![worker[w].entry] = 0]
        /\ Happens(worker[w].entry, "persisted")
        /\ Goes(w, "sending")
     \/ IoErrors /\ Goes(w, "sendingUnqueued") /\ UNCHANGED <<json, did>>
  /\ UNCHANGED <<marker, failed, claims, crashes, sentThisLife, failures>>

Sent(e) ==
  /\ Happens(e, "sent")
  /\ sentThisLife' = [sentThisLife EXCEPT ![e] = IF CountReplays /\ @ < 2 THEN @ + 1 ELSE @]

(* deliverOutboundPayloadsCore has sent everything. *)
SendSucceeds(w) ==
  /\ At(w, "sending") \/ At(w, "sendingUnqueued")
  /\ Sent(worker[w].entry)
  /\ IF At(w, "sending") THEN Goes(w, "marking") /\ UNCHANGED claims ELSE EntryDone(w)
  /\ UNCHANGED <<files, crashes, failures>>

(* Under bestEffort a payload that cannot be sent does not throw: onError   *)
(* is told, if the caller gave one, and the entry is failed; else, as in   *)
(* every replay, it is acked.                                              *)
SendPartly(w, hasOnError) ==
  /\ At(w, "sending") /\ worker[w].entry \in BestEffort
  /\ hasOnError => w \in LiveCalls
  /\ Goes(w, IF hasOnError THEN "failing" ELSE "marking")
  /\ UNCHANGED <<files, claims, crashes, history>>

(* Mutants: every error is acked; an error moves the entry to failed/. *)
LiveSendThrows_AlwaysAcks(w, isAbort) ==
  /\ w \in LiveCalls
  /\ \/ At(w, "sending") /\ Goes(w, "marking") /\ UNCHANGED claims
     \/ At(w, "sendingUnqueued") /\ EntryDone(w)
  /\ IF isAbort THEN Happens(worker[w].entry, "aborted") ELSE UNCHANGED did
  /\ UNCHANGED <<files, crashes, sentThisLife, failures>>
LiveSendThrows_Moves(w, isAbort) ==
  /\ w \in LiveCalls
  /\ \/ /\ At(w, "sending")
        /\ Goes(w, IF isAbort THEN "marking" ELSE "moving")
        /\ UNCHANGED claims
     \/ At(w, "sendingUnqueued") /\ EntryDone(w)
  /\ IF isAbort THEN Happens(worker[w].entry, "aborted") ELSE UNCHANGED did
  /\ UNCHANGED <<files, crashes, sentThisLife, failures>>

(* The live send throws: an abort is acked, any other error failed. *)
LiveSendThrows(w, isAbort) ==
  /\ w \in LiveCalls
  /\ \/ /\ At(w, "sending")
        /\ Goes(w, IF isAbort THEN "marking" ELSE "failing")
        /\ UNCHANGED claims
     \/ At(w, "sendingUnqueued") /\ EntryDone(w)
  /\ IF isAbort THEN Happens(worker[w].entry, "aborted") ELSE UNCHANGED did
  /\ UNCHANGED <<files, crashes, sentThisLife, failures>>

(* The replay throws (drainQueuedEntry): a permanent error moves the entry  *)
(* to failed/, another counts as a retry.                                  *)
ReplayThrows(w, isPermanent) ==
  /\ w \notin LiveCalls /\ At(w, "sending")
  /\ Goes(w, IF isPermanent THEN "moving" ELSE "failing")
  /\ failures' = [failures EXCEPT ![worker[w].entry] = IF CountReplays /\ @ < AttemptsCap THEN @ + 1 ELSE @]
  /\ UNCHANGED <<files, claims, crashes, did, sentThisLife>>

-----------------------------------------------------------------------------
(* The storage operations on the worker's entry. *)

(* ackDelivery, phase 1: {id}.json becomes {id}.delivered; if the json is   *)
(* gone, a leftover marker is unlinked.                                    *)
AckRenames(w) ==
  LET e == worker[w].entry IN
  /\ At(w, "marking")
  /\ IF json[e] # Absent
     THEN /\ json' = [json EXCEPT ![e] = Absent]
          /\ marker' = marker \cup {e}
          /\ Happens(e, "acked")
     ELSE UNCHANGED <<json, marker, did>>
  /\ Goes(w, "unmarking")
  /\ UNCHANGED <<failed, claims, crashes, sentThisLife, failures>>

(* Its error ends a live call; drainQueuedEntry takes it for a failed send. *)
AckFails(w) ==
  /\ IoErrors /\ At(w, "marking")
  /\ IF w \in LiveCalls THEN EntryDone(w) ELSE Goes(w, "failing") /\ UNCHANGED claims
  /\ UNCHANGED <<files, crashes, history>>

(* ackDelivery, phase 2: the marker goes, best effort. *)
AckUnlinks(w) ==
  /\ At(w, "unmarking")
  /\ marker' = marker \ {worker[w].entry} \/ (IoErrors /\ UNCHANGED marker)
  /\ EntryDone(w)
  /\ UNCHANGED <<json, failed, crashes, history>>

(* failDelivery reads the file; if it is gone or unreadable the caller goes *)
(* on ("already-gone", or the error is swallowed).                         *)
FailReads(w) ==
  LET e == worker[w].entry IN
  /\ At(w, "failing") /\ worker[w].read[e] = Absent
  /\ \/ /\ json[e] # Absent
        /\ worker' = [worker EXCEPT ![w].read[e] = json[e]]
        /\ UNCHANGED claims
     \/ (json[e] = Absent \/ IoErrors) /\ EntryDone(w)
  /\ UNCHANGED <<files, crashes, history>>

(* failDelivery writes it back, whatever happened to it since. *)
FailWrites(w) ==
  LET e == worker[w].entry IN
  /\ At(w, "failing") /\ worker[w].read[e] # Absent
  /\ json' = [json EXCEPT ![e] = Bumped(worker[w].read[e])] \/ (IoErrors /\ UNCHANGED json)
  /\ EntryDone(w)
  /\ UNCHANGED <<marker, failed, crashes, history>>

(* moveToFailed; a file that is gone is passed over. *)
MoveToFailed(w) ==
  LET e == worker[w].entry IN
  /\ At(w, "moving")
  /\ IF json[e] # Absent
     THEN json' = [json EXCEPT ![e] = Absent] /\ failed' = failed \cup {e}
     ELSE UNCHANGED <<json, failed>>
  /\ EntryDone(w)
  /\ UNCHANGED <<marker, crashes, history>>

(* An error of moveToFailed is swallowed, except that it ends a drain that  *)
(* was pruning an exhausted entry.                                         *)
MoveFails(w) ==
  /\ IoErrors /\ At(w, "moving")
  /\ \/ EntryDone(w)
     \/ w \in Drains /\ json[worker[w].entry] = MaxRetries /\ CallEnds(w)
  /\ UNCHANGED <<files, crashes, history>>

-----------------------------------------------------------------------------
(* recoverPendingDeliveries and drainPendingDeliveries. *)

RecoveryStarts(w) ==
  /\ w \in Recoveries /\ At(w, "idle")
  /\ Goes(w, "loading")
  /\ UNCHANGED <<files, claims, crashes, history>>

DrainStarts(w) ==
  /\ w \in Drains /\ At(w, "idle")
  /\ KeyOf[w] \notin drainInProgress
  /\ drainInProgress' = drainInProgress \cup {KeyOf[w]}
  /\ Goes(w, "loading")
  /\ UNCHANGED <<files, entriesInProgress, crashes, history>>

(* loadPendingDeliveries: unlink the markers, take the snapshot. *)
LoadPendingDeliveries(w) ==
  LET pending == {e \in Entries : json[e] # Absent} IN
  /\ At(w, "loading")
  /\ marker' = {}
  /\ worker' = [worker EXCEPT ![w].stage = "next",
                  ![w].todo = IF w \in Drains THEN pending \cap Matching[w] ELSE pending]
  /\ UNCHANGED <<json, failed, claims, crashes, history>>

(* Mutant: the claim of another call is not respected. *)
ClaimRecoveryEntry_Always(w) ==
  LET e == First(worker[w].todo) IN
  /\ At(w, "next") /\ worker[w].todo # {}
  /\ worker' = [worker EXCEPT ![w].todo = @ \ {e}, ![w].stage = "claimed", ![w].entry = e]
  /\ entriesInProgress' = entriesInProgress \cup {e}
  /\ UNCHANGED <<files, drainInProgress, crashes, history>>

(* claimRecoveryEntry: the next entry is claimed, or passed over if another *)
(* recovery or drain has claimed it.                                       *)
ClaimRecoveryEntry(w) ==
  LET e == First(worker[w].todo)
      free == e \notin entriesInProgress
  IN
  /\ At(w, "next") /\ worker[w].todo # {}
  /\ worker' = [worker EXCEPT ![w].todo = @ \ {e},
                  ![w].stage = IF free THEN "claimed" ELSE "next",
                  ![w].entry = IF free THEN e ELSE NoEntry]
  /\ entriesInProgress' = entriesInProgress \cup {e}
  /\ UNCHANGED <<files, drainInProgress, crashes, history>>

(* Mutant: a first replay waits for its backoff too. *)
BackoffPossible_FirstReplayToo(retryCount) == retryCount >= 0

(* isEntryEligibleForRecoveryRetry, and the drain's bypassBackoff: a first  *)
(* replay is due at once, another when its backoff has elapsed.            *)
BackoffPossible(retryCount) == retryCount > 0

(* Mutant: attempts are not limited. *)
Exhausted_Never(retryCount) == retryCount < 0

Exhausted(retryCount) == retryCount >= MaxRetries

(* Mutants: the entry is sent from the snapshot, without a look at its file; *)
(* an entry that is gone stays claimed.                                    *)
LoadPendingDelivery_Skipped(w) ==
  /\ At(w, "claimed")
  /\ Goes(w, "sending")
  /\ UNCHANGED <<files, claims, crashes, history>>
LoadPendingDelivery_KeepsClaim(w) ==
  LET retryCount == json[worker[w].entry] IN
  /\ At(w, "claimed")
  /\ \/ retryCount = Absent /\ Goes(w, "next") /\ UNCHANGED claims
     \/ retryCount # Absent /\ Exhausted(retryCount) /\ Goes(w, "moving") /\ UNCHANGED claims
     \/ /\ retryCount # Absent /\ ~Exhausted(retryCount)
        /\ \/ BackoffPossible(retryCount) /\ EntryDone(w)
           \/ Goes(w, "sending") /\ UNCHANGED claims
  /\ UNCHANGED <<files, crashes, history>>

(* loadPendingDelivery, the re-read after the claim: the entry is gone,     *)
(* exhausted, still backing off, or is sent.                               *)
LoadPendingDelivery(w) ==
  LET retryCount == json[worker[w].entry] IN
  /\ At(w, "claimed")
  /\ \/ retryCount = Absent /\ EntryDone(w)
     \/ retryCount # Absent /\ Exhausted(retryCount) /\ Goes(w, "moving") /\ UNCHANGED claims
     \/ /\ retryCount # Absent /\ ~Exhausted(retryCount)
        /\ \/ BackoffPossible(retryCount) /\ EntryDone(w)
           \/ Goes(w, "sending") /\ UNCHANGED claims
  /\ UNCHANGED <<files, crashes, history>>

(* An error of loadPendingDelivery ends the call. *)
LoadFails(w) ==
  /\ IoErrors /\ At(w, "claimed")
  /\ CallEnds(w)
  /\ UNCHANGED <<files, crashes, history>>

AllProcessed(w) ==
  /\ At(w, "next") /\ worker[w].todo = {}
  /\ CallEnds(w)
  /\ UNCHANGED <<files, crashes, history>>

(* maxRecoveryMs has passed while an entry was processed. *)
BudgetExceeded(w) ==
  /\ BudgetExpires /\ w \in Recoveries
  /\ At(w, "next") /\ worker[w].todo # {} /\ worker[w].entry # NoEntry
  /\ Goes(w, "deferring")
  /\ UNCHANGED <<files, claims, crashes, history>>

(* deferRemainingEntriesForBudget: failDelivery of every remaining entry,   *)
(* concurrently and without a claim.                                       *)
DeferReads(w, e) ==
  /\ At(w, "deferring") /\ e \in worker[w].todo
  /\ worker' = [worker EXCEPT ![w].todo = @ \ {e}, ![w].read[e] = json[e]]
  /\ UNCHANGED <<files, claims, crashes, history>>

DeferWrites(w, e) ==
  /\ At(w, "deferring") /\ worker[w].read[e] # Absent
  /\ json' = [json EXCEPT ![e] = Bumped(worker[w].read[e])]
  /\ worker' = [worker EXCEPT ![w].read[e] = Absent]
  /\ UNCHANGED <<marker, failed, claims, crashes, history>>

DeferEnds(w) ==
  /\ At(w, "deferring") /\ worker[w].todo = {}
  /\ \A e \in Entries : worker[w].read[e] = Absent
  /\ worker' = [worker EXCEPT ![w] = IdleWorker]
  /\ UNCHANGED <<files, claims, crashes, history>>

-----------------------------------------------------------------------------
(* The process dies: the files stay, its calls and claims are gone. *)
Crash ==
  /\ crashes < MaxCrashes
  /\ crashes' = crashes + 1
  /\ worker' = [w \in Workers |->
                  IF w \in LiveCalls /\ worker[w].stage \notin {"idle", "done"}
                  THEN [IdleWorker EXCEPT !.stage = "dead"]
                  ELSE IF w \in LiveCalls THEN worker[w] ELSE IdleWorker]
  /\ entriesInProgress' = {} /\ drainInProgress' = {}
  /\ sentThisLife' = [e \in Entries |-> 0]
  /\ UNCHANGED <<files, did, failures>>

Sending(w) ==
  \/ SendSucceeds(w)
  \/ \E b \in BOOLEAN : SendPartly(w, b) \/ LiveSendThrows(w, b) \/ ReplayThrows(w, b)

Storing(w) ==
  \/ EnqueueDelivery(w) \/ AckRenames(w) \/ AckFails(w) \/ AckUnlinks(w)
  \/ FailReads(w) \/ FailWrites(w) \/ MoveToFailed(w) \/ MoveFails(w)

Recovering(w) ==
  \/ LoadPendingDeliveries(w) \/ ClaimRecoveryEntry(w) \/ LoadPendingDelivery(w)
  \/ LoadFails(w) \/ AllProcessed(w) \/ BudgetExceeded(w) \/ DeferEnds(w)
  \/ \E e \in Entries : DeferReads(w, e) \/ DeferWrites(w, e)

Next ==
  \/ \E w \in Workers :
       LiveCall(w) \/ RecoveryStarts(w) \/ DrainStarts(w)
         \/ Sending(w) \/ Storing(w) \/ Recovering(w)
  \/ Crash

Spec == Init /\ [][Next]_vars

(* Sends and file operations return, and every start of the gateway starts  *)
(* a recovery.                                                             *)
FairSpec ==
  /\ Spec
  /\ \A w \in Workers : WF_vars(Sending(w) \/ Storing(w) \/ Recovering(w))
  /\ \A w \in Recoveries : WF_vars(RecoveryStarts(w))

-----------------------------------------------------------------------------
(* The message is still in the queue, or in failed/, or was sent or aborted. *)
Kept(e) ==
  "persisted" \in did[e] /\ json[e] = Absent /\ e \notin failed
    => did[e] \cap {"sent", "aborted"} # {}

(* A delivery that was persisted is not dropped by any crash, error or race *)
(* of the workers.  Those sent with bestEffort are left to                 *)
(* BestEffortNotLost.                                                      *)
NothingLost == \A e \in Entries \ BestEffort : Kept(e)

(* The same of bestEffort deliveries, which the code drops when a payload   *)
(* cannot be sent and nobody listens for the error.                        *)
BestEffortNotLost == \A e \in BestEffort : Kept(e)

(* The queue as AtLeastOnceQueue sees it: its files, and what happened.     *)
AtLeastOnce == INSTANCE AtLeastOnceQueue WITH
  Lossy <- BestEffort,
  MayReturn <- LiveCalls # {} \/ BudgetExpires,
  accepted <- {e \in Entries : "persisted" \in did[e]},
  pending <- {e \in Entries : json[e] # Absent},
  setAside <- failed,
  settled <- {e \in Entries : did[e] \cap {"sent", "aborted"} # {}}

(* The files, calls, claims and crashes come to a queue that delivers at    *)
(* least once; and what ackDelivery removed or moveToFailed set aside never *)
(* returns, as long as the calls that write entries they have not claimed  *)
(* (live calls, and deferrals for the time budget) stay out of it.         *)
DeliversAtLeastOnce == AtLeastOnce!QueueSpec

(* The recovery and the drains of one process send an entry at most once,   *)
(* however stale the snapshot they work from.                              *)
ReplayedOnce == \A e \in Entries : sentThisLife[e] <= 1

(* An entry that was acked never comes back to the queue, crashes included. *)
AckedStaysGone == \A e \in Entries : "acked" \in did[e] => json[e] = Absent

(* failDelivery reads an entry, awaits, and writes it back with one retry   *)
(* more: what it has read is still what the file holds, so that no retry   *)
(* of another call is lost and no removed entry returns.                   *)
ReadsAreFresh ==
  \A w \in Workers : \A e \in Entries : worker[w].read[e] # Absent => json[e] = worker[w].read[e]

(* entriesInProgress and drainInProgress hold the claims of the calls under *)
(* way and nothing else: no path leaks a claim, which would block an entry  *)
(* or a channel until the process restarts, or drops another call's.       *)
Claiming(w) == worker[w].stage \in {"claimed", "sending", "marking", "unmarking", "failing", "moving"}
ClaimsMatchCalls ==
  /\ entriesInProgress = {worker[w].entry : w \in {v \in Workers \ LiveCalls : Claiming(v)}}
  /\ drainInProgress = {KeyOf[w] : w \in {v \in Drains : ~At(v, "idle")}}
  /\ \A v, w \in Workers \ LiveCalls :
       Claiming(v) /\ Claiming(w) /\ worker[v].entry = worker[w].entry => v = w

(* An entry is attempted at most MAX_RETRIES times, not counting attempts   *)
(* whose failure a crash kept from being recorded.                         *)
AttemptsBounded == \A e \in Entries : failures[e] <= MaxRetries + crashes

(* An entry that a crash left behind unattempted is replayed by the next    *)
(* start of the gateway: it is sent, or its retry is counted.              *)
OrphanIsReplayed == \A e \in Orphans : json[e] = 0 ~> json[e] # 0
=============================================================================
