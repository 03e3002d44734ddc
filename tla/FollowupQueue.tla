--------------------------- MODULE FollowupQueue ---------------------------
(***************************************************************************)
(* The followup queue of one session: what becomes of the messages that    *)
(* arrive while the agent is running (src/auto-reply/reply/queue/*.ts with *)
(* the helpers of src/utils/queue-helpers.ts, and the two places of        *)
(* agent-runner.ts that call them).                                        *)
(*                                                                         *)
(* The map FOLLOWUP_QUEUES holds at most one queue object for the session, *)
(* but a drain keeps the object it began with, which clearSessionQueues    *)
(* may meanwhile have taken out of the map: hence a pool of objects.       *)
(* A drain parks at each await (stage); the code between two awaits is one *)
(* action.  Runs are external: they hold the session's reply operation,    *)
(* then succeed or fail.  A foreign run is one of the same session that    *)
(* agent-runner.ts did not start (the agent command, for example).         *)
(*                                                                         *)
(* Left out: debounce times, the expiry of remembered message ids, the     *)
(* cached drain callback (only the restartIfIdle path, which production    *)
(* code never takes, acts on it), refreshQueuedFollowupSession, and the    *)
(* lane half of clearSessionQueues (CommandLanes models it).               *)
(***************************************************************************)
EXTENDS Integers, SequencesExt

CONSTANTS
  Messages,      \* inbound messages with distinct ids
  Objects,       \* queue objects
  None,          \* no queue object
  KeyOf,         \* what resolveCrossChannelKey says of a message
  SettingsOf,    \* the queue settings a message can come with, by its channel and session
  Cap,           \* the queue's cap
  Foreign,       \* are there foreign runs?
  Deliveries,    \* how often each message is delivered to the gateway
  MaxFailures    \* how many followup runs may fail

Settings == [mode : {"collect", "followup"}, policy : {"summarize", "old", "new"}]

ASSUME FollowupQueueAssumption ==
  /\ None \notin Objects /\ "direct" \notin Objects \cup {None}
  /\ DOMAIN KeyOf = Messages
  /\ SettingsOf \in [Messages -> (SUBSET Settings) \ {{}}]
  /\ Cap \in Nat \ {0} /\ Foreign \in BOOLEAN
  /\ Deliveries \in [Messages -> Nat] /\ MaxFailures \in Nat

VARIABLES
  q,         \* the queue objects, each with the drain that holds it
  current,   \* FOLLOWUP_QUEUES.get(key)
  recent,    \* RECENT_QUEUE_MESSAGE_IDS
  op,        \* who holds the session's reply operation: None, "direct" or a queue object
  foreign,   \* a foreign run is active
  arriving,  \* messages whose handler read isActive = true and has not enqueued yet
  arrivals, failures,
  fate,      \* history: what became of each message
  runs,      \* history: in how many successful followup runs each message was
  order,     \* history: the accepted messages, in order
  excuses    \* history: what happened that can lose a message

registry == <<q, current, fate>>
history == <<runs, order>>
fvars == <<q, current, recent, op, foreign, arriving, arrivals, failures, fate, runs, order, excuses>>

(* head and the synchronous code up to the first await belong to the step  *)
(* before; calling: the run's callback has not taken the operation yet.    *)
DrainStages == {"none", "debounce", "collecting", "calling", "running"}
Kinds == {"item", "summary", "collect"}
Fates == {"new", "refused", "queued", "ran", "dropped", "told", "discarded", "cleared",
          "swallowed", "lost", "stranded"}
Excuses == {"overflow in flight", "clear in flight", "foreign run", "policy change"}

Fresh(s) == [items |-> <<>>, setting |-> s, dropped |-> {}, lastRun |-> FALSE,
             stage |-> "none", force |-> FALSE, kind |-> "item", batch |-> <<>>, told |-> {}]
Blank == Fresh([mode |-> "collect", policy |-> "summarize"])

(* The queue objects, the map and what the steps of the protocol leave     *)
(* consistent: only a draining object can be out of the map.               *)
TypeOK ==
  /\ q \in [Objects -> [items : Seq(Messages), setting : Settings, dropped : SUBSET Messages,
                        lastRun : BOOLEAN, stage : DrainStages, force : BOOLEAN, kind : Kinds,
                        batch : Seq(Messages), told : SUBSET Messages]]
  /\ current \in Objects \cup {None}
  /\ recent \subseteq Messages /\ arriving \subseteq Messages
  /\ op \in Objects \cup {None, "direct"}
  /\ foreign \in BOOLEAN
  /\ arrivals \in [Messages -> Nat] /\ failures \in 0..MaxFailures
  /\ fate \in [Messages -> Fates] /\ runs \in [Messages -> Nat]
  /\ order \in Seq(Messages) /\ excuses \subseteq Excuses
  /\ \A o \in Objects : (op = o) <=> (q[o].stage = "running")
  /\ \A o \in Objects : o # current /\ q[o].stage = "none" => q[o].items = <<>>

FollowupInit ==
  /\ q = [o \in Objects |-> Blank] /\ current = None
  /\ recent = {} /\ arriving = {}
  /\ op = None /\ foreign = FALSE
  /\ arrivals = [m \in Messages |-> 0] /\ failures = 0
  /\ fate = [m \in Messages |-> "new"]
  /\ runs = [m \in Messages |-> 0]
  /\ order = <<>> /\ excuses = {}

(* isRunActive: an embedded run of the session, or its reply operation.    *)
RunActive == op # None \/ foreign

Pending(queue) == queue.items # <<>> \/ queue.dropped # {}
Draining(queue) == queue.stage # "none"
Mark(f, ms, what) == [m \in Messages |-> IF m \in ms THEN what ELSE f[m]]

-----------------------------------------------------------------------------
(* The drain's bookkeeping, as relations between given queues and the next *)
(* state's.                                                                *)

(* scheduleFollowupDrain: begin with the object in the map, unless it is   *)
(* draining; a loop that finds nothing pending ends at once.               *)
ScheduleDrain(qs, cur, f) ==
  /\ fate' = f
  /\ IF cur = None \/ Draining(qs[cur])
       THEN q' = qs /\ current' = cur
     ELSE IF Pending(qs[cur])
       THEN q' = [qs EXCEPT ![cur].stage = "debounce", ![cur].force = FALSE] /\ current' = cur
     ELSE q' = [qs EXCEPT ![cur] = Blank] /\ current' = None

(* Mutant: finally gives up on what is left. *)
Finish_NoReschedule(qs, o, f) ==
  LET idle == [qs EXCEPT ![o] = [@ EXCEPT !.stage = "none", !.batch = <<>>, !.told = {}]]
  IN q' = idle /\ current' = current /\ fate' = f

(* The drain's finally: an emptied queue takes whatever object the map     *)
(* holds out of it; otherwise the map's object is drained again.  Messages *)
(* of an object that neither the map nor a drain holds are stranded.       *)
Finish(qs, o, f) ==
  LET idle == [qs EXCEPT ![o] = [@ EXCEPT !.stage = "none", !.batch = <<>>, !.told = {}]]
      left == IF Pending(idle[o]) THEN {o} \ {current}
              ELSE {c \in {o, current} \ {None} : ~Draining(idle[c])}
      swept == [c \in Objects |-> IF c \in left THEN Blank ELSE idle[c]]
      f2 == Mark(f, {m \in Messages : \E c \in left : m \in Range(idle[c].items)}, "stranded")
  IN IF Pending(idle[o]) THEN ScheduleDrain(swept, current, f2)
     ELSE q' = swept /\ current' = None /\ fate' = f2

Calling(o, kind, batch, told, force) ==
  /\ q' = [q EXCEPT ![o] = [@ EXCEPT !.stage = "calling", !.kind = kind, !.batch = batch,
                                     !.told = told, !.force = force]]
  /\ UNCHANGED <<current, fate>>

(* Back at the head of the loop. *)
Continue(qs, o, f) ==
  IF Pending(qs[o])
    THEN q' = [qs EXCEPT ![o].stage = "debounce"] /\ fate' = f /\ UNCHANGED current
    ELSE Finish(qs, o, f)

-----------------------------------------------------------------------------
(* Messages arrive, and direct and foreign runs begin and end. *)

(* A message's handler reads isActive, and awaits before it acts on it. *)
Arrive(m) ==
  /\ RunActive /\ arrivals[m] < Deliveries[m]
  /\ m \notin arriving /\ arriving' = arriving \cup {m}
  /\ arrivals' = [arrivals EXCEPT ![m] = @ + 1]
  /\ UNCHANGED <<registry, history, recent, op, foreign, failures, excuses>>

(* Not active: the message's own run takes the session's reply operation. *)
DirectRun(m) ==
  /\ ~RunActive /\ arrivals[m] < Deliveries[m]
  /\ op' = "direct"
  /\ arrivals' = [arrivals EXCEPT ![m] = @ + 1]
  /\ UNCHANGED <<registry, history, recent, foreign, arriving, failures, excuses>>

(* Every way out of a direct run goes through finalizeWithFollowup. *)
DirectEnds ==
  /\ op = "direct" /\ op' = None
  /\ ScheduleDrain(q, current, fate)
  /\ UNCHANGED <<history, recent, foreign, arriving, arrivals, failures, excuses>>

(* A run that agent-runner.ts did not start has its turn in the session's   *)
(* lane, which serialises the runs but knows nothing of op.                *)
ForeignStarts ==
  /\ Foreign /\ ~foreign /\ op = None
  /\ foreign' = TRUE
  /\ UNCHANGED <<registry, history, recent, op, arriving, arrivals, failures, excuses>>

(* The end of a foreign run does not look at the queue. *)
ForeignEnds ==
  /\ foreign /\ foreign' = FALSE
  /\ excuses' = IF current # None /\ op = None /\ ~Draining(q[current]) /\ Pending(q[current])
                  THEN excuses \cup {"foreign run"} ELSE excuses
  /\ UNCHANGED <<registry, history, recent, op, arriving, arrivals, failures>>

-----------------------------------------------------------------------------
(* enqueueFollowupRun, and the look at the run that follows it. *)

(* applyQueueDropPolicy: how many of the oldest items make room. *)
Overflow(queue) == IF Len(queue.items) < Cap THEN 0 ELSE Len(queue.items) - Cap + 1

(* Mutant: a message id is forgotten as soon as its message left the queue. *)
Known_InQueue(m, queue) == m \in Range(queue.items)

(* The message's id is remembered, or the message is in the queue. *)
Known(m, queue) == m \in recent \/ m \in Range(queue.items)

(* Mutant: the caller trusts the isActive its handler read. *)
AfterEnqueue_NoRecheck(qs, cur, f) == q' = qs /\ current' = cur /\ fate' = f

(* The recheck of isRunActive: an idle session's queue is drained at once. *)
AfterEnqueue(qs, cur, f) ==
  IF RunActive THEN q' = qs /\ current' = cur /\ fate' = f ELSE ScheduleDrain(qs, cur, f)

(* getFollowupQueue: the object of the map, or a new one, with the         *)
(* message's settings.                                                     *)
Target(o) ==
  IF current # None THEN o = current
  ELSE /\ \E free \in Objects : q[free].stage = "none"
       /\ o = CHOOSE free \in Objects : q[free].stage = "none"

GetFollowupQueue(o, s) == IF current # None THEN [q[o] EXCEPT !.setting = s] ELSE Fresh(s)

(* A pending summary that the new policy will never render. *)
PolicyChange(queue) ==
  IF queue.dropped # {} /\ queue.setting.policy # "summarize" THEN {"policy change"} ELSE {}

Skipped(m, o, queue) ==
  /\ Known(m, queue)
  /\ excuses' = excuses \cup PolicyChange(queue)
  /\ AfterEnqueue([q EXCEPT ![o] = queue], o, fate)
  /\ UNCHANGED <<recent, history>>

Refused(m, o, queue) ==
  /\ ~Known(m, queue) /\ Overflow(queue) > 0 /\ queue.setting.policy = "new"
  /\ excuses' = excuses \cup PolicyChange(queue)
  /\ AfterEnqueue([q EXCEPT ![o] = [queue EXCEPT !.lastRun = TRUE]], o, Mark(fate, {m}, "refused"))
  /\ UNCHANGED <<recent, history>>

(* The oldest items make room, be they in a run or not; they are counted   *)
(* for the summary when the policy says so.                                *)
Accepted(m, o, queue) ==
  LET n == Overflow(queue)
      gone == Range(SubSeq(queue.items, 1, n))
      sums == queue.setting.policy = "summarize"
  IN /\ ~Known(m, queue) /\ (n = 0 \/ queue.setting.policy # "new")
     /\ recent' = recent \cup {m} /\ order' = Append(order, m) /\ UNCHANGED runs
     /\ excuses' = excuses \cup PolicyChange(queue)
          \cup (IF n > 0 /\ queue.stage \in {"calling", "running"} THEN {"overflow in flight"} ELSE {})
     /\ AfterEnqueue(
          [q EXCEPT ![o] = [queue EXCEPT !.lastRun = TRUE,
                                         !.items = Append(SubSeq(@, n + 1, Len(@)), m),
                                         !.dropped = IF sums THEN @ \cup gone ELSE @]],
          o, Mark(Mark(fate, gone, IF sums THEN "dropped" ELSE "discarded"), {m}, "queued"))

EnqueueFollowupRun(m, s) ==
  /\ m \in arriving /\ arriving' = arriving \ {m}
  /\ \E o \in Objects : Target(o) /\ LET queue == GetFollowupQueue(o, s)
                                     IN Skipped(m, o, queue) \/ Refused(m, o, queue) \/ Accepted(m, o, queue)
  /\ UNCHANGED <<op, foreign, arrivals, failures>>

(* Mutant: the queue leaves the map with its items. *)
ClearSessionQueues_OnlyUnmaps ==
  /\ current # None /\ current' = None
  /\ UNCHANGED <<q, fate, history, recent, op, foreign, arriving, arrivals, failures, excuses>>

(* clearSessionQueues: the queue is emptied and leaves the map; a drain     *)
(* goes on with the object it holds.                                       *)
ClearSessionQueues ==
  /\ current # None
  /\ LET queue == q[current]
         hit == Range(queue.items) \cup queue.dropped
     IN /\ q' = [q EXCEPT ![current] = IF ~Draining(queue) THEN Blank
                   ELSE [queue EXCEPT !.items = <<>>, !.dropped = {}, !.lastRun = FALSE]]
        /\ fate' = Mark(fate, hit, "cleared")
        /\ excuses' = IF Draining(queue) THEN excuses \cup {"clear in flight"} ELSE excuses
  /\ current' = None
  /\ UNCHANGED <<history, recent, op, foreign, arriving, arrivals, failures>>

-----------------------------------------------------------------------------
(* The drain of object o. *)

drainLeaves == <<history, recent, foreign, arriving, arrivals, excuses>>

(* hasCrossChannelItems *)
CrossChannel(items) ==
  LET keys == {KeyOf[m] : m \in Range(items)}
  IN "cross" \in keys \/ \E k, l \in keys : k # l

(* Mutant: the newest item is run, the oldest is removed. *)
NextItem_Newest(o, force) ==
  IF q[o].items = <<>> THEN Finish(q, o, fate)
  ELSE Calling(o, "item", <<Last(q[o].items)>>, {}, force)

(* The message is passed to the run by itself. *)
NextItem(o, force) ==
  IF q[o].items = <<>> THEN Finish(q, o, fate)
  ELSE Calling(o, "item", <<Head(q[o].items)>>, {}, force)

SummaryDue(queue) == queue.setting.policy = "summarize" /\ queue.dropped # {}

(* The debounce is over.  In collect mode a batch of one route is sliced    *)
(* after one more await; in the other modes a pending summary is run first, *)
(* in the place of the oldest item.                                        *)
Debounced(o) ==
  /\ q[o].stage = "debounce"
  /\ LET queue == q[o]
         force == queue.force \/ CrossChannel(queue.items)
     IN \/ queue.setting.mode = "collect" /\ force /\ NextItem(o, force)
        \/ /\ queue.setting.mode = "collect" /\ ~force
           /\ q' = [q EXCEPT ![o].stage = "collecting"] /\ UNCHANGED <<current, fate>>
        \/ /\ queue.setting.mode # "collect" /\ SummaryDue(queue)
           /\ IF queue.lastRun /\ queue.items # <<>>
                THEN Calling(o, "summary", <<Head(queue.items)>>, queue.dropped, queue.force)
                ELSE Finish(q, o, fate)
        \/ queue.setting.mode # "collect" /\ ~SummaryDue(queue) /\ NextItem(o, queue.force)
  /\ UNCHANGED <<drainLeaves, op, failures>>

Collected(o) ==
  /\ q[o].stage = "collecting"
  /\ LET queue == q[o]
     IN IF queue.items = <<>> /\ ~queue.lastRun THEN Finish(q, o, fate)
        ELSE Calling(o, "collect", queue.items, IF SummaryDue(queue) THEN queue.dropped ELSE {}, queue.force)
  /\ UNCHANGED <<drainLeaves, op, failures>>

(* createReplyOperation, which throws while another run holds it. *)
CallRun(o) ==
  /\ q[o].stage = "calling"
  /\ \/ /\ op = None /\ op' = o
        /\ q' = [q EXCEPT ![o].stage = "running"] /\ UNCHANGED <<current, fate>>
     \/ /\ op # None /\ UNCHANGED op
        /\ Finish(q, o, fate)
  /\ UNCHANGED <<drainLeaves, failures>>

(* Mutant: a collected batch takes the whole queue with it. *)
Settled_WholeQueue(queue) ==
  IF queue.kind = "collect" THEN <<>> ELSE IF queue.items = <<>> THEN <<>> ELSE Tail(queue.items)

(* Mutant: a collected batch of several leaves its last message behind. *)
Settled_OneShort(queue) ==
  LET n == IF queue.kind = "collect" /\ Len(queue.batch) > 1 THEN Len(queue.batch) - 1 ELSE Len(queue.batch)
  IN SubSeq(queue.items, n + 1, Len(queue.items))

(* What splice(0, n) or shift() leaves: the front of the array is taken     *)
(* out, whatever it holds by now.                                          *)
Settled(queue) ==
  LET n == IF queue.kind = "collect" THEN Len(queue.batch) ELSE 1
  IN SubSeq(queue.items, n + 1, Len(queue.items))

(* The run succeeded.  A summary that was told is cleared with whatever was *)
(* dropped since.                                                          *)
RunCompletes(o) ==
  LET queue == q[o]
      left == Settled(queue)
      told == queue.told # {}
      batch == Range(queue.batch)
      ran == IF queue.kind = "summary" THEN {} ELSE batch
      removed == Range(queue.items) \ (Range(left) \cup batch)
      unsaid == IF told THEN queue.dropped \ queue.told ELSE {}
      swallowed == IF queue.kind = "summary" THEN {m \in batch : fate[m] = "queued"} ELSE {}
      after == [queue EXCEPT !.items = left, !.dropped = IF told THEN {} ELSE @,
                             !.batch = <<>>, !.told = {}]
      f == Mark(Mark(Mark(Mark(fate, removed \cup unsaid, "lost"), swallowed, "swallowed"),
                     queue.told, "told"), ran, "ran")
  IN /\ queue.stage = "running" /\ ~foreign
     /\ op' = None
     /\ runs' = [m \in Messages |-> IF m \in ran THEN runs[m] + 1 ELSE runs[m]]
     /\ Continue([q EXCEPT ![o] = after], o, f)
     /\ UNCHANGED <<recent, foreign, arriving, arrivals, failures, order, excuses>>

(* The run threw: nothing is removed, and the drain begins again. *)
RunFails(o) ==
  /\ q[o].stage = "running" /\ ~foreign /\ failures < MaxFailures
  /\ failures' = failures + 1 /\ op' = None
  /\ Finish(q, o, fate)
  /\ UNCHANGED drainLeaves

-----------------------------------------------------------------------------
DrainStep(o) == Debounced(o) \/ Collected(o) \/ CallRun(o) \/ RunCompletes(o) \/ RunFails(o)

FollowupNext ==
  \/ \E m \in Messages : Arrive(m) \/ DirectRun(m) \/ \E s \in SettingsOf[m] : EnqueueFollowupRun(m, s)
  \/ DirectEnds \/ ForeignStarts \/ ForeignEnds \/ ClearSessionQueues
  \/ \E o \in Objects : DrainStep(o)

FollowupSpec == FollowupInit /\ [][FollowupNext]_fvars

(* Timers fire, promises settle and runs end. *)
FollowupFairSpec ==
  /\ FollowupSpec
  /\ WF_fvars(DirectEnds) /\ WF_fvars(ForeignEnds)
  /\ \A o \in Objects : WF_fvars(DrainStep(o))
  /\ \A m \in Messages : WF_fvars(\E s \in SettingsOf[m] : EnqueueFollowupRun(m, s))

-----------------------------------------------------------------------------
(* Properties. *)

(* No message is in two successful followup runs: the remembered ids keep  *)
(* a redelivery out after the message left the queue, a batch removes what *)
(* it ran, and only a run that threw is repeated.                          *)
RunOnce == \A m \in Messages : runs[m] <= 1

(* Followups run in the order enqueueFollowupRun accepted them, whether    *)
(* they run alone, in a batch or again after a failure; unless the queue   *)
(* was cleared under a drain, which then competes with the next one.       *)
Precedes(m, n) == \E i, j \in DOMAIN order : i < j /\ order[i] = m /\ order[j] = n

InOrder ==
  [][\A m, n \in Messages :
       runs'[n] > runs[n] /\ Precedes(m, n) /\ fate[m] = "queued" /\ "clear in flight" \notin excuses
         => runs'[m] > runs[m]]_fvars

(* An accepted message leaves the queue unseen only when the queue         *)
(* overflowed during a run (splice and shift then remove others than the   *)
(* ones that ran), and its queue object is forgotten only after it was     *)
(* cleared during a drain (whose finally deletes the next object).         *)
NothingLost ==
  \A m \in Messages : /\ fate[m] = "lost" => "overflow in flight" \in excuses
                      /\ fate[m] = "stranded" => "clear in flight" \in excuses

(* The queue has items, and nobody is there who would ever look at them: no *)
(* run, no drain, not even one of an object that was taken out of the map. *)
IdleWithItems ==
  /\ current # None /\ q[current].items # <<>>
  /\ ~RunActive /\ \A o \in Objects : ~Draining(q[o])

(* Whatever the order of a message's two looks at the run, the run's end   *)
(* and the drain's end, a message is not left in an idle queue; only runs  *)
(* that agent-runner.ts did not start leave it so.                         *)
IdleOnlyAfterForeign == IdleWithItems => "foreign run" \in excuses

(* The same without the exception: what agent-runner.ts says of its look   *)
(* at the run after the enqueue.                                           *)
NoIdleQueue == ~IdleWithItems

(* A message the overflow summary is run in the place of is run itself or  *)
(* told in the summary: what docs/concepts/queue.md promises of the drop   *)
(* policy summarize.                                                       *)
NoneSwallowed == \A m \in Messages : fate[m] # "swallowed"

(* An accepted message is eventually run, dropped with notice, cleared or  *)
(* discarded, though runs fail, runs of others hold the session and the    *)
(* drain ends and begins again, unless one of the known losses happened.   *)
EveryMessageSettles ==
  \A m \in Messages : fate[m] \in {"queued", "dropped"}
                        ~> (fate[m] \notin {"queued", "dropped"} \/ excuses # {})
=============================================================================
