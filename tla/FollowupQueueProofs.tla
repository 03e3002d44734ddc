------------------------ MODULE FollowupQueueProofs ------------------------
(***************************************************************************)
(* Proofs about the followup queue, for any messages, settings, cap, queue *)
(* objects, redeliveries and failures: every accepted message runs at most *)
(* once, in order, is lost only in the ways the code is known for, and is  *)
(* not left in an idle queue but by runs the reply runner did not start.   *)
(***************************************************************************)
EXTENDS FollowupQueue, SequenceTheorems, TLAPS

QueueRec == [items : Seq(Messages), setting : Settings, dropped : SUBSET Messages,
             lastRun : BOOLEAN, stage : DrainStages, force : BOOLEAN, kind : Kinds,
             batch : Seq(Messages), told : SUBSET Messages]

(* The stages in which a drain has passed a batch to a run. *)
Active == {"calling", "running"}

(* How many items a run that succeeds takes from the front of the queue. *)
Taken(x) == IF x.kind = "collect" THEN Len(x.batch) ELSE 1

Before(ord, m, n) == \E i, j \in DOMAIN ord : i < j /\ ord[i] = m /\ ord[j] = n

(* The items are remembered messages in the order they were accepted.  None *)
(* of a batch is behind what its run takes, and the batch has all the      *)
(* items that were accepted before one of its own.                         *)
SoundQueue(x, rec, ord) ==
  /\ Range(x.items) \subseteq rec /\ Range(x.batch) \subseteq rec
  /\ \A i, j \in DOMAIN x.items : i < j => Before(ord, x.items[i], x.items[j])
  /\ x.stage \notin Active => x.batch = <<>> /\ x.told = {}
  /\ x.stage \in Active =>
       /\ \A j \in DOMAIN x.items : j > Taken(x) => x.items[j] \notin Range(x.batch)
       /\ \A m \in Range(x.items), n \in Range(x.batch) : Before(ord, m, n) => m \in Range(x.batch)

Has(x) == Range(x.items) \cup Range(x.batch)

(* What a message has is nowhere else, and did not run yet. *)
QueuesOK(qs, rec, ord, rns) ==
  /\ qs \in [Objects -> QueueRec]
  /\ \A o \in Objects : SoundQueue(qs[o], rec, ord)
  /\ \A c, d \in Objects : c # d => Has(qs[c]) \cap Has(qs[d]) = {}
  /\ \A c \in Objects : \A m \in Has(qs[c]) : rns[m] = 0

Mapped(qs, cur) == \A o \in Objects : o # cur /\ qs[o].stage = "none" => qs[o].items = <<>>

QueuedKept(qs, f) ==
  \A m \in Messages : f[m] = "queued" => \E o \in Objects : m \in Range(qs[o].items)

(* What the run takes is its batch, and it was told of all that was dropped *)
FrontOK(x, isCurrent) ==
  x.stage \in Active =>
    /\ \A j \in DOMAIN x.items : j <= Taken(x) => x.items[j] \in Range(x.batch)
    /\ x.told # {} => x.dropped \subseteq x.told
    /\ isCurrent => Len(x.items) >= Taken(x)

FrontsOK(qs, cur, f, exc) ==
  "overflow in flight" \notin exc =>
    /\ \A o \in Objects : FrontOK(qs[o], o = cur)
    /\ \A m \in Messages : f[m] # "lost"

DrainsOK(qs, cur, f, exc) ==
  "clear in flight" \notin exc =>
    /\ \A o \in Objects : Draining(qs[o]) => o = cur
    /\ \A m \in Messages : f[m] # "stranded"

Good(qs, cur, f, rec, ord, rns, exc) ==
  /\ QueuesOK(qs, rec, ord, rns)
  /\ cur \in Objects \cup {None} /\ f \in [Messages -> Fates]
  /\ Mapped(qs, cur) /\ QueuedKept(qs, f) /\ FrontsOK(qs, cur, f, exc) /\ DrainsOK(qs, cur, f, exc)

HistoryOK(rec, ord, rns) ==
  /\ rec \subseteq Messages /\ ord \in Seq(Messages) /\ rns \in [Messages -> Nat]
  /\ Range(ord) = rec /\ \A i, j \in DOMAIN ord : ord[i] = ord[j] => i = j
  /\ \A m \in Messages : rns[m] <= 1 /\ (rns[m] > 0 => m \in rec)

(* An operation is held by the drain whose run it is. *)
OpOK(qs, holder) == \A o \in Objects : holder = o <=> qs[o].stage = "running"

(* The rest of the types. *)
Scalars ==
  /\ arriving \subseteq Messages
  /\ op \in Objects \cup {None, "direct"} /\ foreign \in BOOLEAN
  /\ arrivals \in [Messages -> Nat] /\ failures \in 0..MaxFailures
  /\ excuses \subseteq Excuses

FollowupInv ==
  /\ Good(q, current, fate, recent, order, runs, excuses)
  /\ HistoryOK(recent, order, runs) /\ OpOK(q, op) /\ Scalars
  /\ IdleOnlyAfterForeign

-----------------------------------------------------------------------------
(* A drain that ends, or goes back to the head of its loop, keeps the items *)
(* or loses all of them, and forgets its batch.                            *)
Calmed(x, y) ==
  \/ y = x
  \/ /\ y \in QueueRec /\ y.stage \notin Active /\ y.batch = <<>> /\ y.told = {}
     /\ y.items = x.items \/ y.items = <<>>

LEMMA BlankFacts ==
  /\ Blank \in QueueRec /\ Blank.stage = "none" /\ Blank.batch = <<>> /\ Blank.told = {} /\ Blank.items = <<>>
  /\ Blank.dropped = {}
  BY DEF Blank, Fresh, QueueRec, Settings, DrainStages, Kinds

LEMMA EmptyRange == Range(<<>>) = {} /\ DOMAIN <<>> = {}
  BY DEF Range

LEMMA CalmedSound ==
  ASSUME NEW x, NEW y, NEW rec, NEW ord, SoundQueue(x, rec, ord), Calmed(x, y)
  PROVE  SoundQueue(y, rec, ord) /\ Has(y) \subseteq Has(x)
<1>1. CASE y = x
  BY <1>1
<1>2. CASE y.stage \notin Active /\ y.batch = <<>> /\ y.told = {} /\ (y.items = x.items \/ y.items = <<>>)
  <2>1. Range(y.batch) = {} /\ Range(y.items) \subseteq Range(x.items)
    BY <1>2, EmptyRange
  <2>2. \A i, j \in DOMAIN y.items : i < j => Before(ord, y.items[i], y.items[j])
    BY <1>2, EmptyRange DEF SoundQueue
  <2>. QED
    BY <1>2, <2>1, <2>2 DEF SoundQueue, Has
<1>. QED
  BY <1>1, <1>2 DEF Calmed

LEMMA CalmedQueues ==
  ASSUME NEW qs, NEW rs \in [Objects -> QueueRec], NEW rec, NEW ord, NEW rns, QueuesOK(qs, rec, ord, rns),
         \A c \in Objects : Calmed(qs[c], rs[c])
  PROVE  QueuesOK(rs, rec, ord, rns)
<1>1. \A c \in Objects : SoundQueue(rs[c], rec, ord) /\ Has(rs[c]) \subseteq Has(qs[c])
  BY CalmedSound DEF QueuesOK
<1>2. \A c, d \in Objects : c # d => Has(rs[c]) \cap Has(rs[d]) = {}
  BY <1>1 DEF QueuesOK
<1>3. \A c \in Objects : \A m \in Has(rs[c]) : rns[m] = 0
  BY <1>1 DEF QueuesOK
<1>. QED
  BY <1>1, <1>2, <1>3 DEF QueuesOK

(* Of calmed queues fewer drain, in front of what they drained. *)
LEMMA CalmedFronts ==
  ASSUME NEW qs, NEW rs, NEW cur, NEW nxt, NEW f, NEW g, NEW exc, FrontsOK(qs, cur, f, exc),
         \A c \in Objects : Calmed(qs[c], rs[c]), nxt = cur \/ nxt = None, None \notin Objects,
         \A m \in Messages : g[m] = "lost" => f[m] = "lost"
  PROVE  FrontsOK(rs, nxt, g, exc)
<1>. SUFFICES ASSUME "overflow in flight" \notin exc, NEW o \in Objects, rs[o].stage \in Active
              PROVE  FrontOK(rs[o], o = nxt)
  BY DEF FrontsOK, FrontOK
<1>1. rs[o] = qs[o]
  BY DEF Calmed
<1>2. FrontOK(qs[o], o = cur)
  BY DEF FrontsOK
<1>. QED
  BY <1>1, <1>2 DEF FrontOK

(* Nobody is needed to look at the queue, or somebody drains. *)
Watched(qs, cur) == cur # None /\ qs[cur].items # <<>> => \E o \in Objects : Draining(qs[o])

(* Good for calmed queues, from what is left to say of the map and of what  *)
(* becomes of the messages.                                                *)
LEMMA CalmedGood ==
  ASSUME FollowupQueueAssumption, NEW qs, NEW rs \in [Objects -> QueueRec], NEW cur, NEW nxt, NEW f, NEW g,
         NEW rec, NEW ord, NEW rns, NEW exc, Good(qs, cur, f, rec, ord, rns, exc),
         \A c \in Objects : Calmed(qs[c], rs[c]), nxt = cur \/ nxt = None,
         g \in [Messages -> Fates], \A m \in Messages : g[m] = "lost" => f[m] = "lost",
         Mapped(rs, nxt), QueuedKept(rs, g), DrainsOK(rs, nxt, g, exc)
  PROVE  Good(rs, nxt, g, rec, ord, rns, exc)
<1>1. QueuesOK(rs, rec, ord, rns)
  BY CalmedQueues DEF Good
<1>2. FrontsOK(rs, nxt, g, exc)
  BY CalmedFronts DEF Good, FollowupQueueAssumption
<1>. QED
  BY <1>1, <1>2 DEF Good

(* scheduleFollowupDrain *)
LEMMA ScheduleKeepsGood ==
  ASSUME FollowupQueueAssumption, NEW qs, NEW cur, NEW f, NEW rec, NEW ord, NEW rns, NEW exc,
         Good(qs, cur, f, rec, ord, rns, exc), ScheduleDrain(qs, cur, f)
  PROVE  /\ Good(q', current', fate', rec, ord, rns, exc) /\ Watched(q', current')
         /\ \A c \in Objects : q'[c].stage = "running" <=> qs[c].stage = "running"
<1>0. qs \in [Objects -> QueueRec] /\ cur \in Objects \cup {None} /\ None \notin Objects
  BY DEF Good, QueuesOK, FollowupQueueAssumption
<1>1. CASE cur = None \/ Draining(qs[cur])
  <2>1. q' = qs /\ current' = cur /\ fate' = f
    BY <1>1 DEF ScheduleDrain
  <2>. QED
    BY <1>0, <1>1, <2>1 DEF Watched
<1>2. CASE cur # None /\ ~Draining(qs[cur]) /\ Pending(qs[cur])
  <2>1. /\ cur \in Objects /\ qs[cur].stage = "none" /\ current' = cur /\ fate' = f
        /\ q' = [qs EXCEPT ![cur].stage = "debounce", ![cur].force = FALSE]
    BY <1>0, <1>2 DEF ScheduleDrain, Draining
  <2>2. q' = [qs EXCEPT ![cur] = [[qs[cur] EXCEPT !.stage = "debounce"] EXCEPT !.force = FALSE]]
    BY <1>0, <2>1
  <2>. DEFINE y == [[qs[cur] EXCEPT !.stage = "debounce"] EXCEPT !.force = FALSE]
  <2>3. y \in QueueRec /\ y.stage = "debounce" /\ y.items = qs[cur].items /\ y.batch = qs[cur].batch
        /\ y.told = qs[cur].told
    <3>1. PICK x \in QueueRec : x = qs[cur]
      BY <1>0, <2>1
    <3>2. PICK u : u = [x EXCEPT !.stage = "debounce"]
      OBVIOUS
    <3>3. /\ u \in QueueRec /\ u.stage = "debounce" /\ u.items = x.items /\ u.batch = x.batch /\ u.told = x.told
      BY <3>2 DEF QueueRec, DrainStages
    <3>4. y = [u EXCEPT !.force = FALSE]
      BY <3>1, <3>2
    <3>5. y \in QueueRec /\ y.stage = u.stage /\ y.items = u.items /\ y.batch = u.batch /\ y.told = u.told
      BY <3>3, <3>4 DEF QueueRec
    <3>. QED
      BY <3>1, <3>3, <3>5
  <2>4. qs[cur].batch = <<>> /\ qs[cur].told = {}
    BY <2>1 DEF Good, QueuesOK, SoundQueue, Active
  <2>5. Calmed(qs[cur], y)
    BY <2>3, <2>4 DEF Calmed, Active
  <2>. HIDE DEF y
  <2>6. q'[cur] = y /\ (\A c \in Objects : c # cur => q'[c] = qs[c]) /\ q' \in [Objects -> QueueRec]
    BY <1>0, <2>1, <2>2, <2>3 DEF y
  <2>7. \A c \in Objects : Calmed(qs[c], q'[c])
    BY <2>5, <2>6 DEF Calmed
  <2>8. Mapped(q', cur)
    BY <2>6 DEF Good, Mapped
  <2>9. QueuedKept(q', f)
    BY <2>3, <2>6 DEF Good, QueuedKept
  <2>10. DrainsOK(q', cur, f, exc)
    BY <2>6 DEF Good, DrainsOK
  <2>11. Good(q', cur, f, rec, ord, rns, exc)
    <3>1. f \in [Messages -> Fates]
      BY DEF Good
    <3>. QED
      BY <2>6, <2>7, <2>8, <2>9, <2>10, <3>1, CalmedGood
  <2>12. Watched(q', cur)
    BY <2>1, <2>3, <2>6 DEF Watched, Draining
  <2>. QED
    BY <2>1, <2>3, <2>6, <2>11, <2>12
<1>3. CASE cur # None /\ ~Draining(qs[cur]) /\ ~Pending(qs[cur])
  <2>1. /\ cur \in Objects /\ qs[cur].stage = "none" /\ current' = None /\ fate' = f
        /\ q' = [qs EXCEPT ![cur] = Blank] /\ qs[cur].items = <<>>
    BY <1>0, <1>3 DEF ScheduleDrain, Draining, Pending
  <2>2. q'[cur] = Blank /\ (\A c \in Objects : c # cur => q'[c] = qs[c]) /\ q' \in [Objects -> QueueRec]
    BY <1>0, <2>1, BlankFacts
  <2>3. Calmed(qs[cur], Blank)
    BY BlankFacts DEF Calmed, Active
  <2>4. \A c \in Objects : Calmed(qs[c], q'[c])
    BY <2>2, <2>3 DEF Calmed
  <2>5. Mapped(q', None)
    BY <2>2, BlankFacts DEF Good, Mapped
  <2>6. QueuedKept(q', f)
    BY <2>1, <2>2, EmptyRange DEF Good, QueuedKept
  <2>7. DrainsOK(q', None, f, exc)
    BY <2>1, <2>2, BlankFacts DEF Good, DrainsOK, Draining
  <2>8. Good(q', None, f, rec, ord, rns, exc)
    <3>1. f \in [Messages -> Fates]
      BY DEF Good
    <3>. QED
      BY <2>2, <2>4, <2>5, <2>6, <2>7, <3>1, CalmedGood
  <2>. QED
    BY <2>1, <2>2, <2>8, BlankFacts DEF Watched
<1>. QED
  BY <1>1, <1>2, <1>3

(* The queues a drain of o leaves, before it may begin again; which of them *)
(* nobody holds any more; and what becomes of the messages in those.       *)
Idle(qs, o) == [qs EXCEPT ![o] = [@ EXCEPT !.stage = "none", !.batch = <<>>, !.told = {}]]
Left(idle, o, cur) ==
  IF Pending(idle[o]) THEN {o} \ {cur} ELSE {c \in {o, cur} \ {None} : ~Draining(idle[c])}
Swept(idle, left) == [c \in Objects |-> IF c \in left THEN Blank ELSE idle[c]]
Strand(f, idle, left) == Mark(f, {m \in Messages : \E c \in left : m \in Range(idle[c].items)}, "stranded")

LEMMA SweptGood ==
  ASSUME FollowupQueueAssumption, NEW qs, NEW o \in Objects, NEW cur, NEW f, NEW rec, NEW ord, NEW rns, NEW exc,
         Good(qs, cur, f, rec, ord, rns, exc), Draining(qs[o]), NEW idle, NEW left,
         idle = Idle(qs, o), left = Left(idle, o, cur)
  PROVE  /\ Good(Swept(idle, left), IF Pending(idle[o]) THEN cur ELSE None, Strand(f, idle, left), rec, ord, rns, exc)
         /\ \A c \in Objects : Swept(idle, left)[c].stage = "running" <=> qs[c].stage = "running" /\ c # o
<1>. DEFINE swept == Swept(idle, left)
            f2 == Strand(f, idle, left)
<1>0. /\ qs \in [Objects -> QueueRec] /\ cur \in Objects \cup {None} /\ None \notin Objects
      /\ f \in [Messages -> Fates] /\ Mapped(qs, cur) /\ QueuedKept(qs, f) /\ DrainsOK(qs, cur, f, exc)
  BY DEF Good, QueuesOK, FollowupQueueAssumption
<1>. DEFINE y == [qs[o] EXCEPT !.stage = "none", !.batch = <<>>, !.told = {}]
<1>1. /\ y \in QueueRec /\ y.stage = "none" /\ y.batch = <<>> /\ y.told = {} /\ y.items = qs[o].items
      /\ idle = [qs EXCEPT ![o] = y]
  <2>1. qs[o] \in QueueRec /\ <<>> \in Seq(Messages) /\ "none" \in DrainStages
    BY <1>0, EmptySeq DEF DrainStages
  <2>2. /\ y \in QueueRec /\ y.stage = "none" /\ y.batch = <<>> /\ y.told = {} /\ y.items = qs[o].items
    BY <2>1 DEF QueueRec
  <2>. QED
    BY <2>2 DEF Idle
<1>. HIDE DEF y
<1>2. /\ idle \in [Objects -> QueueRec] /\ idle[o] = y /\ \A c \in Objects : c # o => idle[c] = qs[c]
      /\ \A c \in Objects : idle[c].items = qs[c].items
  BY <1>0, <1>1
<1>3. \A c \in Objects : Calmed(qs[c], idle[c])
  BY <1>1, <1>2 DEF Calmed, Active
<1>4. left \subseteq Objects /\ \A c \in left : ~Draining(idle[c])
  BY <1>0, <1>1, <1>2 DEF Draining, Left
<1>5. swept \in [Objects -> QueueRec] /\ \A c \in Objects : swept[c] = IF c \in left THEN Blank ELSE idle[c]
  BY <1>2, BlankFacts DEF Swept
<1>6. \A c \in Objects : Calmed(qs[c], swept[c])
  BY <1>3, <1>5, BlankFacts DEF Calmed, Active
<1>7. /\ f2 \in [Messages -> Fates] /\ \A m \in Messages : f2[m] = f[m] \/ f2[m] = "stranded"
      /\ \A m \in Messages : f2[m] = "stranded" => f[m] = "stranded" \/ \E c \in left : m \in Range(idle[c].items)
      /\ \A m \in Messages : (\E c \in left : m \in Range(idle[c].items)) => f2[m] = "stranded"
  BY <1>0 DEF Mark, Fates, Strand
<1>. HIDE DEF swept, f2
<1>8. QueuedKept(swept, f2)
  <2>. SUFFICES ASSUME NEW m \in Messages, f2[m] = "queued" PROVE \E c \in Objects : m \in Range(swept[c].items)
    BY DEF QueuedKept
  <2>1. f[m] = "queued" /\ ~\E c \in left : m \in Range(idle[c].items)
    BY <1>7
  <2>2. PICK c \in Objects : m \in Range(qs[c].items)
    BY <1>0, <2>1 DEF QueuedKept
  <2>3. m \in Range(idle[c].items) /\ c \notin left
    BY <1>2, <2>1, <2>2
  <2>. QED
    BY <1>5, <2>3
<1>9. "clear in flight" \notin exc => /\ o = cur /\ \A c \in Objects : Draining(qs[c]) => c = o
                                      /\ \A m \in Messages : f[m] # "stranded"
  BY <1>0 DEF DrainsOK
<1>10. \A c \in Objects : swept[c].stage = "running" <=> qs[c].stage = "running" /\ c # o
  <2>. SUFFICES ASSUME NEW c \in Objects
                PROVE  swept[c].stage = "running" <=> qs[c].stage = "running" /\ c # o
    OBVIOUS
  <2>1. CASE c \in left
    BY <1>1, <1>2, <1>4, <1>5, <2>1, BlankFacts DEF Draining
  <2>2. CASE c \notin left
    BY <1>1, <1>2, <1>5, <2>2
  <2>. QED
    BY <2>1, <2>2
<1>11. CASE Pending(idle[o])
  <2>1. left = {o} \ {cur}
    BY <1>11 DEF Left
  <2>2. Mapped(swept, cur)
    <3>. SUFFICES ASSUME NEW c \in Objects, c # cur, swept[c].stage = "none" PROVE swept[c].items = <<>>
      BY DEF Mapped
    <3>1. CASE c = o
      BY <1>5, <2>1, <3>1, BlankFacts
    <3>2. CASE c # o
      BY <1>0, <1>2, <1>5, <2>1, <3>2 DEF Mapped
    <3>. QED
      BY <3>1, <3>2
  <2>3. DrainsOK(swept, cur, f2, exc)
    <3>. SUFFICES ASSUME "clear in flight" \notin exc
                  PROVE  /\ \A c \in Objects : Draining(swept[c]) => c = cur
                         /\ \A m \in Messages : f2[m] # "stranded"
      BY DEF DrainsOK
    <3>1. o = cur /\ left = {}
      BY <1>9, <2>1
    <3>2. \A c \in Objects : Draining(swept[c]) => c = cur
      BY <1>2, <1>5, <1>9, <3>1
    <3>. QED
      BY <1>7, <1>9, <3>1, <3>2
  <2>. QED
    BY <1>5, <1>6, <1>7, <1>8, <1>10, <1>11, <2>2, <2>3, CalmedGood DEF swept, f2
<1>12. CASE ~Pending(idle[o])
  <2>1. left = {c \in {o, cur} \ {None} : ~Draining(idle[c])} /\ o \in left /\ idle[o].items = <<>>
    BY <1>0, <1>1, <1>2, <1>12 DEF Pending, Draining, Left
  <2>2. Mapped(swept, None)
    <3>. SUFFICES ASSUME NEW c \in Objects, swept[c].stage = "none", c \notin left PROVE swept[c].items = <<>>
      BY <1>5, BlankFacts DEF Mapped
    <3>1. c # o /\ swept[c] = qs[c] /\ qs[c].stage = "none"
      BY <1>2, <1>5, <2>1
    <3>2. c # cur
      BY <1>0, <1>2, <2>1, <3>1 DEF Draining
    <3>. QED
      BY <1>0, <3>1, <3>2 DEF Mapped
  <2>3. DrainsOK(swept, None, f2, exc)
    <3>. SUFFICES ASSUME "clear in flight" \notin exc
                  PROVE  /\ \A c \in Objects : ~Draining(swept[c])
                         /\ \A m \in Messages : f2[m] # "stranded"
      BY DEF DrainsOK
    <3>1. o = cur /\ left = {o}
      BY <1>0, <1>9, <2>1
    <3>2. \A c \in Objects : ~Draining(swept[c])
      BY <1>2, <1>5, <1>9, <3>1, BlankFacts DEF Draining
    <3>. QED
      BY <1>7, <1>9, <2>1, <3>1, <3>2, EmptyRange
  <2>. QED
    BY <1>5, <1>6, <1>7, <1>8, <1>10, <1>12, <2>2, <2>3, CalmedGood DEF swept, f2
<1>. QED
  BY <1>11, <1>12

FinishWith(idle, o, f) ==
  IF Pending(idle[o]) THEN ScheduleDrain(Swept(idle, Left(idle, o, current)), current, Strand(f, idle, Left(idle, o, current)))
  ELSE /\ q' = Swept(idle, Left(idle, o, current)) /\ current' = None
       /\ fate' = Strand(f, idle, Left(idle, o, current))

LEMMA FinishMeans ==
  ASSUME NEW qs, NEW o, NEW f
  PROVE  Finish(qs, o, f) <=> FinishWith(Idle(qs, o), o, f)
  BY DEF Finish, FinishWith, Idle, Left, Swept, Strand

(* The drain's finally. *)
LEMMA FinishKeepsGood ==
  ASSUME FollowupQueueAssumption, NEW qs, NEW o \in Objects, NEW f, NEW rec, NEW ord, NEW rns, NEW exc,
         Good(qs, current, f, rec, ord, rns, exc), Draining(qs[o]), Finish(qs, o, f)
  PROVE  /\ Good(q', current', fate', rec, ord, rns, exc) /\ Watched(q', current')
         /\ \A c \in Objects : q'[c].stage = "running" <=> qs[c].stage = "running" /\ c # o
<1>. DEFINE idle == Idle(qs, o)
            left == Left(idle, o, current)
            swept == Swept(idle, left)
            f2 == Strand(f, idle, left)
<1>1. IF Pending(idle[o]) THEN ScheduleDrain(swept, current, f2)
      ELSE q' = swept /\ current' = None /\ fate' = f2
  BY DEF Finish, Idle, Left, Swept, Strand
<1>2. /\ Good(swept, IF Pending(idle[o]) THEN current ELSE None, f2, rec, ord, rns, exc)
      /\ \A c \in Objects : swept[c].stage = "running" <=> qs[c].stage = "running" /\ c # o
  BY SweptGood
<1>. HIDE DEF idle, left, swept, f2
<1>3. CASE Pending(idle[o])
  <2>1. Good(swept, current, f2, rec, ord, rns, exc) /\ ScheduleDrain(swept, current, f2)
    BY <1>1, <1>2, <1>3
  <2>2. /\ Good(q', current', fate', rec, ord, rns, exc) /\ Watched(q', current')
        /\ \A c \in Objects : q'[c].stage = "running" <=> swept[c].stage = "running"
    BY <2>1, ScheduleKeepsGood
  <2>. QED
    BY <1>2, <2>2
<1>4. CASE ~Pending(idle[o])
  BY <1>1, <1>2, <1>4 DEF Watched
<1>. QED
  BY <1>3, <1>4

-----------------------------------------------------------------------------
LEMMA MoreExcusesGood ==
  ASSUME NEW qs, NEW cur, NEW f, NEW rec, NEW ord, NEW rns, NEW exc, NEW more,
         Good(qs, cur, f, rec, ord, rns, exc), exc \subseteq more
  PROVE  Good(qs, cur, f, rec, ord, rns, more)
  BY DEF Good, FrontsOK, DrainsOK

LEMMA MarkFacts ==
  ASSUME NEW f \in [Messages -> Fates], NEW ms, NEW what \in Fates
  PROVE  /\ Mark(f, ms, what) \in [Messages -> Fates]
         /\ \A m \in Messages : Mark(f, ms, what)[m] = IF m \in ms THEN what ELSE f[m]
  BY DEF Mark

(* A mark that does not say a message is queued, lost or stranded. *)
LEMMA MarkGood ==
  ASSUME NEW qs, NEW cur, NEW f, NEW rec, NEW ord, NEW rns, NEW exc,
         Good(qs, cur, f, rec, ord, rns, exc), NEW ms, NEW what \in Fates \ {"queued", "lost", "stranded"}
  PROVE  Good(qs, cur, Mark(f, ms, what), rec, ord, rns, exc)
<1>. PICK g : g = Mark(f, ms, what)
  OBVIOUS
<1>0. f \in [Messages -> Fates]
  BY DEF Good
<1>1. g \in [Messages -> Fates] /\ \A m \in Messages : g[m] = IF m \in ms THEN what ELSE f[m]
  BY <1>0, MarkFacts
<1>2. QueuedKept(qs, g) /\ FrontsOK(qs, cur, g, exc) /\ DrainsOK(qs, cur, g, exc)
  BY <1>1 DEF Good, QueuedKept, FrontsOK, DrainsOK
<1>. QED
  BY <1>1, <1>2 DEF Good

(* An object that is replaced by one with the same items and batch, and is  *)
(* or becomes the map's.                                                   *)
LEMMA ReplaceGood ==
  ASSUME FollowupQueueAssumption, NEW qs, NEW cur, NEW f, NEW rec, NEW ord, NEW rns, NEW exc,
         Good(qs, cur, f, rec, ord, rns, exc), NEW o \in Objects, NEW y \in QueueRec,
         cur = o \/ (cur = None /\ qs[o].stage = "none"),
         y.items = qs[o].items, y.batch = qs[o].batch, y.stage = qs[o].stage, y.told = qs[o].told,
         y.stage \in Active => y.kind = qs[o].kind /\ y.dropped = qs[o].dropped
  PROVE  Good([qs EXCEPT ![o] = y], o, f, rec, ord, rns, exc)
<1>. PICK rs : rs = [qs EXCEPT ![o] = y]
  OBVIOUS
<1>0. QueuesOK(qs, rec, ord, rns) /\ qs \in [Objects -> QueueRec] /\ f \in [Messages -> Fates]
  BY DEF Good, QueuesOK
<1>1. rs \in [Objects -> QueueRec] /\ rs[o] = y /\ \A c \in Objects : c # o => rs[c] = qs[c]
  BY <1>0
<1>2. SoundQueue(y, rec, ord) /\ Has(y) = Has(qs[o])
  BY <1>0 DEF QueuesOK, SoundQueue, Taken, Has
<1>3. QueuesOK(rs, rec, ord, rns)
  <2>1. \A c \in Objects : SoundQueue(rs[c], rec, ord) /\ Has(rs[c]) = Has(qs[c])
    BY <1>0, <1>1, <1>2 DEF QueuesOK
  <2>. QED
    BY <1>0, <1>1, <2>1 DEF QueuesOK
<1>4. Mapped(rs, o)
  BY <1>1 DEF Good, Mapped, FollowupQueueAssumption
<1>5. QueuedKept(rs, f)
  BY <1>1 DEF Good, QueuedKept
<1>6. FrontsOK(rs, o, f, exc)
  <2>. SUFFICES ASSUME "overflow in flight" \notin exc, NEW c \in Objects, rs[c].stage \in Active
                PROVE  FrontOK(rs[c], c = o)
    BY DEF Good, FrontsOK, FrontOK
  <2>1. FrontOK(qs[c], c = cur)
    BY DEF Good, FrontsOK
  <2>2. CASE c = o
    <3>1. cur = o
      BY <1>1, <2>2 DEF Active
    <3>. QED
      BY <1>1, <2>1, <2>2, <3>1 DEF FrontOK, Taken
  <2>3. CASE c # o
    BY <1>1, <2>1, <2>3 DEF FrontOK
  <2>. QED
    BY <2>2, <2>3
<1>7. DrainsOK(rs, o, f, exc)
  BY <1>1 DEF Good, DrainsOK, Draining, FollowupQueueAssumption
<1>. QED
  BY <1>0, <1>3, <1>4, <1>5, <1>6, <1>7 DEF Good

(* The look at the run that follows an enqueue. *)
LEMMA AfterEnqueueKeepsGood ==
  ASSUME FollowupQueueAssumption, NEW qs, NEW cur, NEW f, NEW rec, NEW ord, NEW rns, NEW exc,
         Good(qs, cur, f, rec, ord, rns, exc), AfterEnqueue(qs, cur, f)
  PROVE  /\ Good(q', current', fate', rec, ord, rns, exc) /\ (RunActive \/ Watched(q', current'))
         /\ \A c \in Objects : q'[c].stage = "running" <=> qs[c].stage = "running"
<1>1. CASE RunActive
  BY <1>1 DEF AfterEnqueue
<1>2. CASE ~RunActive
  <2>1. ScheduleDrain(qs, cur, f)
    BY <1>2 DEF AfterEnqueue
  <2>. QED
    BY <2>1, ScheduleKeepsGood
<1>. QED
  BY <1>1, <1>2

-----------------------------------------------------------------------------
(* What is to show of a step. *)
LEMMA InvFrom ==
  ASSUME Good(q', current', fate', recent', order', runs', excuses'), HistoryOK(recent', order', runs'),
         OpOK(q', op'), Scalars', Watched(q', current') \/ op' # None \/ foreign'
  PROVE  FollowupInv'
<1>1. IdleOnlyAfterForeign'
  BY DEF IdleOnlyAfterForeign, IdleWithItems, RunActive, Watched
<1>. QED
  BY <1>1 DEF FollowupInv

LEMMA ArriveKeepsInv ==
  ASSUME FollowupInv, NEW m \in Messages, Arrive(m)
  PROVE  FollowupInv'
<1>1. /\ arriving' = arriving \cup {m} /\ arrivals' = [arrivals EXCEPT ![m] = @ + 1]
      /\ UNCHANGED <<q, current, fate, runs, order, recent, op, foreign, failures, excuses>>
      /\ RunActive
  BY DEF Arrive, registry, history
<1>2. Scalars'
  BY <1>1 DEF FollowupInv, Scalars
<1>. QED
  BY <1>1, <1>2, InvFrom DEF FollowupInv, RunActive

LEMMA DirectRunKeepsInv ==
  ASSUME FollowupQueueAssumption, FollowupInv, NEW m \in Messages, DirectRun(m)
  PROVE  FollowupInv'
<1>1. /\ op = None /\ op' = "direct" /\ arrivals' = [arrivals EXCEPT ![m] = @ + 1]
      /\ UNCHANGED <<q, current, fate, runs, order, recent, arriving, foreign, failures, excuses>>
  BY DEF DirectRun, registry, history, RunActive
<1>2. Scalars'
  BY <1>1 DEF FollowupInv, Scalars
<1>3. OpOK(q', op')
  BY <1>1 DEF FollowupInv, OpOK, FollowupQueueAssumption
<1>4. op' # None
  BY <1>1 DEF FollowupQueueAssumption
<1>. QED
  BY <1>1, <1>2, <1>3, <1>4, InvFrom DEF FollowupInv

LEMMA ForeignKeepsInv ==
  ASSUME FollowupInv, ForeignStarts \/ ForeignEnds
  PROVE  FollowupInv'
<1>0. /\ UNCHANGED <<q, current, fate, runs, order, recent, op, arriving, arrivals, failures>>
      /\ foreign' \in BOOLEAN /\ excuses \subseteq excuses' /\ excuses' \subseteq Excuses
  BY DEF ForeignStarts, ForeignEnds, registry, history, FollowupInv, Scalars, Excuses
<1>1. Scalars'
  BY <1>0 DEF FollowupInv, Scalars
<1>2. Good(q', current', fate', recent', order', runs', excuses')
  BY <1>0, MoreExcusesGood DEF FollowupInv
<1>3. CASE ForeignStarts
  BY <1>0, <1>1, <1>2, <1>3, InvFrom DEF FollowupInv, ForeignStarts
<1>4. CASE ForeignEnds
  <2>1. IdleOnlyAfterForeign'
    <3>. SUFFICES ASSUME current # None, q[current].items # <<>>, op = None, \A o \in Objects : ~Draining(q[o])
                  PROVE  "foreign run" \in excuses'
      BY <1>0 DEF IdleOnlyAfterForeign, IdleWithItems, RunActive
    <3>1. current \in Objects
      BY DEF FollowupInv, Good
    <3>. QED
      BY <1>4, <3>1 DEF ForeignEnds, Pending
  <2>. QED
    BY <1>0, <1>1, <1>2, <2>1 DEF FollowupInv
<1>. QED
  BY <1>3, <1>4

LEMMA DirectEndsKeepsInv ==
  ASSUME FollowupQueueAssumption, FollowupInv, DirectEnds
  PROVE  FollowupInv'
<1>1. /\ op = "direct" /\ op' = None /\ ScheduleDrain(q, current, fate)
      /\ UNCHANGED <<runs, order, recent, foreign, arriving, arrivals, failures, excuses>>
  BY DEF DirectEnds, history
<1>2. /\ Good(q', current', fate', recent, order, runs, excuses) /\ Watched(q', current')
      /\ \A c \in Objects : q'[c].stage = "running" <=> q[c].stage = "running"
  BY <1>1, ScheduleKeepsGood DEF FollowupInv
<1>3. OpOK(q', op')
  BY <1>1, <1>2 DEF FollowupInv, OpOK, FollowupQueueAssumption
<1>4. Scalars'
  BY <1>1 DEF FollowupInv, Scalars
<1>. QED
  BY <1>1, <1>2, <1>3, <1>4, InvFrom DEF FollowupInv

(* clearSessionQueues: a drain that goes on with what is out of the map has *)
(* its batch, but nothing more to run.                                     *)
LEMMA ClearKeepsInv ==
  ASSUME FollowupQueueAssumption, FollowupInv, ClearSessionQueues
  PROVE  FollowupInv'
<1>. DEFINE hit == Range(q[current].items) \cup q[current].dropped
            y == [q[current] EXCEPT !.items = <<>>, !.dropped = {}, !.lastRun = FALSE]
<1>1. /\ current # None /\ current' = None
      /\ q' = [q EXCEPT ![current] = IF ~Draining(q[current]) THEN Blank ELSE y]
      /\ fate' = Mark(fate, hit, "cleared")
      /\ excuses' = IF Draining(q[current]) THEN excuses \cup {"clear in flight"} ELSE excuses
      /\ UNCHANGED <<runs, order, recent, op, foreign, arriving, arrivals, failures>>
  BY DEF ClearSessionQueues, history
<1>. HIDE DEF hit
<1>2. /\ Good(q, current, fate, recent, order, runs, excuses) /\ QueuesOK(q, recent, order, runs)
      /\ q \in [Objects -> QueueRec] /\ fate \in [Messages -> Fates]
  BY DEF FollowupInv, Good, QueuesOK
<1>3. PICK o \in Objects : o = current
  BY <1>1, <1>2 DEF Good
<1>4. /\ y \in QueueRec /\ y.items = <<>> /\ y.dropped = {} /\ y.batch = q[o].batch
      /\ y.stage = q[o].stage /\ y.told = q[o].told /\ y.kind = q[o].kind
  <2>1. q[o] \in QueueRec /\ <<>> \in Seq(Messages)
    BY <1>2, EmptySeq
  <2>2. y = [q[o] EXCEPT !.items = <<>>, !.dropped = {}, !.lastRun = FALSE]
    BY <1>3
  <2>. QED
    BY <2>1, <2>2 DEF QueueRec
<1>. HIDE DEF y
<1>5. /\ q'[o] = IF ~Draining(q[o]) THEN Blank ELSE y
      /\ q' \in [Objects -> QueueRec] /\ \A c \in Objects : c # o => q'[c] = q[c]
  BY <1>1, <1>2, <1>3, <1>4, BlankFacts
<1>6. q'[o].items = <<>> /\ q'[o].stage = q[o].stage
  BY <1>4, <1>5, BlankFacts DEF Draining
<1>7. /\ fate' \in [Messages -> Fates]
      /\ \A m \in Messages : fate'[m] = IF m \in hit THEN "cleared" ELSE fate[m]
  <2>1. "cleared" \in Fates
    BY DEF Fates
  <2>2. fate' = Mark(fate, hit, "cleared")
    BY <1>1
  <2>. QED
    BY <1>2, <2>1, <2>2 DEF Mark
<1>8. Mapped(q', None)
  <2>. SUFFICES ASSUME NEW c \in Objects, c # o, q[c].stage = "none" PROVE q[c].items = <<>>
    BY <1>5, <1>6 DEF Mapped
  <2>. QED
    BY <1>2, <1>3 DEF Good, Mapped
<1>9. QueuedKept(q', fate')
  <2>. SUFFICES ASSUME NEW m \in Messages, fate'[m] = "queued" PROVE \E c \in Objects : m \in Range(q'[c].items)
    BY DEF QueuedKept
  <2>1. m \notin Range(q[o].items) /\ fate[m] = "queued"
    BY <1>3, <1>7 DEF hit
  <2>2. PICK c \in Objects : m \in Range(q[c].items)
    BY <1>2, <2>1 DEF Good, QueuedKept
  <2>. QED
    BY <1>5, <2>1, <2>2
<1>10. SoundQueue(q'[o], recent, order) /\ Has(q'[o]) \subseteq Has(q[o])
  <2>1. SoundQueue(q[o], recent, order)
    BY <1>2 DEF QueuesOK
  <2>2. CASE ~Draining(q[o])
    BY <1>5, <2>2, BlankFacts, EmptyRange DEF SoundQueue, Has, Active
  <2>3. CASE Draining(q[o])
    BY <1>4, <1>5, <2>1, <2>3, EmptyRange DEF SoundQueue, Has
  <2>. QED
    BY <2>2, <2>3
<1>11. QueuesOK(q', recent, order, runs)
  <2>1. \A c \in Objects : SoundQueue(q'[c], recent, order) /\ Has(q'[c]) \subseteq Has(q[c])
    BY <1>2, <1>5, <1>10 DEF QueuesOK
  <2>. QED
    BY <1>2, <1>5, <2>1 DEF QueuesOK
<1>12. FrontsOK(q', None, fate', excuses')
  <2>. SUFFICES ASSUME "overflow in flight" \notin excuses', NEW c \in Objects, q'[c].stage \in Active
                PROVE  FrontOK(q'[c], FALSE)
    <3>1. "overflow in flight" \notin excuses' => \A m \in Messages : fate'[m] # "lost"
      BY <1>1, <1>2, <1>7 DEF Good, FrontsOK
    <3>. QED
      BY <3>1 DEF FrontsOK, FrontOK, FollowupQueueAssumption
  <2>1. FrontOK(q[c], c = current)
    BY <1>1, <1>2 DEF Good, FrontsOK
  <2>2. CASE c # o
    BY <1>5, <2>1, <2>2 DEF FrontOK
  <2>3. CASE c = o
    BY <1>4, <1>5, <2>3, EmptyRange, BlankFacts DEF FrontOK, Active
  <2>. QED
    BY <2>2, <2>3
<1>13. DrainsOK(q', None, fate', excuses')
  <2>. SUFFICES ASSUME "clear in flight" \notin excuses'
                PROVE  /\ \A c \in Objects : ~Draining(q'[c])
                       /\ \A m \in Messages : fate'[m] # "stranded"
    BY DEF DrainsOK
  <2>1. ~Draining(q[o]) /\ DrainsOK(q, current, fate, excuses) /\ "clear in flight" \notin excuses
    BY <1>1, <1>2, <1>3 DEF Good
  <2>. QED
    BY <1>3, <1>5, <1>6, <1>7, <2>1 DEF DrainsOK, Draining
<1>14. Good(q', current', fate', recent', order', runs', excuses')
  BY <1>1, <1>7, <1>8, <1>9, <1>11, <1>12, <1>13 DEF Good
<1>15. OpOK(q', op')
  BY <1>1, <1>5, <1>6 DEF FollowupInv, OpOK
<1>16. Scalars'
  BY <1>1 DEF FollowupInv, Scalars, Excuses
<1>. QED
  BY <1>1, <1>14, <1>15, <1>16, InvFrom DEF FollowupInv, Watched

-----------------------------------------------------------------------------
(* enqueueFollowupRun.  The items after an overflow and an arrival, and the *)
(* items that made room.                                                   *)
Shifted(s, n, m) == Append(SubSeq(s, n + 1, Len(s)), m)
Oldest(s, n) == Range(SubSeq(s, 1, n))

LEMMA AppendFacts ==
  ASSUME NEW u \in Seq(Messages), NEW m \in Messages
  PROVE  /\ Append(u, m) \in Seq(Messages) /\ Len(Append(u, m)) = Len(u) + 1 /\ Len(u) \in Nat
         /\ DOMAIN Append(u, m) = 1..(Len(u) + 1)
         /\ (\A i \in 1..Len(u) : Append(u, m)[i] = u[i]) /\ Append(u, m)[Len(u) + 1] = m
<1>1. Len(u) \in Nat
  OBVIOUS
<1>2. Append(u, m) \in Seq(Messages) /\ Len(Append(u, m)) = Len(u) + 1
  OBVIOUS
<1>3. DOMAIN Append(u, m) = 1..(Len(u) + 1)
  BY <1>2
<1>4. (\A i \in 1..Len(u) : Append(u, m)[i] = u[i]) /\ Append(u, m)[Len(u) + 1] = m
  BY <1>1
<1>. QED
  BY <1>1, <1>2, <1>3, <1>4

ShiftOf(s, n, m, t) ==
  /\ t \in Seq(Messages) /\ Len(t) = Len(s) - n + 1 /\ Len(s) \in Nat
  /\ DOMAIN t = 1..(Len(s) - n + 1) /\ DOMAIN s = 1..Len(s)
  /\ \A i \in 1..(Len(s) - n) : t[i] = s[n + i]
  /\ t[Len(s) - n + 1] = m
  /\ Range(t) \subseteq Range(s) \cup {m}
  /\ m \in Range(t)
  /\ \A d \in Range(s) : d \in Range(t) \/ d \in Oldest(s, n)

LEMMA ShiftFacts ==
  ASSUME NEW s \in Seq(Messages), NEW n \in 0..Len(s), NEW m \in Messages
  PROVE  ShiftOf(s, n, m, Shifted(s, n, m))
<1>0. PICK t : t = Shifted(s, n, m)
  OBVIOUS
<1>1. Len(s) \in Nat /\ DOMAIN s = 1..Len(s) /\ \A i \in 1..Len(s) : s[i] \in Messages
  OBVIOUS
<1>2. /\ SubSeq(s, n + 1, Len(s)) \in Seq(Messages) /\ Len(SubSeq(s, n + 1, Len(s))) = Len(s) - n
      /\ \A i \in 1..(Len(s) - n) : SubSeq(s, n + 1, Len(s))[i] = s[n + i]
  <2>1. n + 1 \in Int /\ Len(s) \in Int /\ (\A i \in (n + 1)..Len(s) : s[i] \in Messages)
        /\ \A i \in 1..(Len(s) - n) : i \in 1..(Len(s) - (n + 1) + 1) /\ (n + 1) + i - 1 = n + i
    BY <1>1
  <2>2. /\ SubSeq(s, n + 1, Len(s)) \in Seq(Messages)
        /\ Len(SubSeq(s, n + 1, Len(s))) = IF n + 1 <= Len(s) THEN Len(s) - (n + 1) + 1 ELSE 0
        /\ \A i \in 1..(Len(s) - (n + 1) + 1) : SubSeq(s, n + 1, Len(s))[i] = s[(n + 1) + i - 1]
    BY <2>1, SubSeqProperties
  <2>3. (IF n + 1 <= Len(s) THEN Len(s) - (n + 1) + 1 ELSE 0) = Len(s) - n
    <3>1. PICK l \in Nat : l = Len(s)
      BY <1>1
    <3>2. n \in 0..l
      BY <3>1
    <3>3. (IF n + 1 <= l THEN l - (n + 1) + 1 ELSE 0) = l - n
      BY ONLY l \in Nat, <3>2
    <3>. QED
      BY <3>1, <3>3
  <2>4. \A i \in 1..(Len(s) - n) : SubSeq(s, n + 1, Len(s))[i] = s[n + i]
    BY <2>1, <2>2
  <2>. QED
    BY <2>2, <2>3, <2>4
<1>3. /\ t \in Seq(Messages) /\ Len(t) = Len(s) - n + 1 /\ DOMAIN t = 1..(Len(s) - n + 1)
      /\ \A i \in 1..(Len(s) - n) : t[i] = s[n + i]
      /\ t[Len(s) - n + 1] = m
  <2>1. PICK u \in Seq(Messages) : u = SubSeq(s, n + 1, Len(s))
    BY <1>2
  <2>2. Len(u) = Len(s) - n /\ t = Append(u, m) /\ \A i \in 1..(Len(s) - n) : u[i] = s[n + i]
    BY <1>0, <1>2, <2>1 DEF Shifted
  <2>3. /\ t \in Seq(Messages) /\ Len(t) = Len(u) + 1 /\ DOMAIN t = 1..(Len(u) + 1)
        /\ (\A i \in 1..Len(u) : t[i] = u[i]) /\ t[Len(u) + 1] = m
    BY <2>1, <2>2, AppendFacts
  <2>. QED
    BY <2>2, <2>3
<1>4. /\ DOMAIN SubSeq(s, 1, n) = 1..n /\ \A i \in 1..n : SubSeq(s, 1, n)[i] = s[i]
  BY <1>1
<1>5. Range(t) \subseteq Range(s) \cup {m} /\ m \in Range(t)
  <2>1. m \in Range(t)
    BY <1>1, <1>3 DEF Range
  <2>2. ASSUME NEW d \in Range(t), d # m PROVE d \in Range(s)
    <3>0. PICK i \in DOMAIN t : d = t[i]
      BY DEF Range
    <3>1. i \in 1..(Len(s) - n)
      BY <1>1, <1>3, <2>2, <3>0
    <3>2. n + i \in 1..Len(s) /\ d = s[n + i]
      BY <1>1, <1>3, <3>0, <3>1
    <3>. QED
      BY <1>1, <3>2 DEF Range
  <2>. QED
    BY <2>1, <2>2
<1>6. ASSUME NEW d \in Range(s) PROVE d \in Range(t) \/ d \in Oldest(s, n)
  <2>1. PICK k \in 1..Len(s) : d = s[k]
    BY <1>1 DEF Range
  <2>2. CASE k <= n
    <3>1. PICK u : u = SubSeq(s, 1, n)
      OBVIOUS
    <3>2. k \in DOMAIN u /\ u[k] = d
      BY <1>4, <2>1, <2>2, <3>1
    <3>. QED
      BY <3>1, <3>2 DEF Range, Oldest
  <2>3. CASE k > n
    <3>1. k - n \in 1..(Len(s) - n) /\ k - n \in DOMAIN t /\ t[k - n] = s[k]
      BY <1>1, <1>3, <2>1, <2>3
    <3>. QED
      BY <2>1, <3>1 DEF Range
  <2>. QED
    BY <1>1, <2>1, <2>2, <2>3
<1>. QED
  BY <1>0, <1>1, <1>3, <1>5, <1>6 DEF ShiftOf

(* The order of acceptance is one, and what is accepted comes last. *)
LEMMA OrderFacts ==
  ASSUME NEW rec, NEW ord, NEW rns, HistoryOK(rec, ord, rns), NEW m \in Messages \ rec
  PROVE  /\ HistoryOK(rec \cup {m}, Append(ord, m), rns) /\ rns[m] = 0
         /\ \A a, b : Before(ord, a, b) => Before(Append(ord, m), a, b)
         /\ \A a \in rec : Before(Append(ord, m), a, m)
         /\ \A a, b : Before(Append(ord, m), a, b) /\ b \in rec => Before(ord, a, b) /\ a \in rec
<1>0. ord \in Seq(Messages) /\ Range(ord) = rec /\ rns \in [Messages -> Nat]
      /\ (\A i, j \in DOMAIN ord : ord[i] = ord[j] => i = j) /\ rns[m] <= 1 /\ (rns[m] > 0 => m \in rec)
  BY DEF HistoryOK
<1>1. Len(ord) \in Nat /\ DOMAIN ord = 1..Len(ord)
  BY <1>0
<1>2. PICK new : new = Append(ord, m)
  OBVIOUS
<1>3. /\ new \in Seq(Messages) /\ Len(new) = Len(ord) + 1 /\ DOMAIN new = 1..(Len(ord) + 1)
      /\ (\A i \in 1..Len(ord) : new[i] = ord[i]) /\ new[Len(ord) + 1] = m
  BY <1>0, <1>1, <1>2
<1>4. \A i \in DOMAIN ord : ord[i] \in rec
  BY <1>0 DEF Range
<1>5. Range(new) = rec \cup {m}
  <2>1. \A d \in Range(new) : d \in rec \cup {m}
    BY <1>1, <1>3, <1>4 DEF Range
  <2>2. m \in Range(new)
    BY <1>1, <1>3 DEF Range
  <2>3. ASSUME NEW d \in rec PROVE d \in Range(new)
    <3>1. PICK i \in DOMAIN ord : ord[i] = d
      BY <1>0 DEF Range
    <3>. QED
      BY <1>1, <1>3, <3>1 DEF Range
  <2>. QED
    BY <2>1, <2>2, <2>3
<1>6. \A i, j \in DOMAIN new : new[i] = new[j] => i = j
  BY <1>0, <1>1, <1>3, <1>4
<1>7. HistoryOK(rec \cup {m}, new, rns) /\ rns[m] = 0
  BY <1>0, <1>3, <1>5, <1>6 DEF HistoryOK
<1>8. \A a, b : Before(ord, a, b) => Before(new, a, b)
  BY <1>1, <1>3 DEF Before
<1>9. ASSUME NEW a \in rec PROVE Before(new, a, m)
  <2>1. PICK i \in DOMAIN ord : ord[i] = a
    BY <1>0 DEF Range
  <2>. QED
    BY <1>1, <1>3, <2>1 DEF Before
<1>10. ASSUME NEW a, NEW b \in rec, Before(new, a, b) PROVE Before(ord, a, b) /\ a \in rec
  <2>1. PICK i, j \in DOMAIN new : i < j /\ new[i] = a /\ new[j] = b
    BY <1>10 DEF Before
  <2>2. j # Len(ord) + 1
    BY <1>3, <2>1
  <2>3. i \in DOMAIN ord /\ j \in DOMAIN ord /\ ord[i] = a /\ ord[j] = b
    BY <1>1, <1>3, <2>1, <2>2
  <2>. QED
    BY <1>4, <2>1, <2>3 DEF Before
<1>. QED
  BY <1>2, <1>7, <1>8, <1>9, <1>10

(* Two messages do not come before each other. *)
LEMMA BeforeAsymmetric ==
  ASSUME NEW rec, NEW ord, NEW rns, HistoryOK(rec, ord, rns), NEW a, NEW b, Before(ord, a, b)
  PROVE  ~Before(ord, b, a) /\ a # b
<1>1. ord \in Seq(Messages) /\ (\A i, j \in DOMAIN ord : ord[i] = ord[j] => i = j)
  BY DEF HistoryOK
<1>2. PICK i, j \in DOMAIN ord : i < j /\ ord[i] = a /\ ord[j] = b
  BY DEF Before
<1>3. DOMAIN ord \subseteq Nat
  BY <1>1
<1>4. a # b
  BY <1>1, <1>2, <1>3
<1>5. ASSUME Before(ord, b, a) PROVE FALSE
  <2>1. PICK k, l \in DOMAIN ord : k < l /\ ord[k] = b /\ ord[l] = a
    BY <1>5 DEF Before
  <2>2. k = j /\ l = i
    BY <1>1, <1>2, <2>1
  <2>. QED
    BY <1>2, <1>3, <2>1, <2>2
<1>. QED
  BY <1>4, <1>5

LEMMA TakenNat ==
  ASSUME NEW x \in QueueRec
  PROVE  Taken(x) \in Nat /\ x.items \in Seq(Messages) /\ x.batch \in Seq(Messages) /\ x.dropped \subseteq Messages
<1>1. x.items \in Seq(Messages) /\ x.batch \in Seq(Messages) /\ x.dropped \subseteq Messages
  BY DEF QueueRec
<1>2. Len(x.batch) \in Nat
  BY <1>1
<1>. QED
  BY <1>1, <1>2 DEF Taken

(* What is sound stays so when one more message is accepted. *)
LEMMA LaterSound ==
  ASSUME NEW rec, NEW ord, NEW rns, HistoryOK(rec, ord, rns), NEW m \in Messages \ rec, NEW x, SoundQueue(x, rec, ord)
  PROVE  SoundQueue(x, rec \cup {m}, Append(ord, m))
<1>1. PICK new : new = Append(ord, m)
  OBVIOUS
<1>2. /\ \A a, b : Before(ord, a, b) => Before(new, a, b)
      /\ \A a, b : Before(new, a, b) /\ b \in rec => Before(ord, a, b) /\ a \in rec
  BY <1>1, OrderFacts
<1>3. SoundQueue(x, rec \cup {m}, new)
  BY <1>2 DEF SoundQueue
<1>. QED
  BY <1>1, <1>3

LEMMA AcceptedSound ==
  ASSUME NEW rec, NEW ord, NEW rns, HistoryOK(rec, ord, rns), NEW m \in Messages \ rec,
         NEW x \in QueueRec, SoundQueue(x, rec, ord), NEW y \in QueueRec, NEW n \in 0..Len(x.items),
         y.items = Shifted(x.items, n, m),
         y.batch = x.batch, y.stage = x.stage, y.told = x.told, y.kind = x.kind
  PROVE  SoundQueue(y, rec \cup {m}, Append(ord, m)) /\ Has(y) \subseteq Has(x) \cup {m}
<1>1. PICK new : new = Append(ord, m)
  OBVIOUS
<1>2. /\ \A a, b : Before(ord, a, b) => Before(new, a, b)
      /\ \A a, b : Before(new, a, b) /\ b \in rec => Before(ord, a, b) /\ a \in rec
      /\ \A a \in rec : Before(new, a, m)
  BY <1>1, OrderFacts
<1>3. PICK s \in Seq(Messages) : s = x.items
  BY TakenNat
<1>4. PICK t : t = y.items
  OBVIOUS
<1>5. /\ Len(s) \in Nat /\ n \in 0..Len(s) /\ DOMAIN s = 1..Len(s) /\ DOMAIN t = 1..(Len(s) - n + 1)
      /\ \A i \in 1..(Len(s) - n) : t[i] = s[n + i]
      /\ t[Len(s) - n + 1] = m /\ Range(t) \subseteq Range(s) \cup {m}
  <2>1. n \in 0..Len(s) /\ t = Shifted(s, n, m)
    BY <1>3, <1>4
  <2>2. ShiftOf(s, n, m, t)
    BY <2>1, ShiftFacts
  <2>. QED
    BY <2>1, <2>2 DEF ShiftOf
<1>6. /\ Range(s) \subseteq rec /\ Range(x.batch) \subseteq rec
      /\ \A i, j \in DOMAIN s : i < j => Before(ord, s[i], s[j])
  BY <1>3 DEF SoundQueue
<1>7. \A i \in 1..Len(s) : s[i] \in rec
  BY <1>5, <1>6 DEF Range
<1>8. ASSUME NEW i \in DOMAIN t, NEW j \in DOMAIN t, i < j PROVE Before(new, t[i], t[j])
  <2>1. i \in 1..(Len(s) - n) /\ n + i \in 1..Len(s) /\ t[i] = s[n + i]
    BY <1>5, <1>8
  <2>2. CASE j = Len(s) - n + 1
    BY <1>2, <1>5, <1>7, <2>1, <2>2
  <2>3. CASE j # Len(s) - n + 1
    <3>1. j \in 1..(Len(s) - n)
      BY <1>5, <2>3
    <3>2. n + j \in 1..Len(s) /\ t[j] = s[n + j] /\ n + i < n + j
      <4>1. t[j] = s[n + j]
        BY <1>5, <3>1
      <4>2. n + j \in 1..Len(s) /\ n + i < n + j
        BY <1>5, <1>8, <3>1
      <4>. QED
        BY <4>1, <4>2
    <3>. QED
      BY <1>2, <1>5, <1>6, <2>1, <3>2
  <2>. QED
    BY <2>2, <2>3
<1>9. Taken(y) = Taken(x) /\ Taken(x) \in Nat
  BY TakenNat DEF Taken
<1>10. ASSUME x.stage \in Active, NEW j \in DOMAIN t, j > Taken(x) PROVE t[j] \notin Range(x.batch)
  <2>1. CASE j = Len(s) - n + 1
    BY <1>5, <1>6, <2>1
  <2>2. CASE j # Len(s) - n + 1
    <3>1. j \in 1..(Len(s) - n)
      BY <1>5, <2>2
    <3>2. t[j] = s[n + j]
      BY <1>5, <3>1
    <3>3. PICK k \in Nat : k = Taken(x)
      BY <1>9
    <3>4. n + j \in 1..Len(s) /\ n + j > k
      BY <1>5, <1>10, <3>1, <3>3
    <3>. QED
      BY <1>3, <1>5, <1>10, <3>2, <3>3, <3>4 DEF SoundQueue
  <2>. QED
    BY <2>1, <2>2
<1>11. ASSUME x.stage \in Active, NEW a \in Range(t), NEW b \in Range(x.batch), Before(new, a, b)
       PROVE  a \in Range(x.batch)
  <2>1. Before(ord, a, b) /\ a \in Range(s)
    BY <1>2, <1>5, <1>6, <1>11
  <2>. QED
    BY <1>3, <1>11, <2>1 DEF SoundQueue
<1>12. x.stage \notin Active => x.batch = <<>> /\ x.told = {}
  BY DEF SoundQueue
<1>13. SoundQueue(y, rec \cup {m}, new)
  BY <1>4, <1>5, <1>6, <1>8, <1>9, <1>10, <1>11, <1>12 DEF SoundQueue
<1>. QED
  BY <1>1, <1>3, <1>4, <1>5, <1>13 DEF Has

(* Room made for a message in a run is remembered. *)
Room(n, x, y, more) ==
  /\ n = 0 => y.dropped = x.dropped
  /\ (n > 0 /\ x.stage \in Active) => "overflow in flight" \in more

(* The queue that accepts m, n of its items making room. *)
LEMMA AcceptGood ==
  ASSUME NEW qs, NEW o \in Objects, NEW f, NEW rec, NEW ord, NEW rns, NEW exc,
         Good(qs, o, f, rec, ord, rns, exc), HistoryOK(rec, ord, rns), NEW m \in Messages \ rec,
         NEW s \in Seq(Messages), s = qs[o].items, NEW n \in 0..Len(s), NEW y \in QueueRec, NEW more, exc \subseteq more,
         y.items = Shifted(s, n, m),
         y.batch = qs[o].batch, y.stage = qs[o].stage, y.told = qs[o].told, y.kind = qs[o].kind,
         Room(n, qs[o], y, more),
         NEW what \in {"dropped", "discarded"}, NEW gone, gone = Oldest(s, n),
         NEW g, g = Mark(Mark(f, gone, what), {m}, "queued"), NEW rs, rs = [qs EXCEPT ![o] = y]
  PROVE  Good(rs, o, g, rec \cup {m}, Append(ord, m), rns, more)
<1>. PICK new : new = Append(ord, m)
  OBVIOUS
<1>0. /\ QueuesOK(qs, rec, ord, rns) /\ qs \in [Objects -> QueueRec] /\ f \in [Messages -> Fates]
      /\ qs[o] \in QueueRec /\ SoundQueue(qs[o], rec, ord) /\ rns[m] = 0
  <2>1. rns[m] = 0
    BY OrderFacts
  <2>. QED
    BY <2>1 DEF Good, QueuesOK
<1>1. rs \in [Objects -> QueueRec] /\ rs[o] = y /\ \A c \in Objects : c # o => rs[c] = qs[c]
  BY <1>0
<1>2. /\ SoundQueue(y, rec \cup {m}, new) /\ Has(y) \subseteq Has(qs[o]) \cup {m}
  <2>1. n \in 0..Len(qs[o].items) /\ y.items = Shifted(qs[o].items, n, m)
    OBVIOUS
  <2>. QED
    BY <1>0, <2>1, AcceptedSound
<1>3. \A c \in Objects : SoundQueue(rs[c], rec \cup {m}, new)
  <2>. SUFFICES ASSUME NEW c \in Objects, c # o PROVE SoundQueue(rs[c], rec \cup {m}, new)
    BY <1>1, <1>2
  <2>1. SoundQueue(qs[c], rec, ord)
    BY <1>0 DEF QueuesOK
  <2>. QED
    BY <1>1, <2>1, LaterSound
<1>4. \A c \in Objects : Has(qs[c]) \subseteq rec
  BY <1>0 DEF QueuesOK, SoundQueue, Has
<1>5. QueuesOK(rs, rec \cup {m}, new, rns)
  <2>1. \A c \in Objects : Has(rs[c]) \subseteq Has(qs[c]) \cup (IF c = o THEN {m} ELSE {})
    BY <1>1, <1>2
  <2>2. \A c, d \in Objects : c # d => Has(rs[c]) \cap Has(rs[d]) = {}
    BY <1>0, <1>4, <2>1 DEF QueuesOK
  <2>3. \A c \in Objects : \A d \in Has(rs[c]) : rns[d] = 0
    BY <1>0, <2>1 DEF QueuesOK
  <2>. QED
    BY <1>1, <1>3, <2>2, <2>3 DEF QueuesOK
<1>6. /\ g \in [Messages -> Fates]
      /\ \A d \in Messages : g[d] = IF d = m THEN "queued" ELSE IF d \in gone THEN what ELSE f[d]
  <2>1. what \in Fates /\ "queued" \in Fates
    BY DEF Fates
  <2>. QED
    BY <1>0, <2>1 DEF Mark
<1>7. /\ Len(s) \in Nat /\ m \in Range(y.items)
      /\ \A d \in Range(s) : d \in Range(y.items) \/ d \in gone
  <2>1. ShiftOf(s, n, m, y.items)
    BY ShiftFacts
  <2>. QED
    BY <2>1 DEF ShiftOf
<1>12. n = 0 => /\ Len(s) \in Nat /\ Len(y.items) = Len(s) + 1 /\ DOMAIN y.items = 1..(Len(s) + 1)
                /\ DOMAIN s = 1..Len(s) /\ \A j \in 1..Len(s) : y.items[j] = s[j]
  <2>1. PICK t : t = y.items
    OBVIOUS
  <2>2. /\ Len(t) = Len(s) - n + 1 /\ Len(s) \in Nat /\ DOMAIN t = 1..(Len(s) - n + 1) /\ DOMAIN s = 1..Len(s)
        /\ \A i \in 1..(Len(s) - n) : t[i] = s[n + i]
    <3>1. ShiftOf(s, n, m, t)
      BY <2>1, ShiftFacts
    <3>. QED
      BY <3>1 DEF ShiftOf
  <2>3. n = 0 => Len(s) - n = Len(s) /\ \A i \in 1..Len(s) : n + i = i
    BY <2>2
  <2>. QED
    BY <2>1, <2>2, <2>3
<1>8. QueuedKept(rs, g)
  <2>. SUFFICES ASSUME NEW d \in Messages, g[d] = "queued", d # m PROVE \E c \in Objects : d \in Range(rs[c].items)
    BY <1>1, <1>7 DEF QueuedKept
  <2>1. d \notin gone /\ f[d] = "queued"
    BY <1>6
  <2>2. PICK c \in Objects : d \in Range(qs[c].items)
    BY <2>1 DEF Good, QueuedKept
  <2>. QED
    BY <1>1, <1>7, <2>1, <2>2
<1>11. ASSUME "overflow in flight" \notin more, y.stage \in Active, FrontOK(qs[o], TRUE)
       PROVE  FrontOK(y, TRUE)
  <2>1. n = 0 /\ y.dropped = qs[o].dropped /\ Taken(y) = Taken(qs[o])
    <3>1. ~(n > 0)
      BY <1>11 DEF Room
    <3>2. n = 0
      BY <1>7, <3>1
    <3>. QED
      BY <3>2 DEF Taken, Room
  <2>2. /\ Len(s) \in Nat /\ Len(y.items) = Len(s) + 1 /\ DOMAIN y.items = 1..(Len(s) + 1) /\ DOMAIN s = 1..Len(s)
        /\ \A j \in 1..Len(s) : y.items[j] = s[j]
    BY <1>12, <2>1
  <2>3. Taken(y) \in Nat
    BY TakenNat
  <2>4. /\ Len(s) >= Taken(y) /\ (y.told # {} => y.dropped \subseteq y.told)
        /\ \A j \in DOMAIN s : j <= Taken(y) => s[j] \in Range(y.batch)
    BY <1>11, <2>1 DEF FrontOK
  <2>5. ASSUME NEW j \in DOMAIN y.items, j <= Taken(y) PROVE y.items[j] \in Range(y.batch)
    <3>1. j \in 1..Len(s)
      BY <2>2, <2>3, <2>4, <2>5
    <3>. QED
      BY <2>2, <2>4, <2>5, <3>1
  <2>6. Len(y.items) >= Taken(y)
    BY <2>2, <2>3, <2>4
  <2>. QED
    BY <2>4, <2>5, <2>6 DEF FrontOK
<1>9. FrontsOK(rs, o, g, more)
  <2>. SUFFICES ASSUME "overflow in flight" \notin more, NEW c \in Objects, rs[c].stage \in Active
                PROVE  FrontOK(rs[c], c = o)
    BY <1>6 DEF Good, FrontsOK, FrontOK
  <2>1. FrontOK(qs[c], c = o)
    BY DEF Good, FrontsOK
  <2>2. CASE c = o
    BY <1>1, <1>11, <2>1, <2>2
  <2>3. CASE c # o
    BY <1>1, <2>1, <2>3 DEF FrontOK
  <2>. QED
    BY <2>2, <2>3
<1>10. Mapped(rs, o) /\ DrainsOK(rs, o, g, more)
  BY <1>1, <1>6 DEF Good, Mapped, DrainsOK, Draining
<1>. QED
  BY <1>5, <1>6, <1>8, <1>9, <1>10 DEF Good

(* The object a message is put in, with the message's settings. *)
LEMMA TargetGood ==
  ASSUME FollowupQueueAssumption, FollowupInv, NEW o \in Objects, Target(o), NEW s \in Settings,
         NEW x, x = GetFollowupQueue(o, s)
  PROVE  /\ x \in QueueRec /\ Good([q EXCEPT ![o] = x], o, fate, recent, order, runs, excuses)
         /\ x.stage = q[o].stage
<1>1. /\ Good(q, current, fate, recent, order, runs, excuses) /\ QueuesOK(q, recent, order, runs)
      /\ q \in [Objects -> QueueRec] /\ q[o] \in QueueRec /\ Mapped(q, current)
      /\ SoundQueue(q[o], recent, order) /\ None \notin Objects
  BY DEF FollowupInv, Good, QueuesOK, FollowupQueueAssumption
<1>2. CASE current # None
  <2>1. o = current /\ x = [q[o] EXCEPT !.setting = s]
    BY <1>2 DEF Target, GetFollowupQueue
  <2>2. /\ x \in QueueRec /\ x.items = q[o].items /\ x.batch = q[o].batch /\ x.stage = q[o].stage
        /\ x.told = q[o].told /\ x.kind = q[o].kind /\ x.dropped = q[o].dropped
    BY <1>1, <2>1 DEF QueueRec
  <2>. QED
    BY <1>1, <2>1, <2>2, ReplaceGood
<1>3. CASE current = None
  <2>1. o = CHOOSE free \in Objects : q[free].stage = "none"
    BY <1>3 DEF Target
  <2>2. \E free \in Objects : q[free].stage = "none"
    BY <1>3 DEF Target
  <2>3. q[o].stage = "none" /\ x = Fresh(s)
    BY <1>3, <2>1, <2>2 DEF GetFollowupQueue
  <2>4. q[o].items = <<>> /\ q[o].batch = <<>> /\ q[o].told = {}
    BY <1>1, <1>3, <2>3 DEF Mapped, SoundQueue, Active
  <2>5. x \in QueueRec /\ x.items = <<>> /\ x.batch = <<>> /\ x.stage = "none" /\ x.told = {}
    BY <2>3 DEF Fresh, QueueRec, DrainStages, Kinds
  <2>. QED
    BY <1>1, <1>3, <2>3, <2>4, <2>5, ReplaceGood DEF Active
<1>. QED
  BY <1>2, <1>3

(* What is left to show of an enqueue. *)
LEMMA EnqueuedInv ==
  ASSUME FollowupQueueAssumption, FollowupInv, NEW m \in Messages, arriving' = arriving \ {m},
         UNCHANGED <<op, foreign, arrivals, failures>>,
         NEW rs, NEW o \in Objects, NEW g, AfterEnqueue(rs, o, g), excuses' \subseteq Excuses,
         NEW rec, NEW ord, NEW rns, NEW exc, rec = recent', ord = order', rns = runs', exc = excuses',
         Good(rs, o, g, rec, ord, rns, exc), HistoryOK(rec, ord, rns),
         \A c \in Objects : rs[c].stage = q[c].stage
  PROVE  FollowupInv'
<1>1. /\ Good(q', current', fate', rec, ord, rns, exc) /\ (RunActive \/ Watched(q', current'))
      /\ \A c \in Objects : q'[c].stage = "running" <=> rs[c].stage = "running"
  BY AfterEnqueueKeepsGood
<1>2. OpOK(q', op')
  BY <1>1 DEF FollowupInv, OpOK
<1>3. Scalars'
  BY DEF FollowupInv, Scalars
<1>4. Good(q', current', fate', recent', order', runs', excuses') /\ HistoryOK(recent', order', runs')
  BY <1>1
<1>5. Watched(q', current') \/ op' # None \/ foreign'
  BY <1>1 DEF RunActive
<1>. QED
  BY <1>2, <1>3, <1>4, <1>5, InvFrom

LEMMA SkippedKeepsInv ==
  ASSUME FollowupQueueAssumption, FollowupInv, NEW m \in Messages, arriving' = arriving \ {m},
         UNCHANGED <<op, foreign, arrivals, failures>>, NEW s \in Settings,
         NEW o \in Objects, Target(o), NEW x, x = GetFollowupQueue(o, s), Skipped(m, o, x)
  PROVE  FollowupInv'
<1>1. /\ x \in QueueRec /\ Good([q EXCEPT ![o] = x], o, fate, recent, order, runs, excuses)
      /\ x.stage = q[o].stage
  BY TargetGood
<1>2. /\ excuses' = excuses \cup PolicyChange(x) /\ AfterEnqueue([q EXCEPT ![o] = x], o, fate)
      /\ UNCHANGED <<recent, runs, order>>
  BY DEF Skipped, history
<1>3. PICK rs : rs = [q EXCEPT ![o] = x]
  OBVIOUS
<1>4. PICK exc : exc = excuses'
  OBVIOUS
<1>5. q \in [Objects -> QueueRec] /\ excuses \subseteq Excuses /\ HistoryOK(recent, order, runs)
  BY DEF FollowupInv, Good, QueuesOK, Scalars
<1>6. excuses \subseteq exc /\ exc \subseteq Excuses
  BY <1>2, <1>4, <1>5 DEF PolicyChange, Excuses
<1>7. Good(rs, o, fate, recent, order, runs, exc)
  BY <1>1, <1>3, <1>6, MoreExcusesGood
<1>8. \A c \in Objects : rs[c].stage = q[c].stage
  BY <1>1, <1>3, <1>5
<1>9. AfterEnqueue(rs, o, fate)
  BY <1>2, <1>3
<1>10. PICK rec, ord, rns : rec = recent /\ ord = order /\ rns = runs
  OBVIOUS
<1>11. rec = recent' /\ ord = order' /\ rns = runs' /\ HistoryOK(rec, ord, rns)
       /\ Good(rs, o, fate, rec, ord, rns, exc)
  BY <1>2, <1>5, <1>7, <1>10
<1>12. PICK g : g = fate
  OBVIOUS
<1>13. AfterEnqueue(rs, o, g) /\ Good(rs, o, g, rec, ord, rns, exc)
  BY <1>9, <1>11, <1>12
<1>. QED
  BY <1>4, <1>6, <1>8, <1>11, <1>13, EnqueuedInv

LEMMA RefusedKeepsInv ==
  ASSUME FollowupQueueAssumption, FollowupInv, NEW m \in Messages, arriving' = arriving \ {m},
         UNCHANGED <<op, foreign, arrivals, failures>>, NEW s \in Settings,
         NEW o \in Objects, Target(o), NEW x, x = GetFollowupQueue(o, s), Refused(m, o, x)
  PROVE  FollowupInv'
<1>1. /\ x \in QueueRec /\ Good([q EXCEPT ![o] = x], o, fate, recent, order, runs, excuses)
      /\ x.stage = q[o].stage
  BY TargetGood
<1>2. PICK y : y = [x EXCEPT !.lastRun = TRUE]
  OBVIOUS
<1>3. /\ excuses' = excuses \cup PolicyChange(x)
      /\ AfterEnqueue([q EXCEPT ![o] = y], o, Mark(fate, {m}, "refused"))
      /\ UNCHANGED <<recent, runs, order>>
  BY <1>2 DEF Refused, history
<1>4. /\ y \in QueueRec /\ y.items = x.items /\ y.batch = x.batch /\ y.stage = x.stage /\ y.told = x.told
      /\ y.kind = x.kind /\ y.dropped = x.dropped
  BY <1>1, <1>2 DEF QueueRec
<1>5. PICK qs : qs = [q EXCEPT ![o] = x]
  OBVIOUS
<1>6. PICK rs : rs = [q EXCEPT ![o] = y]
  OBVIOUS
<1>7. PICK exc : exc = excuses'
  OBVIOUS
<1>8. q \in [Objects -> QueueRec] /\ excuses \subseteq Excuses /\ HistoryOK(recent, order, runs)
  BY DEF FollowupInv, Good, QueuesOK, Scalars
<1>9. excuses \subseteq exc /\ exc \subseteq Excuses
  BY <1>3, <1>7, <1>8 DEF PolicyChange, Excuses
<1>10. qs[o] = x /\ rs = [qs EXCEPT ![o] = y]
  BY <1>5, <1>6, <1>8
<1>11. PICK rec, ord, rns : rec = recent /\ ord = order /\ rns = runs
  OBVIOUS
<1>12. rec = recent' /\ ord = order' /\ rns = runs' /\ HistoryOK(rec, ord, rns)
  BY <1>3, <1>8, <1>11
<1>13. PICK f : f = fate
  OBVIOUS
<1>14. Good(qs, o, f, rec, ord, rns, exc)
  BY <1>1, <1>5, <1>9, <1>11, <1>13, MoreExcusesGood
<1>15. Good(rs, o, f, rec, ord, rns, exc)
  BY <1>4, <1>10, <1>14, ReplaceGood
<1>16. PICK g : g = Mark(f, {m}, "refused")
  OBVIOUS
<1>17. Good(rs, o, g, rec, ord, rns, exc)
  <2>1. "refused" \in Fates \ {"queued", "lost", "stranded"}
    BY DEF Fates
  <2>. QED
    BY <1>15, <1>16, <2>1, MarkGood
<1>18. AfterEnqueue(rs, o, g)
  BY <1>3, <1>6, <1>13, <1>16
<1>19. \A c \in Objects : rs[c].stage = q[c].stage
  BY <1>1, <1>4, <1>6, <1>8
<1>. QED
  BY <1>7, <1>9, <1>12, <1>17, <1>18, <1>19, EnqueuedInv

LEMMA OverflowFacts ==
  ASSUME FollowupQueueAssumption, NEW x \in QueueRec
  PROVE  x.items \in Seq(Messages) /\ Overflow(x) \in 0..Len(x.items)
<1>1. x.items \in Seq(Messages)
  BY DEF QueueRec
<1>2. PICK l \in Nat : l = Len(x.items)
  BY <1>1
<1>3. Cap \in Nat /\ Cap # 0
  BY DEF FollowupQueueAssumption
<1>4. Overflow(x) = IF l < Cap THEN 0 ELSE l - Cap + 1
  BY <1>2 DEF Overflow
<1>5. (IF l < Cap THEN 0 ELSE l - Cap + 1) \in 0..l
  BY ONLY l \in Nat, <1>3
<1>. QED
  BY <1>1, <1>2, <1>4, <1>5

LEMMA AcceptedKeepsInv ==
  ASSUME FollowupQueueAssumption, FollowupInv, NEW m \in Messages, arriving' = arriving \ {m},
         UNCHANGED <<op, foreign, arrivals, failures>>, NEW s \in Settings,
         NEW o \in Objects, Target(o), NEW x, x = GetFollowupQueue(o, s), Accepted(m, o, x)
  PROVE  FollowupInv'
<1>1. /\ x \in QueueRec /\ Good([q EXCEPT ![o] = x], o, fate, recent, order, runs, excuses)
      /\ x.stage = q[o].stage
  BY TargetGood
<1>2. PICK n : n = Overflow(x)
  OBVIOUS
<1>3. PICK items : items = x.items
  OBVIOUS
<1>4. items \in Seq(Messages) /\ n \in 0..Len(items) /\ Len(items) \in Nat
  <2>1. items \in Seq(Messages) /\ n \in 0..Len(items)
    BY <1>1, <1>2, <1>3, OverflowFacts
  <2>. QED
    BY <2>1
<1>5. PICK gone : gone = Oldest(items, n)
  OBVIOUS
<1>6. PICK sums : sums = (x.setting.policy = "summarize")
  OBVIOUS
<1>7. PICK y : y = [x EXCEPT !.lastRun = TRUE, !.items = Shifted(items, n, m),
                             !.dropped = IF sums THEN x.dropped \cup gone ELSE x.dropped]
  OBVIOUS
<1>8. PICK what : what = IF sums THEN "dropped" ELSE "discarded"
  OBVIOUS
<1>9. PICK exc : exc = excuses'
  OBVIOUS
<1>10. /\ ~Known(m, x) /\ recent' = recent \cup {m} /\ order' = Append(order, m) /\ runs' = runs
       /\ exc = excuses \cup PolicyChange(x)
                \cup (IF n > 0 /\ x.stage \in Active THEN {"overflow in flight"} ELSE {})
       /\ AfterEnqueue([q EXCEPT ![o] = y], o, Mark(Mark(fate, gone, what), {m}, "queued"))
  <2>1. /\ ~Known(m, x) /\ recent' = recent \cup {m} /\ order' = Append(order, m) /\ runs' = runs
        /\ exc = excuses \cup PolicyChange(x)
                 \cup (IF n > 0 /\ x.stage \in Active THEN {"overflow in flight"} ELSE {})
    BY <1>2, <1>9 DEF Accepted, Active
  <2>2. AfterEnqueue([q EXCEPT ![o] = [x EXCEPT !.lastRun = TRUE,
                                         !.items = Append(SubSeq(x.items, n + 1, Len(x.items)), m),
                                         !.dropped = IF sums THEN x.dropped \cup gone ELSE x.dropped]],
          o, Mark(Mark(fate, gone, IF sums THEN "dropped" ELSE "discarded"), {m}, "queued"))
    BY <1>2, <1>3, <1>5, <1>6 DEF Accepted, Oldest
  <2>. QED
    BY <1>3, <1>7, <1>8, <2>1, <2>2 DEF Shifted
<1>11. q \in [Objects -> QueueRec] /\ excuses \subseteq Excuses /\ HistoryOK(recent, order, runs)
  BY DEF FollowupInv, Good, QueuesOK, Scalars
<1>12. excuses \subseteq exc /\ exc \subseteq Excuses
  BY <1>10, <1>11 DEF PolicyChange, Excuses
<1>13. gone \subseteq Messages /\ x.dropped \subseteq Messages
  <2>1. gone \subseteq Range(items)
    BY <1>4, <1>5 DEF Oldest, Range
  <2>2. Range(items) \subseteq Messages
    BY <1>4 DEF Range
  <2>. QED
    BY <1>1, <2>1, <2>2, TakenNat
<1>14. Shifted(items, n, m) \in Seq(Messages)
  BY <1>4, ShiftFacts DEF ShiftOf
<1>15. /\ y \in QueueRec /\ y.items = Shifted(items, n, m) /\ y.batch = x.batch /\ y.stage = x.stage
       /\ y.told = x.told /\ y.kind = x.kind /\ y.dropped = IF sums THEN x.dropped \cup gone ELSE x.dropped
  BY <1>1, <1>7, <1>13, <1>14 DEF QueueRec
<1>16. Room(n, x, y, exc)
  <2>1. n = 0 => gone = {}
    <3>1. SubSeq(items, 1, 0) = <<>>
      BY SubSeqEmpty
    <3>. QED
      BY <1>5, <3>1, EmptyRange DEF Oldest
  <2>2. n = 0 => y.dropped = x.dropped
    BY <1>15, <2>1
  <2>3. n > 0 /\ x.stage \in Active => "overflow in flight" \in exc
    BY <1>10
  <2>. QED
    BY <2>2, <2>3 DEF Room
<1>17. PICK qs : qs = [q EXCEPT ![o] = x]
  OBVIOUS
<1>18. PICK rs : rs = [q EXCEPT ![o] = y]
  OBVIOUS
<1>19. qs[o] = x /\ rs = [qs EXCEPT ![o] = y] /\ \A c \in Objects : rs[c].stage = q[c].stage
  BY <1>1, <1>11, <1>15, <1>17, <1>18
<1>20. PICK rec, ord, rns, exn, f : rec = recent /\ ord = order /\ rns = runs /\ exn = excuses /\ f = fate
  OBVIOUS
<1>21. Good(qs, o, f, rec, ord, rns, exn) /\ HistoryOK(rec, ord, rns) /\ exn \subseteq exc /\ m \notin rec
  BY <1>1, <1>10, <1>11, <1>12, <1>17, <1>20 DEF Known
<1>22. PICK g : g = Mark(Mark(f, gone, what), {m}, "queued")
  OBVIOUS
<1>23. Good(rs, o, g, rec \cup {m}, Append(ord, m), rns, exc)
  <2>1. what \in {"dropped", "discarded"} /\ m \in Messages \ rec /\ items = qs[o].items
    BY <1>3, <1>8, <1>19, <1>21
  <2>2. /\ y \in QueueRec /\ y.items = Shifted(items, n, m) /\ y.batch = qs[o].batch
        /\ y.stage = qs[o].stage /\ y.told = qs[o].told /\ y.kind = qs[o].kind /\ Room(n, qs[o], y, exc)
    BY <1>15, <1>16, <1>19
  <2>3. n \in 0..Len(items) /\ items \in Seq(Messages) /\ rs = [qs EXCEPT ![o] = y]
    BY <1>4, <1>19
  <2>. QED
    BY ONLY <1>5, <1>21, <1>22, <2>1, <2>2, <2>3, o \in Objects, AcceptGood
<1>24. HistoryOK(rec \cup {m}, Append(ord, m), rns)
  BY <1>21, OrderFacts
<1>25. PICK rec2, ord2 : rec2 = rec \cup {m} /\ ord2 = Append(ord, m)
  OBVIOUS
<1>26. rec2 = recent' /\ ord2 = order' /\ rns = runs'
  BY <1>10, <1>20, <1>25
<1>27. AfterEnqueue(rs, o, g) /\ Good(rs, o, g, rec2, ord2, rns, exc) /\ HistoryOK(rec2, ord2, rns)
  BY <1>10, <1>18, <1>20, <1>22, <1>23, <1>24, <1>25
<1>. QED
  BY <1>9, <1>12, <1>19, <1>26, <1>27, EnqueuedInv

LEMMA EnqueueKeepsInv ==
  ASSUME FollowupQueueAssumption, FollowupInv, NEW m \in Messages, NEW s \in SettingsOf[m], EnqueueFollowupRun(m, s)
  PROVE  FollowupInv'
<1>1. s \in Settings
  BY DEF FollowupQueueAssumption
<1>2. PICK o \in Objects : Target(o) /\ LET x == GetFollowupQueue(o, s)
                                        IN Skipped(m, o, x) \/ Refused(m, o, x) \/ Accepted(m, o, x)
  BY DEF EnqueueFollowupRun
<1>3. arriving' = arriving \ {m} /\ UNCHANGED <<op, foreign, arrivals, failures>>
  BY DEF EnqueueFollowupRun
<1>4. PICK x : x = GetFollowupQueue(o, s)
  OBVIOUS
<1>5. CASE Skipped(m, o, x)
  BY <1>1, <1>2, <1>3, <1>4, <1>5, SkippedKeepsInv
<1>6. CASE Refused(m, o, x)
  BY <1>1, <1>2, <1>3, <1>4, <1>6, RefusedKeepsInv
<1>7. CASE Accepted(m, o, x)
  BY <1>1, <1>2, <1>3, <1>4, <1>7, AcceptedKeepsInv
<1>. QED
  BY <1>2, <1>4, <1>5, <1>6, <1>7

-----------------------------------------------------------------------------
(* The drain passes the oldest item, or all of them, to a run. *)
Batched(x, kind, batch) ==
  \/ kind \in {"item", "summary"} /\ x.items # <<>> /\ batch = <<Head(x.items)>>
  \/ kind = "collect" /\ batch = x.items

LEMMA BatchFacts ==
  ASSUME NEW rec, NEW ord, NEW rns, HistoryOK(rec, ord, rns), NEW x \in QueueRec, SoundQueue(x, rec, ord),
         NEW kind, NEW batch, Batched(x, kind, batch), NEW y \in QueueRec,
         y.items = x.items, y.kind = kind, y.batch = batch, y.stage = "calling"
  PROVE  /\ SoundQueue(y, rec, ord) /\ Has(y) \subseteq Has(x) /\ Len(y.items) >= Taken(y)
         /\ \A j \in DOMAIN y.items : j <= Taken(y) => y.items[j] \in Range(y.batch)
<1>1. PICK s \in Seq(Messages) : s = x.items
  BY TakenNat
<1>2. Len(s) \in Nat /\ DOMAIN s = 1..Len(s)
  OBVIOUS
<1>3. Range(s) \subseteq rec /\ \A i, j \in DOMAIN s : i < j => Before(ord, s[i], s[j])
  BY <1>1 DEF SoundQueue
<1>4. \A i \in DOMAIN s : s[i] \in Range(s)
  BY DEF Range
<1>5. CASE kind = "collect" /\ batch = s
  <2>1. Taken(y) = Len(s)
    BY <1>5 DEF Taken
  <2>2. SoundQueue(y, rec, ord)
    BY <1>1, <1>2, <1>3, <1>5, <2>1 DEF SoundQueue, Active
  <2>. QED
    BY <1>1, <1>2, <1>4, <1>5, <2>1, <2>2 DEF Has
<1>6. CASE kind # "collect" /\ s # <<>> /\ batch = <<Head(s)>>
  <2>1. Taken(y) = 1
    BY <1>6 DEF Taken
  <2>2. Len(s) >= 1 /\ Head(s) = s[1] /\ 1 \in DOMAIN s
    BY <1>2, <1>6
  <2>3. batch = <<s[1]>>
    BY <1>6, <2>2
  <2>4. Range(batch) = {s[1]}
    BY <2>3 DEF Range
  <2>5. \A j \in DOMAIN s : j > 1 => s[j] # s[1] /\ ~Before(ord, s[j], s[1])
    BY <1>3, <2>2, BeforeAsymmetric
  <2>6. \A j \in DOMAIN s : j # 1 => j > 1
    BY <1>2
  <2>7. \A j \in DOMAIN s : j <= 1 => j = 1
    BY <1>2
  <2>8. \A m \in Range(s) : Before(ord, m, s[1]) => m = s[1]
    BY <2>5, <2>6 DEF Range
  <2>9. Range(batch) \subseteq Range(s) /\ Range(batch) \subseteq rec
    BY <1>3, <1>4, <2>2, <2>4
  <2>10. \A j \in DOMAIN s : j > Taken(y) => s[j] \notin Range(batch)
    BY <2>1, <2>4, <2>5
  <2>11. \A m \in Range(s), n \in Range(batch) : Before(ord, m, n) => m \in Range(batch)
    BY <2>4, <2>8
  <2>12. SoundQueue(y, rec, ord)
    BY <1>1, <1>3, <2>9, <2>10, <2>11 DEF SoundQueue, Active
  <2>13. \A j \in DOMAIN s : j <= Taken(y) => s[j] \in Range(batch)
    BY <2>1, <2>4, <2>7
  <2>. QED
    BY <1>1, <2>1, <2>2, <2>9, <2>12, <2>13 DEF Has
<1>. QED
  BY <1>1, <1>5, <1>6 DEF Batched

LEMMA CallingGood ==
  ASSUME FollowupQueueAssumption, FollowupInv, NEW o \in Objects, q[o].stage \notin Active \cup {"none"},
         NEW kind, NEW batch, NEW told, NEW force \in BOOLEAN, Batched(q[o], kind, batch),
         told \in {{}, q[o].dropped}, kind \in Kinds, Calling(o, kind, batch, told, force)
  PROVE  /\ Good(q', current', fate', recent, order, runs, excuses) /\ Watched(q', current')
         /\ \A c \in Objects : q'[c].stage = "running" <=> q[c].stage = "running"
<1>1. /\ Good(q, current, fate, recent, order, runs, excuses) /\ QueuesOK(q, recent, order, runs)
      /\ q \in [Objects -> QueueRec] /\ q[o] \in QueueRec /\ Mapped(q, current)
      /\ SoundQueue(q[o], recent, order) /\ HistoryOK(recent, order, runs) /\ Draining(q[o])
  BY DEF FollowupInv, Good, QueuesOK, Draining
<1>2. PICK x \in QueueRec : x = q[o]
  BY <1>1
<1>3. PICK y : y = [x EXCEPT !.stage = "calling", !.kind = kind, !.batch = batch, !.told = told, !.force = force]
  OBVIOUS
<1>4. q' = [q EXCEPT ![o] = y] /\ current' = current /\ fate' = fate
  BY <1>2, <1>3 DEF Calling
<1>5. /\ y \in QueueRec /\ y.items = x.items /\ y.batch = batch /\ y.kind = kind /\ y.stage = "calling"
      /\ y.told = told /\ y.dropped = x.dropped
  <2>1. x.items \in Seq(Messages) /\ x.dropped \subseteq Messages
    BY TakenNat
  <2>2. batch \in Seq(Messages)
    <3>1. CASE batch = x.items
      BY <2>1, <3>1
    <3>2. CASE x.items # <<>> /\ batch = <<Head(x.items)>>
      <4>1. Head(x.items) \in Messages
        BY <2>1, <3>2, HeadTailProperties
      <4>. QED
        BY <3>2, <4>1
    <3>. QED
      BY <1>2, <3>1, <3>2 DEF Batched
  <2>3. told \in SUBSET Messages /\ "calling" \in DrainStages
    BY <1>2, <2>1 DEF DrainStages
  <2>. QED
    BY <1>3, <2>2, <2>3 DEF QueueRec
<1>6. /\ SoundQueue(y, recent, order) /\ Has(y) \subseteq Has(x) /\ Len(y.items) >= Taken(y)
      /\ \A j \in DOMAIN y.items : j <= Taken(y) => y.items[j] \in Range(y.batch)
  BY <1>1, <1>2, <1>5, BatchFacts
<1>7. q' \in [Objects -> QueueRec] /\ q'[o] = y /\ \A c \in Objects : c # o => q'[c] = q[c]
  BY <1>1, <1>4, <1>5
<1>8. QueuesOK(q', recent, order, runs)
  <2>1. \A c \in Objects : SoundQueue(q'[c], recent, order) /\ Has(q'[c]) \subseteq Has(q[c])
    BY <1>1, <1>2, <1>6, <1>7 DEF QueuesOK
  <2>. QED
    BY <1>1, <1>7, <2>1 DEF QueuesOK
<1>9. FrontsOK(q', current, fate, excuses)
  <2>1. FrontOK(y, TRUE)
    BY <1>2, <1>5, <1>6 DEF FrontOK
  <2>. SUFFICES ASSUME "overflow in flight" \notin excuses, NEW c \in Objects
                PROVE  FrontOK(q'[c], c = current)
    BY <1>1 DEF Good, FrontsOK
  <2>2. CASE c = o
    BY <1>7, <2>1, <2>2 DEF FrontOK
  <2>3. CASE c # o
    BY <1>1, <1>7, <2>3 DEF Good, FrontsOK
  <2>. QED
    BY <2>2, <2>3
<1>10. QueuedKept(q', fate)
  BY <1>1, <1>2, <1>5, <1>7 DEF Good, QueuedKept
<1>11. Mapped(q', current)
  BY <1>1, <1>5, <1>7 DEF Mapped
<1>12. DrainsOK(q', current, fate, excuses)
  BY <1>1, <1>5, <1>7 DEF Good, DrainsOK, Draining
<1>13. Watched(q', current')
  BY <1>5, <1>7 DEF Watched, Draining
<1>14. Good(q', current', fate', recent, order, runs, excuses)
  BY <1>1, <1>4, <1>8, <1>9, <1>10, <1>11, <1>12 DEF Good
<1>. QED
  BY <1>5, <1>7, <1>13, <1>14 DEF Active

(* What is left to show of a step of a drain that does not end its run. *)
LEMMA DrainedInv ==
  ASSUME FollowupQueueAssumption, FollowupInv, NEW o \in Objects, q[o].stage # "running",
         UNCHANGED <<drainLeaves, op, failures>>,
         Good(q', current', fate', recent, order, runs, excuses), Watched(q', current'),
         \A c \in Objects : q'[c].stage = "running" <=> q[c].stage = "running"
  PROVE  FollowupInv'
<1>1. UNCHANGED <<runs, order, recent, foreign, arriving, arrivals, excuses, op, failures>>
  BY DEF drainLeaves, history
<1>2. OpOK(q', op') /\ Scalars'
  BY <1>1 DEF FollowupInv, OpOK, Scalars
<1>. QED
  BY <1>1, <1>2, InvFrom DEF FollowupInv

LEMMA FinishKeepsInv ==
  ASSUME FollowupQueueAssumption, FollowupInv, NEW o \in Objects, Draining(q[o]), q[o].stage # "running",
         UNCHANGED <<drainLeaves, op, failures>>, Finish(q, o, fate)
  PROVE  FollowupInv'
<1>1. /\ Good(q', current', fate', recent, order, runs, excuses) /\ Watched(q', current')
      /\ \A c \in Objects : q'[c].stage = "running" <=> q[c].stage = "running" /\ c # o
  BY FinishKeepsGood DEF FollowupInv
<1>. QED
  BY <1>1, DrainedInv

LEMMA CallingKeepsInv ==
  ASSUME FollowupQueueAssumption, FollowupInv, NEW o \in Objects, q[o].stage \notin Active \cup {"none"},
         UNCHANGED <<drainLeaves, op, failures>>,
         NEW kind, NEW batch, NEW told, NEW force \in BOOLEAN, Batched(q[o], kind, batch),
         told \in {{}, q[o].dropped}, kind \in Kinds, Calling(o, kind, batch, told, force)
  PROVE  FollowupInv'
  BY CallingGood, DrainedInv DEF Active

LEMMA CollectingKeepsInv ==
  ASSUME FollowupQueueAssumption, FollowupInv, NEW o \in Objects, q[o].stage = "debounce",
         UNCHANGED <<drainLeaves, op, failures>>, q' = [q EXCEPT ![o].stage = "collecting"],
         UNCHANGED <<current, fate>>
  PROVE  FollowupInv'
<1>1. /\ Good(q, current, fate, recent, order, runs, excuses) /\ QueuesOK(q, recent, order, runs)
      /\ q \in [Objects -> QueueRec] /\ q[o] \in QueueRec /\ fate \in [Messages -> Fates]
      /\ SoundQueue(q[o], recent, order) /\ Draining(q[o])
  BY DEF FollowupInv, Good, QueuesOK, Draining
<1>2. PICK y : y = [q[o] EXCEPT !.stage = "collecting"]
  OBVIOUS
<1>3. /\ y \in QueueRec /\ y.stage = "collecting" /\ y.items = q[o].items /\ y.batch = q[o].batch
      /\ y.told = q[o].told
  BY <1>1, <1>2 DEF QueueRec, DrainStages
<1>4. q' \in [Objects -> QueueRec] /\ q'[o] = y /\ \A c \in Objects : c # o => q'[c] = q[c]
  BY <1>1, <1>2, <1>3
<1>5. \A c \in Objects : Calmed(q[c], q'[c])
  BY <1>1, <1>3, <1>4 DEF Calmed, Active, SoundQueue
<1>6. Mapped(q', current) /\ QueuedKept(q', fate) /\ DrainsOK(q', current, fate, excuses)
  BY <1>1, <1>3, <1>4 DEF Good, Mapped, QueuedKept, DrainsOK, Draining
<1>7. PICK rs : rs = q'
  OBVIOUS
<1>8. Good(rs, current, fate, recent, order, runs, excuses)
  BY <1>1, <1>4, <1>5, <1>6, <1>7, CalmedGood
<1>9. Good(q', current', fate', recent, order, runs, excuses)
  BY <1>7, <1>8
<1>10. Watched(q', current')
  BY <1>3, <1>4 DEF Watched, Draining
<1>11. \A c \in Objects : q'[c].stage = "running" <=> q[c].stage = "running"
  BY <1>3, <1>4
<1>. QED
  BY <1>9, <1>10, <1>11, DrainedInv

LEMMA NextItemKeepsInv ==
  ASSUME FollowupQueueAssumption, FollowupInv, NEW o \in Objects, q[o].stage = "debounce",
         UNCHANGED <<drainLeaves, op, failures>>, NEW force \in BOOLEAN, NextItem(o, force)
  PROVE  FollowupInv'
<1>1. CASE q[o].items = <<>>
  BY <1>1, FinishKeepsInv DEF NextItem, Draining
<1>2. CASE q[o].items # <<>>
  <2>1. Batched(q[o], "item", <<Head(q[o].items)>>) /\ Calling(o, "item", <<Head(q[o].items)>>, {}, force)
    BY <1>2 DEF NextItem, Batched
  <2>. QED
    BY <2>1, CallingKeepsInv DEF Active, Kinds
<1>. QED
  BY <1>1, <1>2

LEMMA DebouncedKeepsInv ==
  ASSUME FollowupQueueAssumption, FollowupInv, NEW o \in Objects, Debounced(o)
  PROVE  FollowupInv'
<1>. DEFINE queue == q[o]
            force == queue.force \/ CrossChannel(queue.items)
<1>1. /\ q[o].stage = "debounce" /\ UNCHANGED <<drainLeaves, op, failures>>
      /\ \/ NextItem(o, force)
         \/ q' = [q EXCEPT ![o].stage = "collecting"] /\ UNCHANGED <<current, fate>>
         \/ IF queue.lastRun /\ queue.items # <<>>
              THEN Calling(o, "summary", <<Head(queue.items)>>, queue.dropped, queue.force)
              ELSE Finish(q, o, fate)
         \/ NextItem(o, queue.force)
  BY DEF Debounced
<1>2. q[o].force \in BOOLEAN
  <2>1. q[o] \in QueueRec
    BY DEF FollowupInv, Good, QueuesOK
  <2>. QED
    BY <2>1 DEF QueueRec
<1>3. force \in BOOLEAN
  BY <1>2 DEF CrossChannel
<1>4. CASE NextItem(o, force)
  <2>. HIDE DEF force
  <2>. QED
    BY <1>1, <1>3, <1>4, NextItemKeepsInv
<1>5. CASE q' = [q EXCEPT ![o].stage = "collecting"] /\ UNCHANGED <<current, fate>>
  BY <1>1, <1>5, CollectingKeepsInv
<1>6. CASE queue.items # <<>> /\ Calling(o, "summary", <<Head(queue.items)>>, queue.dropped, queue.force)
  <2>1. Batched(q[o], "summary", <<Head(q[o].items)>>)
    BY <1>6 DEF Batched
  <2>. QED
    BY <1>1, <1>2, <1>6, <2>1, CallingKeepsInv DEF Active, Kinds
<1>7. CASE Finish(q, o, fate)
  BY <1>1, <1>7, FinishKeepsInv DEF Draining
<1>8. CASE NextItem(o, queue.force)
  BY <1>1, <1>2, <1>8, NextItemKeepsInv
<1>. QED
  BY <1>1, <1>4, <1>5, <1>6, <1>7, <1>8

LEMMA CollectedKeepsInv ==
  ASSUME FollowupQueueAssumption, FollowupInv, NEW o \in Objects, Collected(o)
  PROVE  FollowupInv'
<1>. DEFINE told == IF SummaryDue(q[o]) THEN q[o].dropped ELSE {}
<1>1. /\ q[o].stage = "collecting" /\ UNCHANGED <<drainLeaves, op, failures>>
      /\ Finish(q, o, fate) \/ Calling(o, "collect", q[o].items, told, q[o].force)
  BY DEF Collected
<1>2. q[o].force \in BOOLEAN
  <2>1. q[o] \in QueueRec
    BY DEF FollowupInv, Good, QueuesOK
  <2>. QED
    BY <2>1 DEF QueueRec
<1>3. Batched(q[o], "collect", q[o].items) /\ told \in {{}, q[o].dropped}
  BY DEF Batched
<1>4. CASE Finish(q, o, fate)
  BY <1>1, <1>4, FinishKeepsInv DEF Draining
<1>5. CASE Calling(o, "collect", q[o].items, told, q[o].force)
  <2>. HIDE DEF told
  <2>. QED
    BY <1>1, <1>2, <1>3, <1>5, CallingKeepsInv DEF Active, Kinds
<1>. QED
  BY <1>1, <1>4, <1>5

(* What is left to show of a step that ends the run of o. *)
LEMMA RunEndedInv ==
  ASSUME FollowupQueueAssumption, FollowupInv, NEW o \in Objects, q[o].stage = "running", op' = None,
         UNCHANGED <<recent, order, foreign, arriving, arrivals, excuses>>, failures' \in 0..MaxFailures,
         NEW rns, rns = runs', HistoryOK(recent, order, rns),
         Good(q', current', fate', recent, order, rns, excuses), Watched(q', current'),
         \A c \in Objects : q'[c].stage = "running" <=> q[c].stage = "running" /\ c # o
  PROVE  FollowupInv'
<1>1. OpOK(q', op')
  <2>1. op = o
    BY DEF FollowupInv, OpOK
  <2>2. \A c \in Objects : c # o => q[c].stage # "running"
    BY <2>1 DEF FollowupInv, OpOK
  <2>. QED
    BY <2>2 DEF OpOK, FollowupQueueAssumption
<1>2. Scalars'
  BY DEF FollowupInv, Scalars
<1>3. Good(q', current', fate', recent', order', runs', excuses') /\ HistoryOK(recent', order', runs')
  OBVIOUS
<1>. QED
  BY <1>1, <1>2, <1>3, InvFrom

LEMMA RunFailsKeepsInv ==
  ASSUME FollowupQueueAssumption, FollowupInv, NEW o \in Objects, RunFails(o)
  PROVE  FollowupInv'
<1>1. /\ q[o].stage = "running" /\ failures < MaxFailures /\ failures' = failures + 1 /\ op' = None
      /\ Finish(q, o, fate) /\ UNCHANGED <<runs, order, recent, foreign, arriving, arrivals, excuses>>
  BY DEF RunFails, drainLeaves, history
<1>2. /\ Good(q', current', fate', recent, order, runs, excuses) /\ Watched(q', current')
      /\ \A c \in Objects : q'[c].stage = "running" <=> q[c].stage = "running" /\ c # o
  BY <1>1, FinishKeepsGood DEF FollowupInv, Draining
<1>3. failures' \in 0..MaxFailures
  BY <1>1 DEF FollowupInv, Scalars, FollowupQueueAssumption
<1>4. PICK rns : rns = runs
  OBVIOUS
<1>5. rns = runs' /\ HistoryOK(recent, order, rns) /\ Good(q', current', fate', recent, order, rns, excuses)
  BY <1>1, <1>2, <1>4 DEF FollowupInv
<1>. QED
  BY <1>1, <1>2, <1>3, <1>5, RunEndedInv

(* The run takes the session's reply operation. *)
LEMMA RunBeginsKeepsInv ==
  ASSUME FollowupQueueAssumption, FollowupInv, NEW o \in Objects, q[o].stage = "calling",
         op = None, op' = o, q' = [q EXCEPT ![o].stage = "running"], UNCHANGED <<current, fate>>,
         UNCHANGED <<drainLeaves, failures>>
  PROVE  FollowupInv'
<1>1. /\ Good(q, current, fate, recent, order, runs, excuses) /\ QueuesOK(q, recent, order, runs)
      /\ q \in [Objects -> QueueRec] /\ q[o] \in QueueRec /\ fate \in [Messages -> Fates]
      /\ SoundQueue(q[o], recent, order) /\ None \notin Objects
      /\ UNCHANGED <<runs, order, recent, foreign, arriving, arrivals, excuses, failures>>
  BY DEF FollowupInv, Good, QueuesOK, FollowupQueueAssumption, drainLeaves, history
<1>2. PICK y : y = [q[o] EXCEPT !.stage = "running"]
  OBVIOUS
<1>3. /\ y \in QueueRec /\ y.stage = "running" /\ y.items = q[o].items /\ y.batch = q[o].batch
      /\ y.told = q[o].told /\ y.kind = q[o].kind /\ y.dropped = q[o].dropped
  BY <1>1, <1>2 DEF QueueRec, DrainStages
<1>4. q' \in [Objects -> QueueRec] /\ q'[o] = y /\ \A c \in Objects : c # o => q'[c] = q[c]
  BY <1>1, <1>2, <1>3
<1>5. SoundQueue(y, recent, order) /\ Has(y) = Has(q[o])
  BY <1>1, <1>3 DEF SoundQueue, Active, Taken, Has
<1>6. QueuesOK(q', recent, order, runs)
  <2>1. \A c \in Objects : SoundQueue(q'[c], recent, order) /\ Has(q'[c]) = Has(q[c])
    BY <1>1, <1>4, <1>5 DEF QueuesOK
  <2>. QED
    BY <1>1, <1>4, <2>1 DEF QueuesOK
<1>7. FrontsOK(q', current, fate, excuses)
  <2>. SUFFICES ASSUME "overflow in flight" \notin excuses, NEW c \in Objects PROVE FrontOK(q'[c], c = current)
    BY <1>1 DEF Good, FrontsOK
  <2>1. FrontOK(q[c], c = current)
    BY <1>1 DEF Good, FrontsOK
  <2>2. CASE c = o
    BY <1>3, <1>4, <2>1, <2>2 DEF FrontOK, Taken, Active
  <2>3. CASE c # o
    BY <1>4, <2>1, <2>3
  <2>. QED
    BY <2>2, <2>3
<1>8. Mapped(q', current) /\ QueuedKept(q', fate) /\ DrainsOK(q', current, fate, excuses)
  BY <1>1, <1>3, <1>4 DEF Good, Mapped, QueuedKept, DrainsOK, Draining
<1>9. Good(q', current', fate', recent', order', runs', excuses')
  BY <1>1, <1>6, <1>7, <1>8 DEF Good
<1>10. OpOK(q', op')
  BY <1>1, <1>3, <1>4 DEF FollowupInv, OpOK
<1>11. Scalars'
  BY <1>1 DEF FollowupInv, Scalars
<1>12. HistoryOK(recent', order', runs') /\ op' # None
  BY <1>1 DEF FollowupInv
<1>. QED
  BY <1>9, <1>10, <1>11, <1>12, InvFrom

LEMMA CallRunKeepsInv ==
  ASSUME FollowupQueueAssumption, FollowupInv, NEW o \in Objects, CallRun(o)
  PROVE  FollowupInv'
<1>1. q[o].stage = "calling" /\ UNCHANGED <<drainLeaves, failures>>
  BY DEF CallRun
<1>2. CASE op = None /\ op' = o /\ q' = [q EXCEPT ![o].stage = "running"] /\ UNCHANGED <<current, fate>>
  BY <1>1, <1>2, RunBeginsKeepsInv
<1>3. CASE op # None /\ UNCHANGED op /\ Finish(q, o, fate)
  BY <1>1, <1>3, FinishKeepsInv DEF Draining
<1>. QED
  BY <1>2, <1>3 DEF CallRun

(* The queue after a run that succeeded: what is left are the items behind  *)
(* those the run takes.                                                    *)
LEMMA SettledFacts ==
  ASSUME NEW x \in QueueRec
  PROVE  /\ Settled(x) \in Seq(Messages) /\ DOMAIN x.items \subseteq Nat
         /\ \A i \in DOMAIN Settled(x) : /\ i + Taken(x) \in DOMAIN x.items
                                         /\ Settled(x)[i] = x.items[i + Taken(x)]
                                         /\ i \in Nat /\ i + Taken(x) > Taken(x)
         /\ \A j \in DOMAIN x.items : j > Taken(x) => x.items[j] \in Range(Settled(x))
<1>1. PICK s \in Seq(Messages) : s = x.items
  BY TakenNat
<1>2. PICK n \in Nat : n = Taken(x)
  BY TakenNat
<1>3. PICK t : t = Settled(x)
  OBVIOUS
<1>4. t = SubSeq(s, n + 1, Len(s))
  BY <1>1, <1>2, <1>3 DEF Settled, Taken
<1>5. PICK l \in Nat : l = Len(s)
  OBVIOUS
<1>6. DOMAIN s = 1..l /\ \A i \in 1..l : s[i] \in Messages
  BY <1>5
<1>7. n + 1 \in Int /\ l \in Int /\ \A i \in (n + 1)..l : s[i] \in Messages
  BY <1>6
<1>8. /\ t \in Seq(Messages) /\ Len(t) = IF n + 1 <= l THEN l - (n + 1) + 1 ELSE 0
      /\ \A i \in 1..(l - (n + 1) + 1) : t[i] = s[(n + 1) + i - 1]
  BY <1>4, <1>5, <1>7, SubSeqProperties
<1>9. DOMAIN t = 1..Len(t) /\ Len(t) \in Nat
  BY <1>8
<1>10. ASSUME NEW i \in DOMAIN t
       PROVE  i \in Nat /\ i + n \in 1..l /\ i + n > n /\ i \in 1..(l - (n + 1) + 1) /\ (n + 1) + i - 1 = i + n
  BY <1>8, <1>9
<1>11. \A i \in DOMAIN t : t[i] = s[i + n]
  BY <1>8, <1>10
<1>12. ASSUME NEW j \in 1..l, j > n PROVE s[j] \in Range(t)
  <2>1. j - n \in DOMAIN t /\ (j - n) + n = j
    BY <1>8, <1>9, <1>12
  <2>. QED
    BY <1>11, <2>1 DEF Range
<1>. QED
  BY <1>1, <1>2, <1>3, <1>6, <1>8, <1>10, <1>11, <1>12

Unseen(x) == (Range(x.items) \ (Range(Settled(x)) \cup Range(x.batch)))
             \cup (IF x.told # {} THEN x.dropped \ x.told ELSE {})
Swallowed(x, f) == IF x.kind = "summary" THEN {m \in Range(x.batch) : f[m] = "queued"} ELSE {}
Ran(x) == IF x.kind = "summary" THEN {} ELSE Range(x.batch)
FateAfter(x, f) ==
  Mark(Mark(Mark(Mark(f, Unseen(x), "lost"), Swallowed(x, f), "swallowed"), x.told, "told"), Ran(x), "ran")
RunsAfter(x, rns) == [m \in Messages |-> IF m \in Ran(x) THEN rns[m] + 1 ELSE rns[m]]
After(x) == [x EXCEPT !.items = Settled(x), !.dropped = IF x.told # {} THEN {} ELSE @, !.batch = <<>>, !.told = {}]

AtHead(x) == [x EXCEPT !.stage = "debounce"]

LEMMA FateAfterFacts ==
  ASSUME NEW x, NEW f \in [Messages -> Fates], NEW g, g = FateAfter(x, f)
  PROVE  /\ g \in [Messages -> Fates]
         /\ \A m \in Messages : g[m] = IF m \in Ran(x) THEN "ran" ELSE IF m \in x.told THEN "told"
                                       ELSE IF m \in Swallowed(x, f) THEN "swallowed"
                                       ELSE IF m \in Unseen(x) THEN "lost" ELSE f[m]
<1>. DEFINE a == Unseen(x)
            b == Swallowed(x, f)
            c == Ran(x)
<1>1. g = Mark(Mark(Mark(Mark(f, a, "lost"), b, "swallowed"), x.told, "told"), c, "ran")
  BY DEF FateAfter
<1>. HIDE DEF a, b, c
<1>2. /\ g \in [Messages -> Fates]
      /\ \A m \in Messages : g[m] = IF m \in c THEN "ran" ELSE IF m \in x.told THEN "told"
                                    ELSE IF m \in b THEN "swallowed"
                                    ELSE IF m \in a THEN "lost" ELSE f[m]
  BY <1>1 DEF Mark, Fates
<1>. QED
  BY <1>2 DEF a, b, c

(* What a message had when its run began, it has not run. *)
LEMMA RunsAfterOK ==
  ASSUME NEW qs, NEW rec, NEW ord, NEW rns, QueuesOK(qs, rec, ord, rns), HistoryOK(rec, ord, rns),
         NEW o \in Objects, NEW x, x = qs[o], NEW more, more = RunsAfter(x, rns)
  PROVE  /\ HistoryOK(rec, ord, more)
         /\ \A m \in Messages : m \notin Range(x.batch) => more[m] = rns[m]
<1>1. rns \in [Messages -> Nat] /\ \A m \in Messages : rns[m] <= 1 /\ (rns[m] > 0 => m \in rec)
  BY DEF HistoryOK
<1>2. more \in [Messages -> Nat] /\ \A m \in Messages : more[m] = IF m \in Ran(x) THEN rns[m] + 1 ELSE rns[m]
  BY <1>1 DEF RunsAfter
<1>3. Ran(x) \subseteq Range(x.batch) /\ Range(x.batch) \subseteq rec /\ \A m \in Range(x.batch) : rns[m] = 0
  BY DEF Ran, QueuesOK, SoundQueue, Has
<1>4. \A m \in Messages : more[m] <= 1 /\ (more[m] > 0 => m \in rec)
  BY <1>1, <1>2, <1>3
<1>5. \A m \in Messages : m \notin Range(x.batch) => more[m] = rns[m]
  BY <1>2, <1>3
<1>. QED
  BY <1>2, <1>4, <1>5 DEF HistoryOK

LEMMA AfterFacts ==
  ASSUME NEW x \in QueueRec, NEW rec, NEW ord, SoundQueue(x, rec, ord), x.stage = "running",
         NEW z, z = AtHead(After(x))
  PROVE  /\ z \in QueueRec /\ After(x) \in QueueRec /\ After(x).stage = x.stage /\ z.items = Settled(x)
         /\ z.stage = "debounce" /\ z.items = After(x).items /\ z.dropped = After(x).dropped
         /\ SoundQueue(z, rec, ord) /\ Has(z) \subseteq Has(x) \ Range(x.batch)
<1>0. x.items \in Seq(Messages) /\ x.dropped \subseteq Messages /\ <<>> \in Seq(Messages) /\ Taken(x) \in Nat
  BY TakenNat, EmptySeq
<1>1. PICK y : y = After(x)
  OBVIOUS
<1>2. PICK t \in Seq(Messages) : t = Settled(x)
  BY SettledFacts
<1>3. y = [x EXCEPT !.items = t, !.dropped = IF x.told # {} THEN {} ELSE @, !.batch = <<>>, !.told = {}]
  BY <1>1, <1>2 DEF After
<1>4. /\ y \in QueueRec /\ y.items = t /\ y.batch = <<>> /\ y.told = {} /\ y.stage = x.stage
  <2>1. (IF x.told # {} THEN {} ELSE x.dropped) \in SUBSET Messages
    BY <1>0
  <2>. QED
    BY <1>0, <1>3, <2>1 DEF QueueRec
<1>5. /\ z \in QueueRec /\ z.items = t /\ z.batch = <<>> /\ z.told = {} /\ z.stage = "debounce"
      /\ z.dropped = y.dropped
  BY <1>1, <1>4 DEF QueueRec, DrainStages, AtHead
<1>6. /\ DOMAIN x.items \subseteq Nat
      /\ \A i \in DOMAIN t : /\ i + Taken(x) \in DOMAIN x.items /\ t[i] = x.items[i + Taken(x)]
                             /\ i \in Nat /\ i + Taken(x) > Taken(x)
  BY <1>2, SettledFacts
<1>7. \A d \in Range(t) : d \in Range(x.items) /\ d \notin Range(x.batch)
  <2>. SUFFICES ASSUME NEW i \in DOMAIN t PROVE t[i] \in Range(x.items) /\ t[i] \notin Range(x.batch)
    BY DEF Range
  <2>. QED
    BY <1>6 DEF SoundQueue, Active, Range
<1>8. \A i, j \in DOMAIN t : i < j => Before(ord, t[i], t[j])
  <2>. SUFFICES ASSUME NEW i \in DOMAIN t, NEW j \in DOMAIN t, i < j PROVE Before(ord, t[i], t[j])
    OBVIOUS
  <2>1. i + Taken(x) < j + Taken(x)
    BY <1>0, <1>6
  <2>. QED
    BY <1>6, <2>1 DEF SoundQueue
<1>9. Range(z.batch) = {}
  BY <1>5, EmptyRange
<1>10. SoundQueue(z, rec, ord)
  BY <1>5, <1>7, <1>8, <1>9 DEF SoundQueue, Active
<1>11. Has(z) \subseteq Has(x) \ Range(x.batch)
  BY <1>5, <1>7, <1>9 DEF Has
<1>. QED
  BY <1>1, <1>2, <1>4, <1>5, <1>10, <1>11

LEMMA AtMostOrMore == \A a, b \in Nat : a <= b \/ a > b
  OBVIOUS

LEMMA CompletedGood ==
  ASSUME FollowupQueueAssumption, NEW qs, NEW cur, NEW f, NEW rec, NEW ord, NEW rns, NEW exc,
         Good(qs, cur, f, rec, ord, rns, exc), HistoryOK(rec, ord, rns),
         NEW o \in Objects, NEW x \in QueueRec, x = qs[o], x.stage = "running",
         NEW z, z = AtHead(After(x)), NEW rs, rs = [qs EXCEPT ![o] = z],
         NEW g, g = FateAfter(x, f), NEW more, more = RunsAfter(x, rns)
  PROVE  Good(rs, cur, g, rec, ord, more, exc)
<1>1. /\ QueuesOK(qs, rec, ord, rns) /\ qs \in [Objects -> QueueRec] /\ f \in [Messages -> Fates]
      /\ SoundQueue(x, rec, ord)
  BY DEF Good, QueuesOK
<1>2. /\ z \in QueueRec /\ z.stage = "debounce" /\ z.items = Settled(x)
      /\ SoundQueue(z, rec, ord) /\ Has(z) \subseteq Has(x) \ Range(x.batch)
  BY <1>1, AfterFacts
<1>3. rs \in [Objects -> QueueRec] /\ rs[o] = z /\ \A c \in Objects : c # o => rs[c] = qs[c]
  BY <1>1, <1>2
<1>4. /\ HistoryOK(rec, ord, more)
      /\ \A m \in Messages : m \notin Range(x.batch) => more[m] = rns[m]
  BY <1>1, RunsAfterOK
<1>5. /\ g \in [Messages -> Fates]
      /\ \A m \in Messages : g[m] = IF m \in Ran(x) THEN "ran" ELSE IF m \in x.told THEN "told"
                                    ELSE IF m \in Swallowed(x, f) THEN "swallowed"
                                    ELSE IF m \in Unseen(x) THEN "lost" ELSE f[m]
  BY <1>1, FateAfterFacts
<1>6. QueuesOK(rs, rec, ord, more)
  <2>1. \A c \in Objects : SoundQueue(rs[c], rec, ord) /\ Has(rs[c]) \subseteq Has(qs[c]) \ Range(x.batch)
    <3>. SUFFICES ASSUME NEW c \in Objects, c # o
                  PROVE  SoundQueue(rs[c], rec, ord) /\ Has(rs[c]) \subseteq Has(qs[c]) \ Range(x.batch)
      BY <1>2, <1>3
    <3>1. Has(qs[c]) \cap Has(qs[o]) = {} /\ SoundQueue(qs[c], rec, ord)
      BY <1>1 DEF QueuesOK
    <3>2. Range(x.batch) \subseteq Has(qs[o])
      BY DEF Has
    <3>. QED
      BY <1>3, <3>1, <3>2
  <2>2. \A c, d \in Objects : c # d => Has(rs[c]) \cap Has(rs[d]) = {}
    BY <1>1, <2>1 DEF QueuesOK
  <2>3. \A c \in Objects : Has(qs[c]) \subseteq Messages
    <3>. SUFFICES ASSUME NEW c \in Objects PROVE Has(qs[c]) \subseteq Messages
      OBVIOUS
    <3>1. qs[c].items \in Seq(Messages) /\ qs[c].batch \in Seq(Messages)
      BY <1>1, TakenNat
    <3>. QED
      BY <3>1 DEF Has, Range
  <2>4. \A c \in Objects : \A m \in Has(rs[c]) : more[m] = 0
    BY <1>1, <1>4, <2>1, <2>3 DEF QueuesOK
  <2>. QED
    BY <1>3, <2>1, <2>2, <2>4 DEF QueuesOK
<1>7. QueuedKept(rs, g)
  <2>. SUFFICES ASSUME NEW m \in Messages, g[m] = "queued" PROVE \E c \in Objects : m \in Range(rs[c].items)
    BY DEF QueuedKept
  <2>1. m \notin Ran(x) /\ m \notin Swallowed(x, f) /\ m \notin Unseen(x) /\ f[m] = "queued"
    BY <1>5
  <2>2. PICK c \in Objects : m \in Range(qs[c].items)
    BY <2>1 DEF Good, QueuedKept
  <2>3. CASE c = o
    <3>1. m \notin Range(x.batch)
      BY <2>1 DEF Ran, Swallowed
    <3>2. m \in Range(Settled(x))
      BY <2>1, <2>2, <2>3, <3>1 DEF Unseen
    <3>. QED
      BY <1>2, <1>3, <3>2
  <2>4. CASE c # o
    BY <1>3, <2>2, <2>4
  <2>. QED
    BY <2>3, <2>4
<1>8. FrontsOK(rs, cur, g, exc)
  <2>. SUFFICES ASSUME "overflow in flight" \notin exc
                PROVE  /\ \A c \in Objects : FrontOK(rs[c], c = cur)
                       /\ \A m \in Messages : g[m] # "lost"
    BY DEF FrontsOK
  <2>1. \A c \in Objects : FrontOK(qs[c], c = cur)
    BY DEF Good, FrontsOK
  <2>2. \A m \in Messages : f[m] # "lost"
    BY DEF Good, FrontsOK
  <2>3. \A c \in Objects : FrontOK(rs[c], c = cur)
    <3>1. FrontOK(rs[o], o = cur)
      BY <1>2, <1>3 DEF FrontOK, Active
    <3>. QED
      BY <1>3, <2>1, <3>1
  <2>4. /\ \A j \in DOMAIN x.items : j <= Taken(x) => x.items[j] \in Range(x.batch)
        /\ x.told # {} => x.dropped \subseteq x.told
    BY <2>1 DEF FrontOK, Active
  <2>5. \A d \in Range(x.items) : d \in Range(Settled(x)) \cup Range(x.batch)
    <3>. SUFFICES ASSUME NEW j \in DOMAIN x.items PROVE x.items[j] \in Range(Settled(x)) \cup Range(x.batch)
      BY DEF Range
    <3>1. Taken(x) \in Nat /\ j \in Nat
      BY TakenNat, SettledFacts
    <3>3. j <= Taken(x) \/ j > Taken(x)
      BY <3>1, AtMostOrMore, Zenon
    <3>. QED
      BY <2>4, <3>3, SettledFacts
  <2>6. Unseen(x) = {}
    BY <2>4, <2>5 DEF Unseen
  <2>. QED
    BY <1>5, <2>2, <2>3, <2>6
<1>9. Mapped(rs, cur) /\ DrainsOK(rs, cur, g, exc)
  BY <1>2, <1>3, <1>5 DEF Good, Mapped, DrainsOK, Draining
<1>10. cur \in Objects \cup {None}
  BY DEF Good
<1>. QED
  BY <1>5, <1>6, <1>7, <1>8, <1>9, <1>10 DEF Good

(* finally does not look at the stage of the drain it ends. *)
LEMMA FinishAnyStage ==
  ASSUME NEW a \in [Objects -> QueueRec], NEW b \in [Objects -> QueueRec], NEW o \in Objects,
         b[o] = AtHead(a[o]), \A c \in Objects : c # o => a[c] = b[c]
  PROVE  Idle(a, o) = Idle(b, o)
<1>1. PICK y \in QueueRec : y = a[o]
  OBVIOUS
<1>2. PICK z : z = b[o]
  OBVIOUS
<1>3. z = AtHead(y)
  BY <1>1, <1>2
<1>5. PICK u : u = [y EXCEPT !.stage = "none", !.batch = <<>>, !.told = {}]
  OBVIOUS
<1>6. u = [z EXCEPT !.stage = "none", !.batch = <<>>, !.told = {}]
  BY <1>3, <1>5 DEF QueueRec, AtHead
<1>7. Idle(a, o) = [a EXCEPT ![o] = u] /\ Idle(b, o) = [b EXCEPT ![o] = u]
  BY <1>1, <1>2, <1>5, <1>6 DEF Idle
<1>8. [a EXCEPT ![o] = u] = [b EXCEPT ![o] = u]
  OBVIOUS
<1>. QED
  BY <1>7, <1>8

LEMMA RunCompletesKeepsInv ==
  ASSUME FollowupQueueAssumption, FollowupInv, NEW o \in Objects, RunCompletes(o)
  PROVE  FollowupInv'
<1>1. /\ Good(q, current, fate, recent, order, runs, excuses) /\ QueuesOK(q, recent, order, runs)
      /\ q \in [Objects -> QueueRec] /\ SoundQueue(q[o], recent, order) /\ HistoryOK(recent, order, runs)
  BY DEF FollowupInv, Good, QueuesOK
<1>2. PICK x \in QueueRec : x = q[o]
  BY <1>1
<1>3. PICK y : y = After(x)
  OBVIOUS
<1>4. PICK f : f = FateAfter(x, fate)
  OBVIOUS
<1>5. PICK rns : rns = RunsAfter(x, runs)
  OBVIOUS
<1>6. PICK z : z = AtHead(y)
  OBVIOUS
<1>7. PICK qs : qs = [q EXCEPT ![o] = y]
  OBVIOUS
<1>8. PICK rs : rs = [q EXCEPT ![o] = z]
  OBVIOUS
<1>9. x.stage = "running" /\ op' = None /\ UNCHANGED <<recent, order, foreign, arriving, arrivals, excuses, failures>>
  BY <1>2 DEF RunCompletes
<1>10. rns = runs'
  BY <1>2, <1>5 DEF RunCompletes, RunsAfter, Ran
<1>11. Continue(qs, o, f)
  BY <1>2, <1>3, <1>4, <1>7 DEF RunCompletes, After, FateAfter, Unseen, Swallowed, Ran
<1>12. Good(rs, current, f, recent, order, rns, excuses)
  <2>1. z = AtHead(After(x))
    BY <1>3, <1>6
  <2>. QED
    BY <1>1, <1>2, <1>4, <1>5, <1>8, <1>9, <2>1, CompletedGood
<1>13. HistoryOK(recent, order, rns)
  BY <1>1, <1>2, <1>5, RunsAfterOK
<1>14. /\ y \in QueueRec /\ y.stage = "running" /\ z \in QueueRec /\ z.stage = "debounce"
  BY <1>1, <1>2, <1>3, <1>6, <1>9, AfterFacts
<1>15. /\ qs[o] = y /\ rs[o] = z /\ rs \in [Objects -> QueueRec]
       /\ \A c \in Objects : c # o => qs[c] = q[c] /\ rs[c] = q[c]
  BY <1>1, <1>7, <1>8, <1>14
<1>16. CASE Pending(qs[o])
  <2>1. q' = [qs EXCEPT ![o].stage = "debounce"] /\ fate' = f /\ current' = current
    BY <1>11, <1>16 DEF Continue
  <2>2. q' = rs
    BY <1>1, <1>6, <1>7, <1>8, <1>15, <2>1 DEF AtHead
  <2>3. Good(q', current', fate', recent, order, rns, excuses)
    BY <1>12, <2>1, <2>2
  <2>4. Watched(q', current')
    BY <1>14, <1>15, <2>2 DEF Watched, Draining
  <2>5. \A c \in Objects : q'[c].stage = "running" <=> q[c].stage = "running" /\ c # o
    BY <1>14, <1>15, <2>2
  <2>6. failures' \in 0..MaxFailures
    BY <1>9 DEF FollowupInv, Scalars
  <2>. QED
    BY <1>2, <1>9, <1>10, <1>13, <2>3, <2>4, <2>5, <2>6, RunEndedInv
<1>17. CASE ~Pending(qs[o])
  <2>1. Finish(qs, o, f)
    BY <1>11, <1>17 DEF Continue
  <2>2. Idle(qs, o) = Idle(rs, o)
    <3>1. qs \in [Objects -> QueueRec] /\ rs[o] = AtHead(qs[o]) /\ \A c \in Objects : c # o => qs[c] = rs[c]
      BY <1>1, <1>6, <1>7, <1>14, <1>15
    <3>. QED
      BY <1>15, <3>1, FinishAnyStage
  <2>3. Finish(rs, o, f)
    <3>1. FinishWith(Idle(qs, o), o, f)
      BY <2>1, FinishMeans
    <3>2. FinishWith(Idle(rs, o), o, f)
      BY <2>2, <3>1
    <3>. QED
      BY <3>2, FinishMeans
  <2>4. /\ Good(q', current', fate', recent, order, rns, excuses) /\ Watched(q', current')
        /\ \A c \in Objects : q'[c].stage = "running" <=> rs[c].stage = "running" /\ c # o
    BY <1>12, <1>14, <1>15, <2>3, FinishKeepsGood DEF Draining
  <2>5. \A c \in Objects : q'[c].stage = "running" <=> q[c].stage = "running" /\ c # o
    BY <1>15, <2>4
  <2>6. failures' \in 0..MaxFailures
    BY <1>9 DEF FollowupInv, Scalars
  <2>. QED
    BY <1>2, <1>9, <1>10, <1>13, <2>4, <2>5, <2>6, RunEndedInv
<1>. QED
  BY <1>16, <1>17

-----------------------------------------------------------------------------
LEMMA FollowupInitInv == FollowupQueueAssumption /\ FollowupInit => FollowupInv
<1>. SUFFICES ASSUME FollowupQueueAssumption, FollowupInit PROVE FollowupInv
  OBVIOUS
<1>1. /\ q \in [Objects -> QueueRec] /\ \A o \in Objects : q[o] = Blank
  BY BlankFacts DEF FollowupInit
<1>2. \A o \in Objects : SoundQueue(q[o], recent, order) /\ Has(q[o]) = {}
  BY <1>1, BlankFacts, EmptyRange DEF SoundQueue, Has, Active
<1>3. QueuesOK(q, recent, order, runs)
  BY <1>1, <1>2 DEF QueuesOK
<1>4. FrontsOK(q, current, fate, excuses)
  BY <1>1, BlankFacts DEF FrontsOK, FrontOK, Active, FollowupInit
<1>5. Mapped(q, current) /\ DrainsOK(q, current, fate, excuses) /\ QueuedKept(q, fate)
  BY <1>1, BlankFacts DEF Mapped, DrainsOK, QueuedKept, Draining, FollowupInit
<1>6. fate \in [Messages -> Fates] /\ current \in Objects \cup {None}
  BY DEF FollowupInit, Fates
<1>7. HistoryOK(recent, order, runs)
  <2>1. /\ recent \subseteq Messages /\ order \in Seq(Messages) /\ runs \in [Messages -> Nat]
        /\ Range(order) = recent /\ DOMAIN order = {} /\ \A m \in Messages : runs[m] = 0
    BY EmptyRange, EmptySeq DEF FollowupInit
  <2>. QED
    BY <2>1 DEF HistoryOK
<1>8. OpOK(q, op)
  BY <1>1, BlankFacts DEF OpOK, FollowupInit, FollowupQueueAssumption
<1>9. Scalars
  <2>1. failures \in 0..MaxFailures
    BY DEF FollowupInit, FollowupQueueAssumption
  <2>2. arrivals \in [Messages -> Nat]
    BY DEF FollowupInit
  <2>. QED
    BY <2>1, <2>2 DEF Scalars, FollowupInit
<1>10. IdleOnlyAfterForeign
  BY DEF IdleOnlyAfterForeign, IdleWithItems, FollowupInit
<1>. QED
  BY <1>3, <1>4, <1>5, <1>6, <1>7, <1>8, <1>9, <1>10 DEF FollowupInv, Good

LEMMA FollowupNextInv == FollowupQueueAssumption /\ FollowupInv /\ [FollowupNext]_fvars => FollowupInv'
<1>. SUFFICES ASSUME FollowupQueueAssumption, FollowupInv, [FollowupNext]_fvars PROVE FollowupInv'
  OBVIOUS
<1>1. CASE UNCHANGED fvars
  BY <1>1 DEF fvars, FollowupInv, Scalars, IdleOnlyAfterForeign, IdleWithItems, RunActive
<1>2. ASSUME NEW m \in Messages, Arrive(m) PROVE FollowupInv'
  BY <1>2, ArriveKeepsInv
<1>3. ASSUME NEW m \in Messages, DirectRun(m) PROVE FollowupInv'
  BY <1>3, DirectRunKeepsInv
<1>4. ASSUME NEW m \in Messages, NEW s \in SettingsOf[m], EnqueueFollowupRun(m, s) PROVE FollowupInv'
  BY <1>4, EnqueueKeepsInv
<1>5. CASE DirectEnds
  BY <1>5, DirectEndsKeepsInv
<1>6. CASE ForeignStarts \/ ForeignEnds
  BY <1>6, ForeignKeepsInv
<1>7. CASE ClearSessionQueues
  BY <1>7, ClearKeepsInv
<1>8. ASSUME NEW o \in Objects, DrainStep(o) PROVE FollowupInv'
  BY <1>8, DebouncedKeepsInv, CollectedKeepsInv, CallRunKeepsInv, RunCompletesKeepsInv, RunFailsKeepsInv DEF DrainStep
<1>. QED
  BY <1>1, <1>2, <1>3, <1>4, <1>5, <1>6, <1>7, <1>8 DEF FollowupNext

(* The inductive invariant. *)
THEOREM FollowupInvAlways == FollowupSpec => []FollowupInv
<1>1. FollowupInit => FollowupInv
  BY FollowupInitInv, FollowupQueueAssumption
<1>2. FollowupInv /\ [FollowupNext]_fvars => FollowupInv'
  BY FollowupNextInv, FollowupQueueAssumption
<1>. QED
  BY <1>1, <1>2, PTL DEF FollowupSpec

LEMMA FollowupInvMeans ==
  ASSUME FollowupQueueAssumption, FollowupInv
  PROVE  TypeOK /\ RunOnce /\ NothingLost /\ IdleOnlyAfterForeign
<1>1. q \in [Objects -> QueueRec] /\ Mapped(q, current) /\ OpOK(q, op) /\ Scalars
      /\ current \in Objects \cup {None} /\ fate \in [Messages -> Fates]
      /\ HistoryOK(recent, order, runs)
  BY DEF FollowupInv, Good, QueuesOK
<1>2. TypeOK
  <2>1. q \in [Objects -> [items : Seq(Messages), setting : Settings, dropped : SUBSET Messages,
                        lastRun : BOOLEAN, stage : DrainStages, force : BOOLEAN, kind : Kinds,
                        batch : Seq(Messages), told : SUBSET Messages]]
    BY <1>1 DEF QueueRec
  <2>2. \A o \in Objects : (op = o) <=> (q[o].stage = "running")
    BY <1>1 DEF OpOK
  <2>3. \A o \in Objects : o # current /\ q[o].stage = "none" => q[o].items = <<>>
    BY <1>1 DEF Mapped
  <2>4. recent \subseteq Messages /\ order \in Seq(Messages) /\ runs \in [Messages -> Nat]
    BY <1>1 DEF HistoryOK
  <2>5. /\ arriving \subseteq Messages /\ op \in Objects \cup {None, "direct"} /\ foreign \in BOOLEAN
        /\ arrivals \in [Messages -> Nat] /\ excuses \subseteq Excuses
    BY <1>1 DEF Scalars
  <2>6. failures \in 0..MaxFailures
    BY <1>1 DEF Scalars
  <2>. QED
    BY <1>1, <2>1, <2>2, <2>3, <2>4, <2>5, <2>6 DEF TypeOK
<1>3. RunOnce
  BY <1>1 DEF RunOnce, HistoryOK
<1>4. NothingLost
  BY DEF NothingLost, FollowupInv, Good, FrontsOK, DrainsOK
<1>. QED
  BY <1>2, <1>3, <1>4 DEF FollowupInv

(* FOLLOWUP_QUEUES, the drains and the reply operation are consistent: a   *)
(* queue object has a run exactly while the run holds the operation, and   *)
(* what is out of the map and does not drain has no messages.              *)
THEOREM FollowupTypeCorrect == FollowupSpec => []TypeOK
<1>1. FollowupInv => TypeOK
  BY FollowupInvMeans, FollowupQueueAssumption
<1>. QED
  BY <1>1, FollowupInvAlways, PTL

(* No message is in two successful followup runs, however often it is      *)
(* delivered, runs fail, drains begin again and the queue is cleared: the  *)
(* remembered ids, the items and the batches never let it in twice.        *)
THEOREM RunOnceAlways == FollowupSpec => []RunOnce
<1>1. FollowupInv => RunOnce
  BY FollowupInvMeans, FollowupQueueAssumption
<1>. QED
  BY <1>1, FollowupInvAlways, PTL

(* splice and shift after a run remove a message that did not run only when *)
(* the queue overflowed during the run, and finally forgets a queue with   *)
(* messages only after a clear during a drain.                             *)
THEOREM NothingLostAlways == FollowupSpec => []NothingLost
<1>1. FollowupInv => NothingLost
  BY FollowupInvMeans, FollowupQueueAssumption
<1>. QED
  BY <1>1, FollowupInvAlways, PTL

(* Every end of a run the reply runner started, and every enqueue that     *)
(* finds no run, leaves somebody who looks at the queue.                   *)
THEOREM IdleOnlyAfterForeignAlways == FollowupSpec => []IdleOnlyAfterForeign
<1>1. FollowupInv => IdleOnlyAfterForeign
  BY FollowupInvMeans, FollowupQueueAssumption
<1>. QED
  BY <1>1, FollowupInvAlways, PTL

-----------------------------------------------------------------------------
(* Only a run that completes is counted. *)
LEMMA OnlyCompletesRuns ==
  ASSUME [FollowupNext]_fvars, \A o \in Objects : ~RunCompletes(o)
  PROVE  runs' = runs
<1>1. CASE UNCHANGED fvars
  BY <1>1 DEF fvars
<1>2. ASSUME NEW m \in Messages, Arrive(m) \/ DirectRun(m) PROVE runs' = runs
  BY <1>2 DEF Arrive, DirectRun, history
<1>3. ASSUME NEW m \in Messages, NEW s, EnqueueFollowupRun(m, s) PROVE runs' = runs
  BY <1>3 DEF EnqueueFollowupRun, Skipped, Refused, Accepted, history
<1>4. CASE DirectEnds \/ ForeignStarts \/ ForeignEnds \/ ClearSessionQueues
  BY <1>4 DEF DirectEnds, ForeignStarts, ForeignEnds, ClearSessionQueues, history
<1>5. ASSUME NEW o \in Objects, Debounced(o) \/ Collected(o) \/ CallRun(o) \/ RunFails(o) PROVE runs' = runs
  BY <1>5 DEF Debounced, Collected, CallRun, RunFails, drainLeaves, history
<1>. QED
  BY <1>1, <1>2, <1>3, <1>4, <1>5 DEF FollowupNext, DrainStep

RunOf(m) == runs'[m] > runs[m]

LEMMA RunOfMeans ==
  ASSUME FollowupInv, NEW o \in Objects, RunCompletes(o), NEW m \in Messages
  PROVE  RunOf(m) <=> m \in Ran(q[o])
<1>1. runs[m] \in Nat
  BY DEF FollowupInv, HistoryOK
<1>2. runs'[m] = IF m \in Ran(q[o]) THEN runs[m] + 1 ELSE runs[m]
  BY DEF RunCompletes, Ran
<1>. QED
  BY <1>1, <1>2 DEF RunOf

LEMMA CompletesInOrder ==
  ASSUME FollowupQueueAssumption, FollowupInv, NEW o \in Objects, RunCompletes(o), NEW m \in Messages, NEW n \in Messages,
         RunOf(n), Precedes(m, n), fate[m] = "queued", "clear in flight" \notin excuses
  PROVE  RunOf(m)
<1>1. /\ q \in [Objects -> QueueRec] /\ Mapped(q, current) /\ QueuedKept(q, fate)
      /\ DrainsOK(q, current, fate, excuses) /\ SoundQueue(q[o], recent, order)
  BY DEF FollowupInv, Good, QueuesOK
<1>2. q[o].stage = "running"
  BY DEF RunCompletes
<1>3. n \in Ran(q[o])
  BY RunOfMeans
<1>4. q[o].kind # "summary" /\ n \in Range(q[o].batch)
  BY <1>3 DEF Ran
<1>5. o = current
  BY <1>1, <1>2 DEF DrainsOK, Draining
<1>6. PICK c \in Objects : m \in Range(q[c].items)
  BY <1>1 DEF QueuedKept
<1>7. c = current
  <2>. SUFFICES ASSUME c # current PROVE FALSE
    OBVIOUS
  <2>1. q[c].stage = "none"
    BY <1>1 DEF DrainsOK, Draining
  <2>2. q[c].items = <<>>
    BY <1>1, <2>1 DEF Mapped
  <2>. QED
    BY <1>6, <2>2, EmptyRange
<1>8. Before(order, m, n)
  BY DEF Precedes, Before
<1>9. m \in Range(q[o].batch)
  BY <1>1, <1>2, <1>4, <1>5, <1>6, <1>7, <1>8 DEF SoundQueue, Active
<1>10. m \in Ran(q[o])
  BY <1>4, <1>9 DEF Ran
<1>. QED
  BY <1>10, RunOfMeans

LEMMA NotCompletedNotRun ==
  ASSUME FollowupInv, [FollowupNext]_fvars, \A o \in Objects : ~RunCompletes(o), NEW n \in Messages
  PROVE  ~RunOf(n)
<1>1. runs' = runs /\ runs[n] \in Nat
  BY OnlyCompletesRuns DEF FollowupInv, HistoryOK
<1>. QED
  BY <1>1 DEF RunOf

(* Followups run in the order enqueueFollowupRun accepted them: no run     *)
(* succeeds for a message while one accepted before it waits in the queue  *)
(* and is not in the same batch, unless the queue was cleared under a      *)
(* drain.                                                                  *)
THEOREM InOrderAlways == FollowupSpec => InOrder
<1>1. FollowupInv /\ [FollowupNext]_fvars =>
        [\A m, n \in Messages :
           runs'[n] > runs[n] /\ Precedes(m, n) /\ fate[m] = "queued" /\ "clear in flight" \notin excuses
             => runs'[m] > runs[m]]_fvars
  <2>. SUFFICES ASSUME FollowupInv, [FollowupNext]_fvars, NEW m \in Messages, NEW n \in Messages,
                       RunOf(n), Precedes(m, n), fate[m] = "queued", "clear in flight" \notin excuses
                PROVE  RunOf(m)
    BY DEF RunOf
  <2>1. CASE \E o \in Objects : RunCompletes(o)
    BY <2>1, CompletesInOrder, FollowupQueueAssumption
  <2>2. CASE \A o \in Objects : ~RunCompletes(o)
    BY <2>2, NotCompletedNotRun
  <2>. QED
    BY <2>1, <2>2
<1>. QED
  BY <1>1, FollowupInvAlways, PTL DEF FollowupSpec, InOrder
=============================================================================
