------------------------ MODULE ExecApprovalsProofs ------------------------
(***************************************************************************)
(* What the gateway lets run is what was decided, for any ids and any      *)
(* number of requests that register under them.                            *)
(***************************************************************************)
EXTENDS ExecApprovals, TLAPS

(* A record on its own: an open one is undecided, has its timer and has run *)
(* nothing; a client's decision is what the promise was resolved with, and *)
(* stands in the record until an allow-once is consumed.                   *)
Consistent(a) ==
  /\ a.promise = "open" => a.decision = "none" /\ a.by = "nobody" /\ a.runs = 0 /\ a.timer /\ ~a.grace
  /\ a.timer => a.promise = "open"
  /\ a.promise \in Decisions <=> a.by = "client"
  /\ a.decision \in {"none", a.promise}
  /\ a.decision = "allow-once" => a.runs = 0
  /\ a.promise = "allow-once" => a.runs \in {0, 1}
  /\ a.promise = "deny" \/ a.by = "no route" => a.runs = 0
  /\ a.promise = "none" /\ a.by = "nobody" => a.clock # "early"

(* An open registration is the one its id finds. *)
ApprovalsInv ==
  /\ ApprovalsTypeOK
  /\ \A r \in Existing :
       /\ Consistent(approvals[r])
       /\ approvals[r].promise = "open" => pending[approvals[r].id] = r

-----------------------------------------------------------------------------
(* The map begins empty. *)
LEMMA ApprovalsInvInit == ASSUME ExecApprovalsAssumption, ApprovalsInit PROVE ApprovalsInv
<1>1. registered = 0 /\ 1..registered = {} /\ approvals = <<>>
  BY DEF ApprovalsInit
<1>2. approvals \in [1..registered -> Approval]
  BY <1>1
<1>3. pending \in [Ids -> 0..MaxRequests] /\ \A i \in Ids : pending[i] = 0
  BY DEF ApprovalsInit, ExecApprovalsAssumption
<1>4. registered \in 0..MaxRequests
  BY <1>1 DEF ExecApprovalsAssumption
<1>5. ApprovalsTypeOK
  BY <1>1, <1>2, <1>3, <1>4 DEF ApprovalsTypeOK
<1>. QED
  BY <1>1, <1>5 DEF ApprovalsInv, Existing

(* Steps that leave the map as it is: each record stays consistent, under   *)
(* its id, and open only if it was.                                        *)
LEMMA RecordsChange ==
  ASSUME ApprovalsInv, UNCHANGED <<pending, registered>>,
         approvals' \in [Existing -> Approval],
         \A r \in Existing :
           /\ Consistent(approvals'[r]) /\ approvals'[r].id = approvals[r].id
           /\ approvals'[r].promise = "open" => approvals[r].promise = "open"
  PROVE  ApprovalsInv'
<1>1. registered \in Nat /\ pending \in [Ids -> 0..MaxRequests] /\ registered \in 0..MaxRequests
  BY DEF ApprovalsInv, ApprovalsTypeOK
<1>2. \A i \in Ids : pending[i] <= registered /\ (pending[i] # 0 => pending[i] \in Existing)
  BY <1>1 DEF ApprovalsInv, ApprovalsTypeOK, Existing
<1>3. \A i \in Ids : pending[i] # 0 => approvals'[pending[i]].id = i
  BY <1>2 DEF ApprovalsInv, ApprovalsTypeOK
<1>4. ApprovalsTypeOK'
  BY <1>1, <1>2, <1>3 DEF ApprovalsTypeOK, Existing
<1>5. \A r \in Existing : approvals'[r].promise = "open" => pending'[approvals'[r].id] = r
  BY DEF ApprovalsInv
<1>. QED
  BY <1>4, <1>5 DEF ApprovalsInv, Existing

(* Steps that change one record. *)
LEMMA RecordChanges ==
  ASSUME ApprovalsInv, UNCHANGED <<pending, registered>>,
         NEW r \in Existing, NEW a \in Approval,
         approvals' = [approvals EXCEPT ![r] = a],
         Consistent(a), a.id = approvals[r].id, a.promise = "open" => approvals[r].promise = "open"
  PROVE  ApprovalsInv'
<1>1. approvals \in [Existing -> Approval]
  BY DEF ApprovalsInv, ApprovalsTypeOK, Existing
<1>2. approvals' \in [Existing -> Approval]
  BY <1>1
<1>3. \A q \in Existing : approvals'[q] = IF q = r THEN a ELSE approvals[q]
  BY <1>1
<1>. QED
  BY <1>2, <1>3, RecordsChange DEF ApprovalsInv

(* The record an id finds. *)
LEMMA EntryFacts ==
  ASSUME ApprovalsInv, NEW i \in Ids, pending[i] # 0
  PROVE  pending[i] \in Existing /\ Entry(i) \in Approval /\ Consistent(Entry(i)) /\ Entry(i).id = i
<1>1. pending[i] \in Existing
  BY DEF ApprovalsInv, ApprovalsTypeOK, Existing
<1>. QED
  BY <1>1 DEF ApprovalsInv, ApprovalsTypeOK, Existing, Entry

(* A record of a registration. *)
LEMMA RecordFacts ==
  ASSUME ApprovalsInv, NEW r \in Existing
  PROVE  approvals[r] \in Approval /\ Consistent(approvals[r]) /\ approvals[r].id \in Ids
<1>1. approvals[r] \in Approval /\ Consistent(approvals[r])
  BY DEF ApprovalsInv, ApprovalsTypeOK, Existing
<1>. QED
  BY <1>1 DEF Approval

(* Settling an open record: a decision is a client's, and without one its   *)
(* time has come or it has no route.                                       *)
LEMMA SettledFacts ==
  ASSUME NEW a \in Approval, Consistent(a), a.promise = "open",
         NEW decision \in Decisions \cup {"none"}, NEW by \in {"nobody", "client", "no route"},
         decision \in Decisions <=> by = "client",
         decision = "none" /\ by = "nobody" => a.clock # "early"
  PROVE  /\ Settled(a, decision, by) \in Approval /\ Consistent(Settled(a, decision, by))
         /\ Settled(a, decision, by).id = a.id /\ Settled(a, decision, by).promise = decision
         /\ decision # "open"
<1>. DEFINE s == Settled(a, decision, by)
<1>1. s \in Approval
  BY DEF Settled, Approval
<1>2. /\ s.id = a.id /\ s.decision = decision /\ s.promise = decision /\ s.by = by /\ s.clock = a.clock
      /\ ~s.timer /\ s.runs = a.runs
  BY DEF Settled, Approval
<1>3. decision # "open"
  BY DEF Decisions
<1>4. a.runs = 0
  BY DEF Consistent
<1>. HIDE DEF s
<1>5. Consistent(s)
  <2>1. ~s.timer /\ (s.promise = "open" => FALSE) /\ s.runs = 0
    BY <1>2, <1>3, <1>4
  <2>2. s.promise \in Decisions <=> s.by = "client"
    BY <1>2
  <2>3. s.decision \in {"none", s.promise}
    BY <1>2
  <2>4. s.promise = "none" /\ s.by = "nobody" => s.clock # "early"
    BY <1>2
  <2>5. /\ s.promise = "open" => s.decision = "none" /\ s.by = "nobody" /\ s.runs = 0 /\ s.timer /\ ~s.grace
        /\ s.timer => s.promise = "open"
    BY <2>1
  <2>6. /\ s.decision = "allow-once" => s.runs = 0
        /\ s.promise = "allow-once" => s.runs \in {0, 1}
        /\ s.promise = "deny" \/ s.by = "no route" => s.runs = 0
    BY <2>1
  <2>. QED
    BY <2>2, <2>3, <2>4, <2>5, <2>6, Zenon DEF Consistent
<1>. QED
  BY <1>1, <1>2, <1>3, <1>5 DEF s

-----------------------------------------------------------------------------
(* A registration comes under an id that finds nothing. *)
LEMMA RegisterKeepsInv ==
  ASSUME ApprovalsInv, ExecApprovalsAssumption, NEW i \in Ids, Register(i)
  PROVE  ApprovalsInv'
<1>. DEFINE n == registered'
            new == [id |-> i, decision |-> "none", promise |-> "open", by |-> "nobody", clock |-> "early",
                    timer |-> TRUE, grace |-> FALSE, request |-> "delivering", runs |-> 0]
<1>1. /\ registered \in Nat /\ n = registered + 1 /\ n \in 0..MaxRequests /\ pending[i] = 0
      /\ pending' = [pending EXCEPT ![i] = n]
      /\ approvals' = [r \in 1..n |-> IF r <= registered THEN approvals[r] ELSE new]
  BY DEF Register, ApprovalsInv, ApprovalsTypeOK, ExecApprovalsAssumption
<1>2. new \in Approval /\ Consistent(new) /\ new.id = i
  BY DEF Approval, Consistent, Decisions
<1>. HIDE DEF new
<1>3. /\ \A r \in 1..registered : r \in 1..n /\ approvals'[r] = approvals[r]
      /\ approvals'[n] = new
      /\ \A r \in 1..n : r \in 1..registered \/ r = n
  BY <1>1
<1>4. /\ approvals \in [1..registered -> Approval] /\ pending \in [Ids -> 0..MaxRequests]
      /\ \A j \in Ids : pending[j] <= registered /\ (pending[j] # 0 => approvals[pending[j]].id = j)
      /\ \A r \in 1..registered :
           Consistent(approvals[r]) /\ (approvals[r].promise = "open" => pending[approvals[r].id] = r)
  BY DEF ApprovalsInv, ApprovalsTypeOK, Existing
<1>5. approvals' \in [1..n -> Approval]
  BY <1>1, <1>2, <1>4
<1>6. pending' \in [Ids -> 0..MaxRequests] /\ \A j \in Ids : pending'[j] = IF j = i THEN n ELSE pending[j]
  BY <1>1, <1>4
<1>7. ASSUME NEW j \in Ids PROVE pending'[j] <= n /\ (pending'[j] # 0 => approvals'[pending'[j]].id = j)
  <2>1. CASE j = i
    BY <1>1, <1>2, <1>3, <1>6, <2>1
  <2>2. CASE j # i
    <3>1. pending'[j] = pending[j] /\ pending[j] \in 0..registered
      BY <1>1, <1>4, <1>6, <2>2
    <3>. QED
      BY <1>1, <1>3, <1>4, <3>1
  <2>. QED
    BY <2>1, <2>2
<1>8. ASSUME NEW r \in 1..n
      PROVE  Consistent(approvals'[r]) /\ (approvals'[r].promise = "open" => pending'[approvals'[r].id] = r)
  <2>1. CASE r = n
    BY <1>2, <1>3, <1>6, <2>1
  <2>2. CASE r \in 1..registered
    <3>1. approvals[r].id \in Ids /\ approvals'[r] = approvals[r] /\ Consistent(approvals[r])
      BY <1>3, <1>4, <2>2 DEF Approval
    <3>2. approvals[r].promise = "open" => pending'[approvals[r].id] = r
      BY <1>1, <1>4, <1>6, <2>2, <3>1
    <3>. QED
      BY <3>1, <3>2
  <2>. QED
    BY <1>3, <2>1, <2>2
<1>9. ApprovalsTypeOK'
  BY <1>1, <1>5, <1>6, <1>7 DEF ApprovalsTypeOK
<1>. QED
  BY <1>8, <1>9 DEF ApprovalsInv, Existing

(* A client decides an approval that is open. *)
LEMMA ResolveKeepsInv ==
  ASSUME ApprovalsInv, NEW i \in Ids, NEW d \in Decisions, Resolve(i, d)
  PROVE  ApprovalsInv'
<1>1. /\ pending[i] # 0 /\ Entry(i).promise = "open" /\ UNCHANGED <<pending, registered>>
      /\ approvals' = [approvals EXCEPT ![pending[i]] = Settled(approvals[pending[i]], d, "client")]
  BY DEF Resolve, Unresolved
<1>2. /\ pending[i] \in Existing /\ approvals[pending[i]] \in Approval /\ Consistent(approvals[pending[i]])
      /\ approvals[pending[i]].promise = "open"
  BY <1>1, EntryFacts DEF Entry
<1>. QED
  BY <1>1, <1>2, SettledFacts, RecordChanges

(* A timer finds its own entry, which is open as long as it is set. *)
LEMMA TimerKeepsInv ==
  ASSUME ApprovalsInv, NEW r \in Registrations, TimerExpires(r)
  PROVE  ApprovalsInv'
<1>. DEFINE a == approvals[r]
            fired == [a EXCEPT !.timer = FALSE]
<1>1. r \in Existing /\ a.timer /\ a.clock # "early" /\ UNCHANGED <<pending, registered>>
  BY DEF TimerExpires
<1>2. a \in Approval /\ Consistent(a) /\ a.id \in Ids /\ a.promise = "open" /\ pending[a.id] = r
  <2>1. a \in Approval /\ Consistent(a) /\ a.id \in Ids
    BY <1>1, RecordFacts
  <2>2. a.promise = "open"
    BY <1>1, <2>1 DEF Consistent
  <2>. QED
    BY <1>1, <2>1, <2>2 DEF ApprovalsInv
<1>3. r # 0 /\ approvals \in [Existing -> Approval]
  BY <1>1 DEF Existing, ApprovalsInv, ApprovalsTypeOK
<1>4. fired.promise = "open" /\ Settled(fired, "none", "nobody") = Settled(a, "none", "nobody")
  BY <1>2 DEF Approval, Settled
<1>5. approvals' = [approvals EXCEPT ![r] = Settled(a, "none", "nobody")]
  <2>1. approvals' = [[approvals EXCEPT ![r] = fired] EXCEPT ![r] = Settled(fired, "none", "nobody")]
    BY <1>1, <1>2, <1>3, <1>4 DEF TimerExpires
  <2>. QED
    BY <1>1, <1>3, <1>4, <2>1
<1>6. "none" \notin Decisions /\ "nobody" # "client"
  BY DEF Decisions
<1>. QED
  BY <1>1, <1>2, <1>5, <1>6, SettledFacts, RecordChanges

(* A grace period ends after its approval was settled. *)
LEMMA GraceKeepsInv ==
  ASSUME ApprovalsInv, NEW r \in Registrations, GraceEnds(r)
  PROVE  ApprovalsInv'
<1>. DEFINE a == approvals[r]
            ended == [a EXCEPT !.grace = FALSE]
<1>1. /\ r \in Existing /\ a.grace /\ registered' = registered
      /\ approvals' = [approvals EXCEPT ![r] = ended]
      /\ pending' = [i \in Ids |-> IF pending[i] = r THEN 0 ELSE pending[i]]
  BY DEF GraceEnds
<1>2. a \in Approval /\ Consistent(a)
  BY <1>1, RecordFacts
<1>3. a.promise # "open"
  BY <1>1, <1>2 DEF Consistent
<1>4. ended \in Approval /\ ended.id = a.id /\ ended.promise = a.promise /\ Consistent(ended)
  <2>1. /\ ended \in Approval /\ ended.id = a.id /\ ended.promise = a.promise /\ ended.decision = a.decision
        /\ ended.by = a.by /\ ended.clock = a.clock /\ ended.runs = a.runs /\ ended.timer = a.timer
    BY <1>2 DEF Approval
  <2>. HIDE DEF ended
  <2>. QED
    BY <1>2, <1>3, <2>1 DEF Consistent
<1>. HIDE DEF ended
<1>5. /\ approvals \in [Existing -> Approval] /\ pending \in [Ids -> 0..MaxRequests]
      /\ registered \in 0..MaxRequests
      /\ \A i \in Ids : pending[i] <= registered /\ (pending[i] # 0 => approvals[pending[i]].id = i)
      /\ \A q \in Existing :
           Consistent(approvals[q]) /\ (approvals[q].promise = "open" => pending[approvals[q].id] = q)
  BY DEF ApprovalsInv, ApprovalsTypeOK, Existing
<1>6. approvals' \in [Existing -> Approval] /\ \A q \in Existing : approvals'[q] = IF q = r THEN ended ELSE approvals[q]
  BY <1>1, <1>4, <1>5
<1>7. ASSUME NEW i \in Ids
      PROVE  /\ pending'[i] \in 0..MaxRequests /\ pending'[i] <= registered
             /\ pending'[i] # 0 => approvals'[pending'[i]].id = i
  <2>1. pending[i] \in 0..MaxRequests /\ pending[i] <= registered /\ registered \in Nat /\ 0 \in 0..MaxRequests
    <3>1. pending[i] \in 0..MaxRequests /\ pending[i] <= registered
      BY <1>5
    <3>2. registered \in 0..MaxRequests
      BY <1>5
    <3>. QED
      BY <3>1, <3>2, ExecApprovalsAssumption
  <2>2. pending'[i] = IF pending[i] = r THEN 0 ELSE pending[i]
    BY <1>1
  <2>3. pending[i] # 0 => pending[i] \in Existing
    BY <2>1 DEF Existing
  <2>. QED
    BY <1>5, <1>6, <2>1, <2>2, <2>3
<1>8. pending' \in [Ids -> 0..MaxRequests]
  BY <1>1, <1>7
<1>9. ApprovalsTypeOK'
  BY <1>1, <1>5, <1>6, <1>7, <1>8 DEF ApprovalsTypeOK, Existing
<1>10. ASSUME NEW q \in Existing
       PROVE  Consistent(approvals'[q]) /\ (approvals'[q].promise = "open" => pending'[approvals'[q].id] = q)
  <2>1. CASE q = r
    BY <1>3, <1>4, <1>6, <2>1
  <2>2. CASE q # r
    <3>1. approvals'[q] = approvals[q] /\ approvals[q].id \in Ids
      BY <1>5, <1>6, <2>2 DEF Approval
    <3>. QED
      BY <1>1, <1>5, <2>2, <3>1
  <2>. QED
    BY <2>1, <2>2
<1>. QED
  BY <1>1, <1>9, <1>10 DEF ApprovalsInv, Existing

(* The clock, the answers and the runs leave who decided what: a record is  *)
(* as consistent as it was when its decision and promise stand.            *)
LEMMA SameDecision ==
  ASSUME NEW a, NEW b, Consistent(a),
         b.promise = a.promise, b.decision = a.decision, b.by = a.by, b.runs = a.runs,
         b.timer = a.timer, b.grace = a.grace, a.clock # "early" => b.clock # "early"
  PROVE  Consistent(b)
<1>1. /\ b.promise = "open" => b.decision = "none" /\ b.by = "nobody" /\ b.runs = 0 /\ b.timer /\ ~b.grace
      /\ b.timer => b.promise = "open"
  BY Zenon DEF Consistent
<1>2. /\ b.promise \in Decisions <=> b.by = "client"
      /\ b.decision \in {"none", b.promise}
      /\ b.decision = "allow-once" => b.runs = 0
      /\ b.promise = "allow-once" => b.runs \in {0, 1}
      /\ b.promise = "deny" \/ b.by = "no route" => b.runs = 0
      /\ b.promise = "none" /\ b.by = "nobody" => b.clock # "early"
  BY Zenon DEF Consistent
<1>. QED
  BY <1>1, <1>2, Zenon DEF Consistent

(* The clock goes on, a request is delivered or hears the decision. *)
LEMMA ObserversKeepInv ==
  ASSUME ApprovalsInv, NEW r \in Registrations, ClockGoesOn(r) \/ IsDelivered(r) \/ IsDecided(r)
  PROVE  ApprovalsInv'
<1>. DEFINE a == approvals[r]
<1>1. r \in Existing /\ UNCHANGED <<pending, registered>>
  BY DEF ClockGoesOn, IsDelivered, IsDecided
<1>2. a \in Approval /\ Consistent(a)
  BY <1>1, RecordFacts
<1>3. CASE ClockGoesOn(r)
  <2>. DEFINE b == [a EXCEPT !.clock = IF @ = "early" THEN "due" ELSE "late"]
  <2>1. approvals' = [approvals EXCEPT ![r] = b]
    BY <1>3 DEF ClockGoesOn
  <2>2. /\ b \in Approval /\ b.id = a.id /\ b.promise = a.promise /\ b.decision = a.decision /\ b.by = a.by
        /\ b.runs = a.runs /\ b.timer = a.timer /\ b.grace = a.grace /\ b.clock # "early"
    BY <1>2 DEF Approval
  <2>. HIDE DEF b
  <2>3. Consistent(b)
    BY <1>2, <2>2, SameDecision
  <2>. QED
    BY <1>1, <2>1, <2>2, <2>3, RecordChanges
<1>4. CASE IsDelivered(r) \/ IsDecided(r)
  <2>1. PICK answer \in {"waiting", "answered"} : approvals' = [approvals EXCEPT ![r].request = answer]
    BY <1>4 DEF IsDelivered, IsDecided
  <2>. DEFINE b == [a EXCEPT !.request = answer]
  <2>2. approvals' = [approvals EXCEPT ![r] = b]
    BY <2>1
  <2>3. /\ b \in Approval /\ b.id = a.id /\ b.promise = a.promise /\ b.decision = a.decision /\ b.by = a.by
        /\ b.runs = a.runs /\ b.timer = a.timer /\ b.grace = a.grace /\ b.clock = a.clock
    BY <1>2 DEF Approval
  <2>. HIDE DEF b
  <2>4. Consistent(b)
    BY <1>2, <2>3, SameDecision
  <2>. QED
    BY <1>1, <2>2, <2>3, <2>4, RecordChanges
<1>. QED
  BY <1>3, <1>4

(* A request without a route expires what its id finds, if that is open. *)
LEMMA NoRouteKeepsInv ==
  ASSUME ApprovalsInv, NEW r \in Registrations, HasNoRoute(r)
  PROVE  ApprovalsInv'
<1>. DEFINE a == approvals[r]
            i == a.id
            b == [a EXCEPT !.request = "answered"]
            told == [approvals EXCEPT ![r] = b]
<1>1. /\ r \in Existing /\ UNCHANGED <<pending, registered>>
      /\ approvals' = IF Unresolved(i) THEN [told EXCEPT ![pending[i]] = Settled(@, "none", "no route")] ELSE told
  BY DEF HasNoRoute
<1>2. a \in Approval /\ Consistent(a) /\ i \in Ids
  BY <1>1, RecordFacts
<1>3. /\ b \in Approval /\ b.id = a.id /\ b.promise = a.promise /\ b.decision = a.decision /\ b.by = a.by
      /\ b.runs = a.runs /\ b.timer = a.timer /\ b.grace = a.grace /\ b.clock = a.clock
  BY <1>2 DEF Approval
<1>. HIDE DEF b
<1>4. Consistent(b)
  BY <1>2, <1>3, SameDecision
<1>5. approvals \in [Existing -> Approval]
  BY DEF ApprovalsInv, ApprovalsTypeOK, Existing
<1>6. /\ told \in [Existing -> Approval]
      /\ \A q \in Existing : told[q] = IF q = r THEN b ELSE approvals[q]
  BY <1>1, <1>3, <1>5
<1>7. \A q \in Existing :
        Consistent(told[q]) /\ told[q].id = approvals[q].id /\ told[q].promise = approvals[q].promise
  BY <1>3, <1>4, <1>6 DEF ApprovalsInv
<1>. HIDE DEF told
<1>8. CASE ~Unresolved(i)
  BY <1>1, <1>6, <1>7, <1>8, RecordsChange
<1>9. CASE Unresolved(i)
  <2>. DEFINE q == pending[i]
              s == Settled(told[q], "none", "no route")
  <2>1. q \in Existing /\ approvals[q].promise = "open"
    BY <1>2, <1>9, EntryFacts DEF Unresolved, Entry
  <2>2. told[q] \in Approval /\ Consistent(told[q]) /\ told[q].promise = "open" /\ told[q].id = approvals[q].id
    BY <1>6, <1>7, <2>1
  <2>3. "none" \notin Decisions /\ "no route" # "client" /\ "no route" # "nobody"
    BY DEF Decisions
  <2>4. s \in Approval /\ Consistent(s) /\ s.id = approvals[q].id /\ s.promise = "none"
    BY <2>2, <2>3, SettledFacts
  <2>5. approvals' = [told EXCEPT ![q] = s]
    BY <1>1, <1>9
  <2>. HIDE DEF s
  <2>6. /\ approvals' \in [Existing -> Approval]
        /\ \A u \in Existing : approvals'[u] = IF u = q THEN s ELSE told[u]
    BY <1>6, <2>1, <2>4, <2>5
  <2>7. \A u \in Existing :
          /\ Consistent(approvals'[u]) /\ approvals'[u].id = approvals[u].id
          /\ approvals'[u].promise = "open" => approvals[u].promise = "open"
    BY <1>7, <2>4, <2>6
  <2>. QED
    BY <1>1, <2>6, <2>7, RecordsChange
<1>. QED
  BY <1>8, <1>9

(* A run that is let through: the record of a decision to allow, or of an   *)
(* approval that nobody decided in time.                                   *)
LEMMA RunKeepsInv ==
  ASSUME ApprovalsInv, NEW i \in Ids, NEW asks \in BOOLEAN, SystemRun(i, asks)
  PROVE  ApprovalsInv'
<1>. DEFINE a == approvals[pending[i]]
            ran == RunsOnce(a)
            consumed == [ran EXCEPT !.decision = "none"]
<1>1. pending[i] # 0 /\ UNCHANGED <<pending, registered>>
  BY DEF SystemRun
<1>2. pending[i] \in Existing /\ a \in Approval /\ Consistent(a)
  BY <1>1, EntryFacts DEF Entry
<1>3. /\ ran \in Approval /\ ran.id = a.id /\ ran.promise = a.promise /\ ran.decision = a.decision /\ ran.by = a.by
      /\ ran.timer = a.timer /\ ran.grace = a.grace /\ ran.clock = a.clock
      /\ ran.runs = IF a.runs < 2 THEN a.runs + 1 ELSE a.runs
  <2>1. a.runs \in 0..2 /\ (IF a.runs < 2 THEN a.runs + 1 ELSE a.runs) \in 0..2
    <3>1. a.runs \in 0..2
      BY <1>2 DEF Approval
    <3>2. \A n \in 0..2 : (IF n < 2 THEN n + 1 ELSE n) \in 0..2
      OBVIOUS
    <3>. QED
      BY <3>1, <3>2
  <2>2. ran = [a EXCEPT !.runs = IF a.runs < 2 THEN a.runs + 1 ELSE a.runs]
    BY DEF RunsOnce
  <2>3. ran \in Approval
    BY <1>2, <2>1, <2>2 DEF Approval
  <2>. HIDE DEF ran
  <2>4. /\ ran.id = a.id /\ ran.promise = a.promise /\ ran.decision = a.decision /\ ran.by = a.by
        /\ ran.timer = a.timer /\ ran.grace = a.grace /\ ran.clock = a.clock
    BY <1>2, <2>2 DEF Approval
  <2>5. ran.runs = IF a.runs < 2 THEN a.runs + 1 ELSE a.runs
    BY <1>2, <2>2 DEF Approval
  <2>. QED
    BY <2>3, <2>4, <2>5
<1>4. \/ a.decision = "allow-once" /\ approvals' = [approvals EXCEPT ![pending[i]] = consumed]
      \/ /\ approvals' = [approvals EXCEPT ![pending[i]] = ran]
         /\ \/ a.decision = "allow-always"
            \/ a.promise # "open" /\ a.decision = "none" /\ a.by = "nobody"
  BY DEF SystemRun, Entry
<1>. HIDE DEF ran
<1>5. CASE a.decision = "allow-once" /\ approvals' = [approvals EXCEPT ![pending[i]] = consumed]
  <2>1. /\ consumed \in Approval /\ consumed.id = ran.id /\ consumed.promise = ran.promise /\ consumed.decision = "none"
        /\ consumed.by = ran.by /\ consumed.timer = ran.timer /\ consumed.grace = ran.grace
        /\ consumed.clock = ran.clock /\ consumed.runs = ran.runs
    BY <1>3 DEF Approval
  <2>. HIDE DEF consumed
  <2>2. a.promise = "allow-once" /\ a.runs = 0 /\ a.by = "client" /\ ~a.timer
    BY <1>2, <1>5 DEF Consistent, Decisions
  <2>3. /\ consumed.promise = "allow-once" /\ consumed.runs \in {0, 1} /\ consumed.by = "client" /\ ~consumed.timer
        /\ consumed.decision = "none"
    BY <1>3, <2>1, <2>2
  <2>4. Consistent(consumed)
    BY <2>3 DEF Consistent, Decisions
  <2>5. consumed.id = a.id /\ consumed.promise = a.promise
    BY <1>3, <2>1
  <2>. QED
    BY <1>1, <1>2, <1>5, <2>1, <2>4, <2>5, RecordChanges
<1>6. CASE /\ approvals' = [approvals EXCEPT ![pending[i]] = ran]
           /\ \/ a.decision = "allow-always"
              \/ a.promise # "open" /\ a.decision = "none" /\ a.by = "nobody"
  <2>1. /\ ~a.timer /\ a.promise \notin {"open", "allow-once", "deny"} /\ a.by # "no route"
        /\ a.promise \in Decisions <=> a.by = "client"
        /\ a.decision \in {"none", a.promise} /\ a.decision # "allow-once"
        /\ a.promise = "none" /\ a.by = "nobody" => a.clock # "early"
    BY <1>2, <1>6 DEF Consistent, Decisions
  <2>2. /\ ~ran.timer /\ ran.promise \notin {"open", "allow-once", "deny"} /\ ran.by # "no route"
        /\ ran.promise \in Decisions <=> ran.by = "client"
        /\ ran.decision \in {"none", ran.promise} /\ ran.decision # "allow-once"
        /\ ran.promise = "none" /\ ran.by = "nobody" => ran.clock # "early"
    BY <1>3, <2>1, Zenon
  <2>3. Consistent(ran)
    BY <2>2 DEF Consistent
  <2>. QED
    BY <1>1, <1>2, <1>3, <1>6, <2>3, RecordChanges
<1>. QED
  BY <1>4, <1>5, <1>6

-----------------------------------------------------------------------------
(* Every state of the map has the invariant. *)
LEMMA ApprovalsInvAlways == ASSUME ExecApprovalsAssumption PROVE ApprovalsSpec => []ApprovalsInv
<1>1. ApprovalsInit => ApprovalsInv
  BY ApprovalsInvInit
<1>2. ApprovalsInv /\ [ApprovalsNext]_approvalVars => ApprovalsInv'
  <2>1. ASSUME ApprovalsInv, ApprovalsNext PROVE ApprovalsInv'
    BY <2>1, RegisterKeepsInv, ResolveKeepsInv, TimerKeepsInv, GraceKeepsInv, ObserversKeepInv,
       NoRouteKeepsInv, RunKeepsInv DEF ApprovalsNext
  <2>2. ASSUME ApprovalsInv, UNCHANGED approvalVars PROVE ApprovalsInv'
    BY <2>2 DEF approvalVars, ApprovalsInv, ApprovalsTypeOK, Existing
  <2>. QED
    BY <2>1, <2>2
<1>. QED
  BY <1>1, <1>2, PTL DEF ApprovalsSpec

(* The types of the approvals hold. *)
THEOREM ApprovalsTypeCorrect == ApprovalsSpec => []ApprovalsTypeOK
<1>1. ApprovalsInv => ApprovalsTypeOK
  BY DEF ApprovalsInv
<1>. QED
  BY <1>1, ExecApprovalsAssumption, ApprovalsInvAlways, PTL

(* Nothing runs that was not decided, and an allow-once runs a single time, *)
(* whatever times out, is resolved, consumed or registered again between.  *)
THEOREM RunsAsDecidedAlways == ApprovalsSpec => []RunsAsDecided
<1>1. ApprovalsInv => RunsAsDecided
  <2>. SUFFICES ASSUME ApprovalsInv, NEW r \in Existing
                PROVE  /\ approvals[r].promise \in {"open", "deny"} \/ approvals[r].by = "no route" => approvals[r].runs = 0
                       /\ approvals[r].promise = "allow-once" => approvals[r].runs <= 1
    BY DEF RunsAsDecided
  <2>1. Consistent(approvals[r])
    BY DEF ApprovalsInv
  <2>2. approvals[r].promise \in {"open", "deny"} \/ approvals[r].by = "no route" => approvals[r].runs = 0
    BY <2>1 DEF Consistent
  <2>3. approvals[r].promise = "allow-once" => approvals[r].runs \in {0, 1}
    BY <2>1 DEF Consistent
  <2>4. \A n \in {0, 1} : n <= 1
    OBVIOUS
  <2>. QED
    BY <2>2, <2>3, <2>4
<1>. QED
  BY <1>1, ExecApprovalsAssumption, ApprovalsInvAlways, PTL

(* Timers act on the entry they were set for, however often its id is       *)
(* registered again.                                                       *)
THEOREM TimersHitTheirEntryAlways == ApprovalsSpec => []TimersHitTheirEntry
<1>1. ApprovalsInv => TimersHitTheirEntry
  BY DEF ApprovalsInv, Consistent, TimersHitTheirEntry, Existing
<1>. QED
  BY <1>1, ExecApprovalsAssumption, ApprovalsInvAlways, PTL
=============================================================================
