--------------------------- MODULE ExecApprovals ---------------------------
(***************************************************************************)
(* gateway/exec-approval-manager.ts and its callers: an approval is        *)
(* registered under an id, resolved or expired once, kept for a grace      *)
(* period and consulted by node.invoke (system.run).  The requests that    *)
(* register are numbered, so that the timers and handlers an earlier one   *)
(* left behind can meet the entry of a later one with the same id.         *)
(***************************************************************************)
EXTENDS Integers, FiniteSets

CONSTANTS Ids,          \* approval ids
          MaxRequests   \* bound on the requests that register

ASSUME ExecApprovalsAssumption == MaxRequests \in Nat

VARIABLES
  pending,     \* the map: per id a registration, or 0
  approvals,   \* per registration: its record, timers and handler
  registered   \* number of registrations

approvalVars == <<pending, approvals, registered>>

Registrations == 1..MaxRequests
Decisions == {"allow-once", "allow-always", "deny"}

(* record.decision and what the promise was resolved with ("open": not yet, *)
(* "none": null or undefined); who resolved it; where the clock stands to  *)
(* expiresAtMs; the two timers; the handler of the request; and the number *)
(* of runs the gateway let through, up to 2.                               *)
Approval == [id : Ids, decision : Decisions \cup {"none"}, promise : Decisions \cup {"open", "none"},
             by : {"nobody", "client", "no route"}, clock : {"early", "due", "late"},
             timer : BOOLEAN, grace : BOOLEAN,
             request : {"delivering", "waiting", "answered"}, runs : 0..2]

ApprovalsTypeOK ==
  /\ pending \in [Ids -> 0..MaxRequests]
  /\ registered \in 0..MaxRequests
  /\ approvals \in [1..registered -> Approval]
  /\ \A i \in Ids : pending[i] <= registered /\ (pending[i] # 0 => approvals[pending[i]].id = i)

ApprovalsInit ==
  /\ pending = [i \in Ids |-> 0]
  /\ approvals = <<>>
  /\ registered = 0

Existing == 1..registered
Entry(i) == approvals[pending[i]]
Unresolved(i) == pending[i] # 0 /\ Entry(i).promise = "open"

-----------------------------------------------------------------------------
(* exec.approval.request: create and register.  An id that is pending gets  *)
(* the promise of its entry and changes nothing, a resolved one an error.  *)
Register(i) ==
  /\ registered < MaxRequests /\ pending[i] = 0
  /\ registered' = registered + 1
  /\ pending' = [pending EXCEPT ![i] = registered']
  /\ approvals' = [r \in 1..registered' |->
       IF r <= registered THEN approvals[r]
       ELSE [id |-> i, decision |-> "none", promise |-> "open", by |-> "nobody", clock |-> "early",
             timer |-> TRUE, grace |-> FALSE, request |-> "delivering", runs |-> 0]]

(* Mutant: the timer of a resolved approval stays. *)
Settled_KeepsTimer(a, decision, by) ==
  [a EXCEPT !.decision = decision, !.promise = decision, !.by = by, !.grace = TRUE]

(* resolve and expire: record, promise and the timer of the grace period. *)
Settled(a, decision, by) ==
  [a EXCEPT !.decision = decision, !.promise = decision, !.by = by, !.timer = FALSE, !.grace = TRUE]

(* Mutant: who resolved it is not recorded. *)
Resolve_ByNobody(i, decision) ==
  /\ Unresolved(i)
  /\ approvals' = [approvals EXCEPT ![pending[i]] = Settled(@, decision, "nobody")]
  /\ UNCHANGED <<pending, registered>>

(* exec.approval.resolve, by a connected client. *)
Resolve(i, decision) ==
  /\ Unresolved(i)
  /\ approvals' = [approvals EXCEPT ![pending[i]] = Settled(@, decision, "client")]
  /\ UNCHANGED <<pending, registered>>

(* The timer of registration r, at or after expiresAtMs: expire(record.id)  *)
(* looks the id up again.                                                  *)
TimerExpires(r) ==
  /\ r \in Existing /\ approvals[r].timer /\ approvals[r].clock # "early"
  /\ LET fired == [approvals EXCEPT ![r].timer = FALSE]
         q == pending[approvals[r].id] IN
       approvals' = IF q # 0 /\ fired[q].promise = "open"
                    THEN [fired EXCEPT ![q] = Settled(@, "none", "nobody")] ELSE fired
  /\ UNCHANGED <<pending, registered>>

(* The grace period of r ends; an entry that replaced it stays. *)
GraceEnds(r) ==
  /\ r \in Existing /\ approvals[r].grace
  /\ approvals' = [approvals EXCEPT ![r].grace = FALSE]
  /\ pending' = [i \in Ids |-> IF pending[i] = r THEN 0 ELSE pending[i]]
  /\ UNCHANGED registered

(* Time passes: at expiresAtMs, or beyond it. *)
ClockGoesOn(r) ==
  /\ r \in Existing /\ approvals[r].clock # "late"
  /\ approvals' = [approvals EXCEPT ![r].clock = IF @ = "early" THEN "due" ELSE "late"]
  /\ UNCHANGED <<pending, registered>>

-----------------------------------------------------------------------------
(* The handler of the request, after the await of the deliveries. *)
IsDelivered(r) ==
  /\ r \in Existing /\ approvals[r].request = "delivering"
  /\ approvals' = [approvals EXCEPT ![r].request = "waiting"]
  /\ UNCHANGED <<pending, registered>>

(* Nobody could be asked: expire(record.id), whose entry may be another's. *)
HasNoRoute(r) ==
  /\ r \in Existing /\ approvals[r].request = "delivering"
  /\ LET i == approvals[r].id
         told == [approvals EXCEPT ![r].request = "answered"] IN
       approvals' = IF Unresolved(i) THEN [told EXCEPT ![pending[i]] = Settled(@, "none", "no route")]
                    ELSE told
  /\ UNCHANGED <<pending, registered>>

IsDecided(r) ==
  /\ r \in Existing /\ approvals[r].request = "waiting" /\ approvals[r].promise # "open"
  /\ approvals' = [approvals EXCEPT ![r].request = "answered"]
  /\ UNCHANGED <<pending, registered>>

(* node.invoke: system.run with an approval override.  An allow-once is     *)
(* consumed; one that nobody decided falls back to the caller's ask.       *)
RunsOnce(a) == [a EXCEPT !.runs = IF @ < 2 THEN @ + 1 ELSE @]

SystemRun(i, asksFallback) ==
  /\ pending[i] # 0 /\ Entry(i).clock # "late"
  /\ \/ Entry(i).decision = "allow-once"
        /\ approvals' = [approvals EXCEPT ![pending[i]] = [RunsOnce(@) EXCEPT !.decision = "none"]]
     \/ Entry(i).decision = "allow-always"
        /\ approvals' = [approvals EXCEPT ![pending[i]] = RunsOnce(@)]
     \/ Entry(i).promise # "open" /\ Entry(i).decision = "none" /\ Entry(i).by = "nobody"
        /\ asksFallback
        /\ approvals' = [approvals EXCEPT ![pending[i]] = RunsOnce(@)]
  /\ UNCHANGED <<pending, registered>>

ApprovalsNext ==
  \/ \E i \in Ids : Register(i)
  \/ \E i \in Ids, d \in Decisions : Resolve(i, d)
  \/ \E i \in Ids, asks \in BOOLEAN : SystemRun(i, asks)
  \/ \E r \in Registrations :
       \/ TimerExpires(r) \/ GraceEnds(r) \/ ClockGoesOn(r)
       \/ IsDelivered(r) \/ HasNoRoute(r) \/ IsDecided(r)

ApprovalsSpec == ApprovalsInit /\ [][ApprovalsNext]_approvalVars

-----------------------------------------------------------------------------
(* What the gateway lets run is what was decided: nothing of an open,       *)
(* denied or unrouted approval, and an allow-once a single time, though    *)
(* its record, consumed, reads like one that nobody decided.               *)
RunsAsDecided ==
  \A r \in Existing : LET a == approvals[r] IN
    /\ a.promise \in {"open", "deny"} \/ a.by = "no route" => a.runs = 0
    /\ a.promise = "allow-once" => a.runs <= 1

(* Timers act on the entry they were set for: an approval that times out    *)
(* has reached its own time, and an unresolved one is in the map, where it *)
(* can be resolved.                                                        *)
TimersHitTheirEntry ==
  \A r \in Existing : LET a == approvals[r] IN
    /\ a.promise = "none" /\ a.by = "nobody" => a.clock # "early"
    /\ a.promise = "open" => pending[a.id] = r /\ a.timer
=============================================================================
