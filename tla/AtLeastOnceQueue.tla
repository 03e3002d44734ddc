-------------------------- MODULE AtLeastOnceQueue --------------------------
(***************************************************************************)
(* What the outbound delivery queue promises: a message that was accepted  *)
(* stays pending until it is settled (sent, or given up by its sender), or *)
(* is set aside among the failed ones; crashes are no steps of it.         *)
(***************************************************************************)
CONSTANTS
  Entries,
  Orphans,    \* those a previous process may have left pending
  Lossy,      \* those that may be dropped unsettled
  MayReturn   \* may a message that was removed be pending again?

VARIABLES
  accepted, pending, setAside, settled

queueVars == <<accepted, pending, setAside, settled>>

QueueInit ==
  /\ accepted = Orphans /\ pending = Orphans
  /\ setAside = {} /\ settled = {}

Accept(e) ==
  /\ e \notin accepted /\ accepted' = accepted \cup {e}
  /\ pending' = pending \cup {e}
  /\ UNCHANGED <<setAside, settled>>

(* The message was sent, perhaps again, or its sender gave up. *)
Settle(e) ==
  /\ settled' = settled \cup {e}
  /\ UNCHANGED <<accepted, pending, setAside>>

Remove(e) ==
  /\ e \in pending /\ e \in settled \cup Lossy
  /\ pending' = pending \ {e}
  /\ UNCHANGED <<accepted, setAside, settled>>

SetAside(e) ==
  /\ e \in pending /\ pending' = pending \ {e}
  /\ setAside' = setAside \cup {e}
  /\ UNCHANGED <<accepted, settled>>

Return(e) ==
  /\ MayReturn /\ e \in accepted
  /\ pending' = pending \cup {e}
  /\ UNCHANGED <<accepted, setAside, settled>>

QueueNext == \E e \in Entries : Accept(e) \/ Settle(e) \/ Remove(e) \/ SetAside(e) \/ Return(e)

QueueSpec == QueueInit /\ [][QueueNext]_queueVars
=============================================================================
