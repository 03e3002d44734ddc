------------------------ MODULE GatewayServicesProofs ------------------------
(***************************************************************************)
(* Proofs about the services of a gateway process.                         *)
(*                                                                         *)
(* The session write lock, for any finite number of calls, any processes   *)
(* and any number of crashes: its holders are calls of one process that    *)
(* share its entry of HELD_LOCKS, and a lock file in the name of a live    *)
(* process has an owner.                                                   *)
(*                                                                         *)
(* The channel manager, for any number of starts, restarts and stops of an *)
(* account whose plugin has no stopAccount: at most one boot that was not  *)
(* told to stop has or is about to have a provider, and none after a stop. *)
(*                                                                         *)
(* And the types of all the services, side by side.                        *)
(***************************************************************************)
EXTENDS MCGatewayServices, HeartbeatWakeProofs, ExecApprovalsProofs, KeyedAsyncQueueProofs,
        FiniteSetTheorems, TLAPS

(* The session write lock. *)
(* The calls that share the entry of process p. *)
Mine(p) == {c \in Calls : processOf[c] = p /\ call[c].mine}

(* An entry of HELD_LOCKS was made by a call of its process and counts the  *)
(* calls that share it; a process without one has none.                    *)
EntryCounts(p) ==
  IF held[p] = NotHeld THEN Mine(p) = {}
  ELSE /\ held[p].by \in Calls /\ processOf[held[p].by] = p
       /\ held[p].count = Cardinality(Mine(p)) /\ held[p].count > 0

LockBase ==
  /\ \A c \in Calls : call[c].mine => Is(c, "holding")
  /\ \A p \in Procs : EntryCounts(p)
  /\ IF FileExists THEN lockFile.by \in Calls ELSE lockFile = NoFile

Entering == {"writing", "written", "failing"}
Owns(c) == FileExists /\ lockFile.by = c /\ lockFile.pid = "live"

(* The file is that of the one call that enters, of the process's entry or  *)
(* of the release that removes it; none of them is judged stale, or old.   *)
EnteringOwns == \A c \in Calls : call[c].phase \in Entering => Owns(c) /\ c \notin closing
ClosingOwns  == \A c \in closing : Owns(c)
EntryOwns    == \A p \in Procs : held[p] # NotHeld =>
                  Owns(held[p].by) /\ held[p].by \notin closing /\ call[held[p].by].phase \notin Entering
JudgedDead   == \A c \in Calls : judged[c] => FileExists /\ lockFile.pid # "live"
OldDead      == FileExists /\ lockFile.old => lockFile.pid # "live"
HoldersShare == \A c \in Calls : Is(c, "holding") => call[c].mine

LockExcl == EnteringOwns /\ ClosingOwns /\ EntryOwns /\ JudgedDead /\ OldDead /\ HoldersShare

LockInv == LockTypeOK /\ LockBase /\ LiveLockIsHeld /\ (starttime /\ ~disturbed => LockExcl)

-----------------------------------------------------------------------------
CallState == [phase : CallPhases, mine : BOOLEAN]
FileState == [text : {"none", "empty", "payload"}, by : Calls \cup {NoCall},
              pid : {"live", "dead", "reused"}, old : BOOLEAN]

(* A call goes to another phase. *)
LEMMA CallGoes ==
  ASSUME call \in [Calls -> CallState], NEW c \in Calls, NEW phase \in CallPhases, Goes(c, phase)
  PROVE  /\ call' \in [Calls -> CallState]
         /\ call'[c].phase = phase /\ call'[c].mine = call[c].mine
         /\ \A d \in Calls : d # c => call'[d] = call[d]
         /\ \A d \in Calls : call'[d].mine = call[d].mine
  BY DEF Goes, CallState

(* No file, no type error. *)
LEMMA NoFileFacts == NoFile \in FileState /\ NoFile.text = "none"
  BY DEF NoFile, FileState

(* The sets of holders are finite. *)
LEMMA MineFinite ==
  ASSUME SessionWriteLockAssumption, NEW p
  PROVE  IsFiniteSet(Mine(p)) /\ Cardinality(Mine(p)) \in Nat
         /\ Cardinality(Mine(p)) <= Cardinality(Calls) /\ Cardinality(Calls) \in Nat
<1>1. Mine(p) \in SUBSET Calls /\ IsFiniteSet(Calls)
  BY DEF Mine, SessionWriteLockAssumption
<1>2. IsFiniteSet(Mine(p)) /\ Cardinality(Mine(p)) <= Cardinality(Calls)
  BY <1>1, FS_Subset
<1>. QED
  BY <1>1, <1>2, FS_CardinalityType

(* LiveLockIsHeld in terms of the calls that share an entry. *)
HasOwner(p) ==
  \/ held[p] # NotHeld /\ held[p].count = Cardinality(Mine(p))
  \/ \E c \in Calls : processOf[c] = p /\ (Is(c, "written") \/ c \in closing)

LiveLockHeld ==
  \A p : lockFile.text = "payload" /\ lockFile.pid = "live" /\ p = processOf[lockFile.by] => HasOwner(p)

LEMMA LiveLockMeans == LiveLockIsHeld <=> LiveLockHeld
<1>1. \A p : {c \in {c \in Calls : processOf[c] = p} : call[c].mine} = Mine(p)
  BY DEF Mine
<1>. QED
  BY <1>1 DEF LiveLockIsHeld, LiveLockHeld, HasOwner

-----------------------------------------------------------------------------
(* A call that holds nothing goes on, or begins: who holds is unchanged. *)
LEMMA WalkKeepsBase ==
  ASSUME LockTypeOK, LockBase, LiveLockIsHeld, NEW c \in Calls, NEW phase \in CallPhases, Goes(c, phase),
         ~Is(c, "holding"), ~Is(c, "written"), held' = held, closing' = closing,
         IF lockFile'.text # "none" THEN lockFile'.by \in Calls ELSE lockFile' = NoFile,
         lockFile'.text = "payload" /\ lockFile'.pid = "live" =>
           lockFile' = lockFile \/ (phase = "written" /\ lockFile'.by = c)
  PROVE  LockBase' /\ LiveLockIsHeld'
<1>0. call \in [Calls -> CallState]
  BY DEF LockTypeOK, CallState
<1>1. /\ call'[c].phase = phase /\ call'[c].mine = call[c].mine
      /\ \A d \in Calls : d # c => call'[d] = call[d]
      /\ \A d \in Calls : call'[d].mine = call[d].mine
  BY <1>0, CallGoes
<1>2. \A p : Mine(p)' = Mine(p)
  BY <1>1 DEF Mine
<1>3. \A p \in Procs : EntryCounts(p)'
  BY <1>2 DEF EntryCounts, LockBase
<1>4. \A d \in Calls : call'[d].mine => Is(d, "holding")'
  BY <1>1 DEF LockBase, Is
<1>5. LockBase'
  BY <1>3, <1>4 DEF LockBase, FileExists
<1>6. LiveLockHeld'
  <2>. SUFFICES ASSUME NEW p, lockFile'.text = "payload", lockFile'.pid = "live", p = processOf[lockFile'.by]
                PROVE  HasOwner(p)'
    BY DEF LiveLockHeld
  <2>1. CASE phase = "written" /\ lockFile'.by = c
    BY <2>1, <1>1 DEF Is, HasOwner
  <2>2. CASE lockFile' = lockFile
    <3>1. \A d \in Calls : Is(d, "written") => Is(d, "written")'
      BY <1>1 DEF Is
    <3>2. HasOwner(p)
      BY <2>2, LiveLockMeans DEF LiveLockHeld
    <3>. QED
      BY <3>1, <3>2, <1>2 DEF HasOwner
  <2>. QED
    BY <2>1, <2>2
<1>7. LiveLockIsHeld'
  BY <1>6, LiveLockMeans, PTL
<1>. QED
  BY <1>5, <1>7

(* Neither the file, for the others, nor what is said of it changes. *)
LEMMA WalkKeepsExcl ==
  ASSUME LockTypeOK, LockBase, LockExcl, NEW c \in Calls, NEW phase \in CallPhases, Goes(c, phase),
         ~Is(c, "holding"), phase # "holding", phase \in Entering => call[c].phase \in Entering,
         held' = held, closing' = closing,
         lockFile'.by = lockFile.by, lockFile'.pid = lockFile.pid, lockFile'.old = lockFile.old,
         lockFile'.text # "none" <=> lockFile.text # "none",
         \A d \in Calls : judged'[d] => judged[d] \/ (FileExists /\ lockFile.pid # "live")
  PROVE  LockExcl'
<1>0. call \in [Calls -> CallState] /\ closing \subseteq Calls
  BY DEF LockTypeOK, CallState
<1>1. /\ call'[c].phase = phase /\ call'[c].mine = call[c].mine
      /\ \A d \in Calls : d # c => call'[d] = call[d]
      /\ \A d \in Calls : call'[d].mine = call[d].mine
  BY <1>0, CallGoes
<1>2. FileExists' <=> FileExists
  BY DEF FileExists
<1>3. \A d : Owns(d)' <=> Owns(d)
  BY <1>2 DEF Owns
<1>4. \A d \in Calls : call'[d].phase \in Entering => call[d].phase \in Entering
  BY <1>1
<1>5. \A p \in Procs : held[p] # NotHeld => held[p].by \in Calls
  BY DEF LockBase, EntryCounts
<1>6. EnteringOwns'
  BY <1>3, <1>4 DEF LockExcl, EnteringOwns
<1>7. ClosingOwns' /\ OldDead'
  BY <1>2, <1>3 DEF LockExcl, ClosingOwns, OldDead
<1>8. EntryOwns'
  BY <1>3, <1>4, <1>5 DEF LockExcl, EntryOwns
<1>9. JudgedDead'
  BY <1>2 DEF LockExcl, JudgedDead
<1>10. HoldersShare'
  BY <1>1 DEF LockExcl, HoldersShare, Is
<1>. QED
  BY <1>6, <1>7, <1>8, <1>9, <1>10 DEF LockExcl

(* The steps of a call on its way to the lock, as such walks. *)
LEMMA WalkKeepsInv ==
  ASSUME LockInv, NEW c \in Calls, NEW phase \in CallPhases, Goes(c, phase),
         ~Is(c, "holding"), ~Is(c, "written"), phase # "holding",
         phase \in Entering => call[c].phase \in Entering,
         held' = held, closing' = closing, crashes' = crashes, starttime' = starttime, disturbed' = disturbed,
         lockFile' = lockFile \/ (phase = "written" /\ lockFile.by = c /\ FileExists
                                  /\ lockFile' = [lockFile EXCEPT !.text = "payload"]),
         judged' \in [Calls -> BOOLEAN],
         starttime /\ OldDead =>
           \A d \in Calls : judged'[d] => judged[d] \/ (FileExists /\ lockFile.pid # "live")
  PROVE  LockInv'
<1>0. LockTypeOK /\ LockBase /\ LiveLockIsHeld
  BY DEF LockInv
<1>1. call' \in [Calls -> CallState]
  BY <1>0, CallGoes DEF LockTypeOK, CallState
<1>2. /\ lockFile \in FileState /\ lockFile' \in FileState
      /\ lockFile'.by = lockFile.by /\ lockFile'.pid = lockFile.pid /\ lockFile'.old = lockFile.old
      /\ lockFile'.text # "none" <=> lockFile.text # "none"
      /\ lockFile' = lockFile \/ (phase = "written" /\ lockFile'.by = c)
  BY <1>0 DEF LockTypeOK, FileState, FileExists
<1>3. LockTypeOK'
  BY <1>0, <1>1, <1>2 DEF LockTypeOK, CallState, FileState
<1>4. IF lockFile'.text # "none" THEN lockFile'.by \in Calls ELSE lockFile' = NoFile
  BY <1>0, <1>2 DEF LockBase, FileExists
<1>5. LockBase' /\ LiveLockIsHeld'
  BY <1>0, <1>2, <1>4, WalkKeepsBase
<1>6. ASSUME starttime, ~disturbed PROVE LockExcl'
  <2>1. LockExcl /\ OldDead
    BY <1>6 DEF LockInv, LockExcl
  <2>. QED
    BY <1>0, <1>2, <1>6, <2>1, WalkKeepsExcl
<1>. QED
  BY <1>3, <1>5, <1>6 DEF LockInv

LEMMA WaitingKeepsInv ==
  ASSUME LockInv, NEW c \in Calls,
         \/ Acquire(c)
         \/ TimesOut(c) \/ PayloadFails(c)
  PROVE  LockInv'
<1>0. judged \in [Calls -> BOOLEAN]
  BY DEF LockInv, LockTypeOK
<1>1. PICK phase \in {"opening", "idle", "failing"} :
        /\ Goes(c, phase) /\ (phase = "failing" => Is(c, "writing"))
        /\ Is(c, "idle") \/ Is(c, "opening") \/ Is(c, "writing")
        /\ UNCHANGED <<lockFile, held, judged, closing, crashes, starttime, disturbed>>
  BY DEF Acquire, TimesOut, PayloadFails
<1>2. phase \in CallPhases /\ ~Is(c, "holding") /\ ~Is(c, "written") /\ phase # "holding"
      /\ (phase \in Entering => call[c].phase \in Entering)
  BY <1>1 DEF CallPhases, Is, Entering
<1>. QED
  BY <1>0, <1>1, <1>2, WalkKeepsInv

LEMMA PayloadWrittenKeepsInv ==
  ASSUME SessionWriteLockAssumption, LockInv, NEW c \in Calls, PayloadWritten(c)
  PROVE  LockInv'
<1>1. /\ Is(c, "writing") /\ Goes(c, "written")
      /\ lockFile' = IF lockFile.by = c THEN [lockFile EXCEPT !.text = "payload"] ELSE lockFile
      /\ UNCHANGED <<held, judged, closing, crashes, starttime, disturbed>>
  BY DEF PayloadWritten
<1>2. judged \in [Calls -> BOOLEAN] /\ LockBase
  BY DEF LockInv, LockTypeOK
<1>3. lockFile.by = c => FileExists
  BY <1>2 DEF LockBase, NoFile, SessionWriteLockAssumption
<1>4. "written" \in CallPhases /\ ~Is(c, "holding") /\ ~Is(c, "written")
      /\ ("written" \in Entering => call[c].phase \in Entering)
  BY <1>1 DEF CallPhases, Is, Entering
<1>. QED
  BY <1>1, <1>2, <1>3, <1>4, WalkKeepsInv

(* A file that has a live pid is not found stale: not by its start time,    *)
(* not by its age.                                                         *)
LEMMA JudgingKeepsInv ==
  ASSUME LockInv, NEW c \in Calls, NEW phase \in {"stat", "reclaiming", "opening", "cleaning"}, Goes(c, phase),
         Is(c, "reading") \/ Is(c, "stat") \/ Is(c, "idle"),
         NEW v \in BOOLEAN, judged' = judged \/ judged' = [judged EXCEPT ![c] = v],
         v /\ judged' # judged =>
           FileExists /\ (PidIsStale \/ lockFile.old \/ OrphanSelf(processOf[c])),
         UNCHANGED <<lockFile, held, closing, crashes, starttime, disturbed>>
  PROVE  LockInv'
<1>1. judged \in [Calls -> BOOLEAN] /\ judged' \in [Calls -> BOOLEAN]
  BY DEF LockInv, LockTypeOK
<1>2. phase \in CallPhases /\ ~Is(c, "holding") /\ ~Is(c, "written") /\ phase # "holding"
      /\ (phase \in Entering => call[c].phase \in Entering)
  BY DEF CallPhases, Is, Entering
<1>3. ASSUME starttime, OldDead, NEW d \in Calls, judged'[d], ~judged[d]
      PROVE  FileExists /\ lockFile.pid # "live"
  <2>1. FileExists /\ (PidIsStale \/ lockFile.old)
    BY <1>1, <1>3 DEF OrphanSelf
  <2>. QED
    BY <1>3, <2>1 DEF PidIsStale, OldDead
<1>. QED
  BY <1>1, <1>2, <1>3, WalkKeepsInv

LEMMA ReadingKeepsInv ==
  ASSUME LockInv, NEW c \in Calls, ReadPayload(c) \/ StatLockFile(c) \/ CleanReads(c)
  PROVE  LockInv'
<1>1. CASE ReadPayload(c)
  <2>1. CASE lockFile.text # "payload"
    <3>1. Is(c, "reading") /\ Goes(c, "stat") /\ judged' = judged
          /\ UNCHANGED <<lockFile, held, closing, crashes, starttime, disturbed>>
      BY <1>1, <2>1 DEF ReadPayload
    <3>. QED
      BY <3>1, JudgingKeepsInv
  <2>2. CASE lockFile.text = "payload" /\ (PidIsStale \/ lockFile.old \/ OrphanSelf(processOf[c]))
    <3>1. Is(c, "reading") /\ Goes(c, "reclaiming") /\ judged' = [judged EXCEPT ![c] = TRUE]
          /\ UNCHANGED <<lockFile, held, closing, crashes, starttime, disturbed>>
      BY <1>1, <2>2 DEF ReadPayload
    <3>. QED
      BY <2>2, <3>1, JudgingKeepsInv DEF FileExists
  <2>3. CASE lockFile.text = "payload" /\ ~(PidIsStale \/ lockFile.old \/ OrphanSelf(processOf[c]))
    <3>1. Is(c, "reading") /\ Goes(c, "opening") /\ judged' = judged
          /\ UNCHANGED <<lockFile, held, closing, crashes, starttime, disturbed>>
      BY <1>1, <2>3 DEF ReadPayload
    <3>. QED
      BY <3>1, JudgingKeepsInv
  <2>. QED
    BY <2>1, <2>2, <2>3
<1>2. CASE StatLockFile(c)
  <2>1. CASE FileExists /\ lockFile.old
    <3>1. Is(c, "stat") /\ Goes(c, "reclaiming") /\ judged' = [judged EXCEPT ![c] = TRUE]
          /\ UNCHANGED <<lockFile, held, closing, crashes, starttime, disturbed>>
      BY <1>2, <2>1 DEF StatLockFile
    <3>. QED
      BY <2>1, <3>1, JudgingKeepsInv
  <2>2. CASE ~(FileExists /\ lockFile.old)
    <3>1. Is(c, "stat") /\ Goes(c, "opening") /\ judged' = judged
          /\ UNCHANGED <<lockFile, held, closing, crashes, starttime, disturbed>>
      BY <1>2, <2>2 DEF StatLockFile
    <3>. QED
      BY <3>1, JudgingKeepsInv
  <2>. QED
    BY <2>1, <2>2
<1>3. CASE CleanReads(c)
  <2>1. PICK v \in BOOLEAN : v = (lockFile.text = "payload")
    OBVIOUS
  <2>2. Is(c, "idle") /\ Goes(c, "cleaning") /\ judged' = [judged EXCEPT ![c] = v]
        /\ UNCHANGED <<lockFile, held, closing, crashes, starttime, disturbed>>
    BY <1>3, <2>1 DEF CleanReads
  <2>3. v => FileExists /\ (PidIsStale \/ lockFile.old)
    BY <1>3, <2>1 DEF CleanReads, FileExists
  <2>. QED
    BY <2>2, <2>3, JudgingKeepsInv
<1>. QED
  BY <1>1, <1>2, <1>3

-----------------------------------------------------------------------------
(* Nobody has the file there is not. *)
LEMMA NobodyOwns ==
  ASSUME LockTypeOK, LockBase, LockExcl, ~FileExists \/ lockFile.pid # "live"
  PROVE  /\ \A c \in Calls : call[c].phase \notin Entering
         /\ closing = {}
         /\ \A p \in Procs : held[p] = NotHeld
<1>1. \A c : ~Owns(c)
  BY DEF Owns
<1>2. \A c \in Calls : call[c].phase \notin Entering
  BY <1>1 DEF LockExcl, EnteringOwns
<1>3. closing = {}
  BY <1>1 DEF LockExcl, ClosingOwns
<1>4. \A p \in Procs : held[p] = NotHeld
  BY <1>1 DEF LockExcl, EntryOwns
<1>. QED
  BY <1>2, <1>3, <1>4

LEMMA OpenLockFileKeepsInv ==
  ASSUME SessionWriteLockAssumption, LockInv, NEW c \in Calls, OpenLockFile(c)
  PROVE  LockInv'
<1>0. LockTypeOK /\ LockBase /\ LiveLockIsHeld /\ Is(c, "opening")
      /\ UNCHANGED <<held, judged, closing, crashes, starttime, disturbed>>
  BY DEF LockInv, OpenLockFile
<1>1. CASE FileExists
  <2>1. Goes(c, "reading") /\ lockFile' = lockFile
    BY <1>1 DEF OpenLockFile
  <2>2. "reading" \in CallPhases /\ ~Is(c, "holding") /\ ~Is(c, "written") /\ "reading" \notin Entering
        /\ judged \in [Calls -> BOOLEAN]
    BY <1>0 DEF CallPhases, Is, Entering, LockTypeOK
  <2>. QED
    BY <1>0, <2>1, <2>2, WalkKeepsInv
<1>2. CASE ~FileExists
  <2>1. Goes(c, "writing") /\ lockFile' = [text |-> "empty", by |-> c, pid |-> "live", old |-> FALSE]
    BY <1>2 DEF OpenLockFile
  <2>2. "writing" \in CallPhases /\ ~Is(c, "holding") /\ ~Is(c, "written")
    BY <1>0 DEF CallPhases, Is
  <2>3. LockBase' /\ LiveLockIsHeld'
    BY <1>0, <2>1, <2>2, WalkKeepsBase
  <2>4. call \in [Calls -> CallState]
    BY <1>0 DEF LockTypeOK, CallState
  <2>5. /\ call' \in [Calls -> CallState] /\ call'[c].phase = "writing"
        /\ \A d \in Calls : d # c => call'[d] = call[d]
        /\ \A d \in Calls : call'[d].mine = call[d].mine
    BY <2>1, <2>2, <2>4, CallGoes
  <2>6. lockFile' \in FileState
    BY <2>1 DEF FileState
  <2>7. LockTypeOK'
    BY <1>0, <2>5, <2>6 DEF LockTypeOK, CallState, FileState
  <2>8. ASSUME starttime, ~disturbed PROVE LockExcl'
    <3>1. LockExcl
      BY <2>8 DEF LockInv
    <3>2. /\ \A d \in Calls : call[d].phase \notin Entering
          /\ closing = {}
          /\ \A p \in Procs : held[p] = NotHeld
      BY <1>0, <1>2, <3>1, NobodyOwns
    <3>3. Owns(c)'
      BY <2>1 DEF Owns, FileExists
    <3>4. EnteringOwns' /\ ClosingOwns' /\ EntryOwns'
      BY <1>0, <2>5, <3>2, <3>3 DEF EnteringOwns, ClosingOwns, EntryOwns
    <3>5. JudgedDead' /\ OldDead'
      BY <1>0, <1>2, <2>1, <3>1 DEF LockExcl, JudgedDead, OldDead
    <3>6. HoldersShare'
      BY <2>5, <3>1 DEF LockExcl, HoldersShare, Is
    <3>. QED
      BY <3>4, <3>5, <3>6 DEF LockExcl
  <2>. QED
    BY <1>0, <2>3, <2>7, <2>8 DEF LockInv
<1>. QED
  BY <1>1, <1>2

-----------------------------------------------------------------------------
(* Who removes the lock file is the only one that has it, when nobody's     *)
(* lock was taken from it.                                                 *)
LEMMA RemovalKeepsInv ==
  ASSUME SessionWriteLockAssumption, LockInv, FileIsRemoved,
         call' \in [Calls -> CallState],
         \A d \in Calls : call'[d].mine = call[d].mine /\ (call[d].mine => call'[d] = call[d]),
         \A d \in Calls : call'[d].phase = "holding" => call[d].phase = "holding",
         held' = held, crashes' = crashes, starttime' = starttime,
         closing' \subseteq Calls, disturbed' \in BOOLEAN,
         starttime /\ ~disturbed' =>
           /\ ~disturbed
           /\ \A d \in Calls : call'[d].phase \notin Entering
           /\ closing' = {}
           /\ \A p \in Procs : held[p] = NotHeld
  PROVE  LockInv'
<1>0. LockTypeOK /\ LockBase /\ LiveLockIsHeld
  BY DEF LockInv
<1>1. lockFile' = NoFile /\ lockFile' \in FileState /\ lockFile'.text = "none"
      /\ judged' = [d \in Calls |-> FALSE]
  BY NoFileFacts DEF FileIsRemoved
<1>2. LockTypeOK'
  BY <1>0, <1>1 DEF LockTypeOK, CallState, FileState
<1>3. \A p : Mine(p)' = Mine(p)
  BY DEF Mine
<1>4. \A p \in Procs : EntryCounts(p)'
  BY <1>0, <1>3 DEF LockBase, EntryCounts
<1>5. \A d \in Calls : call'[d].mine => Is(d, "holding")'
  BY <1>0 DEF LockBase, Is
<1>6. LockBase'
  BY <1>1, <1>4, <1>5 DEF LockBase, FileExists
<1>7. LiveLockIsHeld'
  BY <1>1 DEF LiveLockIsHeld
<1>8. ASSUME starttime, ~disturbed' PROVE LockExcl'
  <2>1. LockExcl
    BY <1>8 DEF LockInv
  <2>2. EnteringOwns' /\ ClosingOwns' /\ EntryOwns'
    BY <1>8 DEF EnteringOwns, ClosingOwns, EntryOwns
  <2>3. JudgedDead' /\ OldDead'
    BY <1>1 DEF JudgedDead, OldDead, FileExists
  <2>4. HoldersShare'
    BY <2>1 DEF LockExcl, HoldersShare, Is
  <2>. QED
    BY <2>2, <2>3, <2>4 DEF LockExcl
<1>. QED
  BY <1>2, <1>6, <1>7, <1>8 DEF LockInv

(* A call that goes, and is not entering any more, without touching an      *)
(* entry, as a removal needs it.                                           *)
LEMMA GoneCallFacts ==
  ASSUME LockTypeOK, LockBase, NEW c \in Calls, NEW phase \in {"idle", "opening"}, Goes(c, phase), ~Is(c, "holding")
  PROVE  /\ call' \in [Calls -> CallState]
         /\ \A d \in Calls : call'[d].mine = call[d].mine /\ (call[d].mine => call'[d] = call[d])
         /\ \A d \in Calls : call'[d].phase = "holding" => call[d].phase = "holding"
         /\ \A d \in Calls : call'[d].phase \in Entering => d # c /\ call[d].phase \in Entering
<1>1. call \in [Calls -> CallState] /\ phase \in CallPhases
  BY DEF LockTypeOK, CallState, CallPhases
<1>2. /\ call' \in [Calls -> CallState] /\ call'[c].phase = phase
      /\ \A d \in Calls : d # c => call'[d] = call[d]
      /\ \A d \in Calls : call'[d].mine = call[d].mine
  BY <1>1, CallGoes
<1>3. ~call[c].mine
  BY DEF LockBase
<1>4. \A d \in Calls : call'[d].mine = call[d].mine /\ (call[d].mine => call'[d] = call[d])
  BY <1>2, <1>3
<1>5. \A d \in Calls : call'[d].phase = "holding" => call[d].phase = "holding"
  BY <1>2
<1>6. \A d \in Calls : call'[d].phase \in Entering => d # c /\ call[d].phase \in Entering
  BY <1>2 DEF Entering
<1>. QED
  BY <1>2, <1>4, <1>5, <1>6

LEMMA FailedLockRemovedKeepsInv ==
  ASSUME SessionWriteLockAssumption, LockInv, NEW c \in Calls, FailedLockRemoved(c)
  PROVE  LockInv'
<1>0. LockTypeOK /\ LockBase
  BY DEF LockInv
<1>1. Is(c, "failing") /\ Goes(c, "idle") /\ FileIsRemoved
      /\ UNCHANGED <<held, closing, crashes, starttime, disturbed>>
  BY DEF FailedLockRemoved
<1>2. /\ call' \in [Calls -> CallState]
      /\ \A d \in Calls : call'[d].mine = call[d].mine /\ (call[d].mine => call'[d] = call[d])
      /\ \A d \in Calls : call'[d].phase = "holding" => call[d].phase = "holding"
      /\ \A d \in Calls : call'[d].phase \in Entering => d # c /\ call[d].phase \in Entering
  BY <1>0, <1>1, GoneCallFacts DEF Is
<1>3. closing \subseteq Calls /\ disturbed \in BOOLEAN
  BY <1>0 DEF LockTypeOK
<1>4. ASSUME starttime, ~disturbed
      PROVE  /\ \A d \in Calls : call'[d].phase \notin Entering
             /\ closing' = {}
             /\ \A p \in Procs : held[p] = NotHeld
  <2>1. LockExcl
    BY <1>4 DEF LockInv
  <2>2. Owns(c) /\ c \notin closing /\ call[c].phase \in Entering
    BY <1>1, <2>1 DEF LockExcl, EnteringOwns, Is, Entering
  <2>3. \A d : Owns(d) => d = c
    BY <2>2 DEF Owns
  <2>4. \A d \in Calls : call'[d].phase \notin Entering
    BY <1>2, <2>1, <2>3 DEF LockExcl, EnteringOwns
  <2>5. closing = {}
    BY <2>1, <2>2, <2>3 DEF LockExcl, ClosingOwns
  <2>6. \A p \in Procs : held[p] = NotHeld
    BY <2>1, <2>2, <2>3 DEF LockExcl, EntryOwns
  <2>. QED
    BY <1>1, <2>4, <2>5, <2>6
<1>. QED
  BY <1>1, <1>2, <1>3, <1>4, RemovalKeepsInv

LEMMA RemoveStaleKeepsInv ==
  ASSUME SessionWriteLockAssumption, LockInv, NEW c \in Calls, RemoveStale(c)
  PROVE  LockInv'
<1>0. LockTypeOK /\ LockBase
  BY DEF LockInv
<1>1. PICK phase \in {"idle", "opening"} :
        /\ Is(c, "reclaiming") \/ Is(c, "cleaning")
        /\ Goes(c, phase) /\ FileIsRemoved
        /\ disturbed' = (disturbed \/ (FileExists /\ ~judged[c]))
        /\ UNCHANGED <<held, closing, crashes, starttime>>
  BY DEF RemoveStale
<1>2. /\ call' \in [Calls -> CallState]
      /\ \A d \in Calls : call'[d].mine = call[d].mine /\ (call[d].mine => call'[d] = call[d])
      /\ \A d \in Calls : call'[d].phase = "holding" => call[d].phase = "holding"
      /\ \A d \in Calls : call'[d].phase \in Entering => d # c /\ call[d].phase \in Entering
  BY <1>0, <1>1, GoneCallFacts DEF Is
<1>3. closing \subseteq Calls /\ disturbed' \in BOOLEAN
  BY <1>0, <1>1 DEF LockTypeOK
<1>4. ASSUME starttime, ~disturbed'
      PROVE  /\ ~disturbed
             /\ \A d \in Calls : call'[d].phase \notin Entering
             /\ closing' = {}
             /\ \A p \in Procs : held[p] = NotHeld
  <2>1. ~disturbed /\ (FileExists => judged[c])
    BY <1>0, <1>1, <1>4 DEF LockTypeOK
  <2>2. LockExcl
    BY <1>4, <2>1 DEF LockInv
  <2>3. ~FileExists \/ lockFile.pid # "live"
    BY <2>1, <2>2 DEF LockExcl, JudgedDead
  <2>. QED
    BY <1>0, <1>1, <1>2, <2>1, <2>2, <2>3, NobodyOwns
<1>. QED
  BY <1>1, <1>2, <1>3, <1>4, RemovalKeepsInv

LEMMA LockFileRemovedKeepsInv ==
  ASSUME SessionWriteLockAssumption, LockInv, NEW c \in Calls, LockFileRemoved(c)
  PROVE  LockInv'
<1>0. LockTypeOK /\ LockBase
  BY DEF LockInv
<1>1. c \in closing /\ closing' = closing \ {c} /\ FileIsRemoved
      /\ UNCHANGED <<held, call, crashes, starttime, disturbed>>
  BY DEF LockFileRemoved
<1>2. call \in [Calls -> CallState] /\ closing' \subseteq Calls /\ disturbed' \in BOOLEAN
  BY <1>0, <1>1 DEF LockTypeOK, CallState
<1>3. ASSUME starttime, ~disturbed
      PROVE  /\ \A d \in Calls : call'[d].phase \notin Entering
             /\ closing' = {}
             /\ \A p \in Procs : held[p] = NotHeld
  <2>1. LockExcl
    BY <1>3 DEF LockInv
  <2>2. Owns(c) /\ c \in closing
    BY <1>1, <2>1 DEF LockExcl, ClosingOwns
  <2>3. \A d : Owns(d) => d = c
    BY <2>2 DEF Owns
  <2>4. \A d \in Calls : call[d].phase \notin Entering
    BY <2>1, <2>2, <2>3 DEF LockExcl, EnteringOwns
  <2>5. closing' = {}
    BY <1>1, <2>1, <2>3 DEF LockExcl, ClosingOwns
  <2>6. \A p \in Procs : held[p] = NotHeld
    BY <2>1, <2>2, <2>3 DEF LockExcl, EntryOwns
  <2>. QED
    BY <1>1, <2>4, <2>5, <2>6
<1>. QED
  BY <1>1, <1>2, <1>3, RemovalKeepsInv

-----------------------------------------------------------------------------
(* The entry of p goes, with its holders; what the other processes hold is  *)
(* as it was, and a lock with the pid of p still has who removes it.       *)
LEMMA DropKeepsBase ==
  ASSUME LockTypeOK, LockBase, LiveLockIsHeld, NEW p \in Procs,
         held' = [held EXCEPT ![p] = NotHeld],
         \A d \in Calls : call'[d].mine <=> call[d].mine /\ processOf[d] # p,
         \A d \in Calls : processOf[d] # p => call'[d].phase = call[d].phase /\ (d \in closing => d \in closing'),
         IF lockFile'.text # "none" THEN lockFile'.by \in Calls ELSE lockFile' = NoFile,
         lockFile'.text = "payload" /\ lockFile'.pid = "live" =>
           /\ lockFile' = lockFile
           /\ processOf[lockFile.by] = p => \E c \in Calls : processOf[c] = p /\ c \in closing'
  PROVE  LockBase' /\ LiveLockIsHeld'
<1>1. Mine(p)' = {}
  BY DEF Mine
<1>2. \A r : r # p => Mine(r)' = Mine(r)
  BY DEF Mine
<1>3. DOMAIN held = Procs
  BY DEF LockTypeOK
<1>4. \A r \in Procs : EntryCounts(r)'
  <2>. SUFFICES ASSUME NEW r \in Procs PROVE EntryCounts(r)'
    OBVIOUS
  <2>1. CASE r = p
    BY <1>1, <1>3, <2>1 DEF EntryCounts
  <2>2. CASE r # p
    BY <1>2, <1>3, <2>2 DEF EntryCounts, LockBase
  <2>. QED
    BY <2>1, <2>2
<1>5. \A d \in Calls : call'[d].mine => Is(d, "holding")'
  BY DEF LockBase, Is
<1>6. LockBase'
  BY <1>4, <1>5 DEF LockBase, FileExists
<1>7. LiveLockHeld'
  <2>. SUFFICES ASSUME NEW r, lockFile'.text = "payload", lockFile'.pid = "live", r = processOf[lockFile'.by]
                PROVE  HasOwner(r)'
    BY DEF LiveLockHeld
  <2>1. CASE r = p
    BY <2>1 DEF HasOwner
  <2>2. CASE r # p
    <3>1. HasOwner(r)
      BY LiveLockMeans DEF LiveLockHeld
    <3>2. \A d \in Calls : processOf[d] = r /\ (Is(d, "written") \/ d \in closing)
                             => Is(d, "written")' \/ d \in closing'
      BY <2>2 DEF Is
    <3>3. held'[r] = held[r]
      BY <2>2, <1>3
    <3>. QED
      BY <1>2, <2>2, <3>1, <3>2, <3>3 DEF HasOwner
  <2>. QED
    BY <2>1, <2>2
<1>8. LiveLockIsHeld'
  BY <1>7, LiveLockMeans, PTL
<1>. QED
  BY <1>6, <1>8

(* Nobody begins to enter, and whoever still has the file had it before. *)
LEMMA HoldersKeepExcl ==
  ASSUME LockExcl, lockFile' = lockFile, judged' = judged,
         \A d \in Calls : call'[d].phase \in Entering => call[d].phase \in Entering /\ d \notin closing',
         \A d \in closing' : Owns(d),
         \A p \in Procs : held'[p] # NotHeld =>
           /\ held[p] # NotHeld /\ held'[p].by = held[p].by
           /\ held[p].by \in Calls /\ held[p].by \notin closing',
         \A d \in Calls : call'[d].phase = "holding" => call'[d].mine
  PROVE  LockExcl'
<1>1. \A d : Owns(d)' <=> Owns(d)
  BY DEF Owns, FileExists
<1>2. EnteringOwns' /\ ClosingOwns'
  BY <1>1 DEF LockExcl, EnteringOwns, ClosingOwns
<1>3. EntryOwns'
  BY <1>1 DEF LockExcl, EntryOwns
<1>4. JudgedDead' /\ OldDead'
  BY DEF LockExcl, JudgedDead, OldDead, FileExists
<1>5. HoldersShare'
  BY DEF HoldersShare, Is
<1>. QED
  BY <1>2, <1>3, <1>4, <1>5 DEF LockExcl

(* Disowned calls. *)
LEMMA DisownedFacts ==
  ASSUME NEW calls \in [Calls -> CallState], NEW p
  PROVE  /\ Disowned(calls, p) \in [Calls -> CallState]
         /\ \A d \in Calls : /\ Disowned(calls, p)[d].phase = calls[d].phase
                             /\ Disowned(calls, p)[d].mine <=> calls[d].mine /\ processOf[d] # p
  BY DEF Disowned, CallState

LEMMA WatchdogKeepsInv ==
  ASSUME SessionWriteLockAssumption, LockInv, NEW p \in Procs, WatchdogReleases(p)
  PROVE  LockInv'
<1>0. LockTypeOK /\ LockBase /\ LiveLockIsHeld
  BY DEF LockInv
<1>1. /\ held[p] # NotHeld /\ held' = [held EXCEPT ![p] = NotHeld]
      /\ closing' = closing \cup {held[p].by} /\ call' = Disowned(call, p)
      /\ disturbed' = TRUE /\ UNCHANGED <<lockFile, judged, crashes, starttime>>
  BY DEF WatchdogReleases, EntryDropped
<1>2. held[p].by \in Calls /\ processOf[held[p].by] = p
  BY <1>0, <1>1 DEF LockBase, EntryCounts
<1>3. call \in [Calls -> CallState]
  BY <1>0 DEF LockTypeOK, CallState
<1>4. /\ call' \in [Calls -> CallState]
      /\ \A d \in Calls : call'[d].phase = call[d].phase /\ (call'[d].mine <=> call[d].mine /\ processOf[d] # p)
  BY <1>1, <1>3, DisownedFacts
<1>5. NotHeld \in [by : Calls \cup {NoCall}, count : 0..Cardinality(Calls)]
  BY MineFinite DEF NotHeld
<1>6. LockTypeOK'
  BY <1>0, <1>1, <1>2, <1>4, <1>5 DEF LockTypeOK, CallState
<1>7. IF lockFile'.text # "none" THEN lockFile'.by \in Calls ELSE lockFile' = NoFile
  BY <1>0, <1>1 DEF LockBase, FileExists
<1>8. LockBase' /\ LiveLockIsHeld'
  BY <1>0, <1>1, <1>2, <1>4, <1>7, DropKeepsBase
<1>. QED
  BY <1>1, <1>6, <1>8 DEF LockInv

LEMMA ReleaseAllKeepsInv ==
  ASSUME SessionWriteLockAssumption, LockInv, NEW p \in Procs, ReleaseAllLocksSync(p)
  PROVE  LockInv'
<1>0. LockTypeOK /\ LockBase /\ LiveLockIsHeld
  BY DEF LockInv
<1>1. /\ held' = [held EXCEPT ![p] = NotHeld] /\ call' = Disowned(call, p) /\ FileIsRemoved
      /\ disturbed' = TRUE /\ UNCHANGED <<closing, crashes, starttime>>
  BY DEF ReleaseAllLocksSync
<1>2. lockFile' = NoFile /\ lockFile' \in FileState /\ lockFile'.text = "none"
      /\ judged' = [d \in Calls |-> FALSE]
  BY <1>1, NoFileFacts DEF FileIsRemoved
<1>3. call \in [Calls -> CallState]
  BY <1>0 DEF LockTypeOK, CallState
<1>4. /\ call' \in [Calls -> CallState]
      /\ \A d \in Calls : call'[d].phase = call[d].phase /\ (call'[d].mine <=> call[d].mine /\ processOf[d] # p)
  BY <1>1, <1>3, DisownedFacts
<1>5. NotHeld \in [by : Calls \cup {NoCall}, count : 0..Cardinality(Calls)]
  BY MineFinite DEF NotHeld
<1>6. LockTypeOK'
  BY <1>0, <1>1, <1>2, <1>4, <1>5 DEF LockTypeOK, CallState, FileState
<1>7. LockBase' /\ LiveLockIsHeld'
  BY <1>0, <1>1, <1>2, <1>4, DropKeepsBase
<1>. QED
  BY <1>1, <1>6, <1>7 DEF LockInv

LEMMA DiesKeepsInv ==
  ASSUME SessionWriteLockAssumption, LockInv, NEW p \in Procs, NEW pid \in {"dead", "reused"}, Dies(p, pid)
  PROVE  LockInv'
<1>0. LockTypeOK /\ LockBase /\ LiveLockIsHeld
  BY DEF LockInv
<1>1. /\ crashes < MaxCrashes /\ crashes' = crashes + 1
      /\ held' = [held EXCEPT ![p] = NotHeld]
      /\ call' = [c \in Calls |-> IF processOf[c] = p THEN [phase |-> "idle", mine |-> FALSE] ELSE call[c]]
      /\ closing' = {c \in closing : processOf[c] # p}
      /\ lockFile' = IF FileExists /\ processOf[lockFile.by] = p THEN [lockFile EXCEPT !.pid = pid] ELSE lockFile
      /\ UNCHANGED <<judged, starttime, disturbed>>
  BY DEF Dies
<1>2. call \in [Calls -> CallState] /\ lockFile \in FileState /\ closing \subseteq Calls
  BY <1>0 DEF LockTypeOK, CallState, FileState
<1>3. call' \in [Calls -> CallState]
  BY <1>1, <1>2 DEF CallState, CallPhases
<1>4. /\ lockFile' \in FileState /\ lockFile'.by = lockFile.by /\ lockFile'.text = lockFile.text
      /\ lockFile'.old = lockFile.old
      /\ lockFile'.pid = "live" => lockFile' = lockFile /\ ~(FileExists /\ processOf[lockFile.by] = p)
      /\ lockFile'.pid # "live" <=> (lockFile.pid # "live" \/ (FileExists /\ processOf[lockFile.by] = p))
      /\ ~FileExists => lockFile' = lockFile
  BY <1>1, <1>2 DEF FileState
<1>5. NotHeld \in [by : Calls \cup {NoCall}, count : 0..Cardinality(Calls)]
  BY MineFinite DEF NotHeld
<1>6. crashes' \in 0..MaxCrashes
  BY <1>0, <1>1 DEF LockTypeOK, SessionWriteLockAssumption
<1>7. LockTypeOK'
  BY <1>0, <1>1, <1>2, <1>3, <1>4, <1>5, <1>6 DEF LockTypeOK, CallState, FileState
<1>8. \A d \in Calls : call'[d].mine <=> call[d].mine /\ processOf[d] # p
  BY <1>1, <1>2 DEF CallState
<1>9. \A d \in Calls : processOf[d] # p => call'[d].phase = call[d].phase /\ (d \in closing => d \in closing')
  BY <1>1, <1>2
<1>10. /\ IF lockFile'.text # "none" THEN lockFile'.by \in Calls ELSE lockFile' = NoFile
       /\ lockFile'.text = "payload" /\ lockFile'.pid = "live" =>
            lockFile' = lockFile /\ processOf[lockFile.by] # p
  BY <1>0, <1>4 DEF LockBase, FileExists
<1>11. LockBase' /\ LiveLockIsHeld'
  BY <1>0, <1>1, <1>8, <1>9, <1>10, DropKeepsBase
<1>12. ASSUME starttime, ~disturbed PROVE LockExcl'
  <2>1. LockExcl
    BY <1>12 DEF LockInv
  <2>2. FileExists' <=> FileExists
    BY <1>4 DEF FileExists
  <2>3. \A d \in Calls : Owns(d) /\ processOf[d] # p => Owns(d)'
    BY <1>4, <2>2 DEF Owns
  <2>4. EnteringOwns'
    <3>. SUFFICES ASSUME NEW c \in Calls, call'[c].phase \in Entering PROVE Owns(c)' /\ c \notin closing'
      BY DEF EnteringOwns
    <3>1. processOf[c] # p /\ call[c].phase \in Entering
      BY <1>1 DEF Entering
    <3>2. Owns(c) /\ c \notin closing
      BY <2>1, <3>1 DEF LockExcl, EnteringOwns
    <3>. QED
      BY <1>1, <2>3, <3>1, <3>2
  <2>5. ClosingOwns'
    BY <1>1, <1>2, <2>1, <2>3 DEF LockExcl, ClosingOwns
  <2>6. EntryOwns'
    <3>. SUFFICES ASSUME NEW r \in Procs, held'[r] # NotHeld
                  PROVE  (Owns(held[r].by) /\ held[r].by \notin closing /\ call[held[r].by].phase \notin Entering)'
      BY DEF EntryOwns
    <3>1. r # p /\ held'[r] = held[r]
      BY <1>0, <1>1 DEF LockTypeOK
    <3>2. PICK c \in Calls : c = held[r].by /\ processOf[c] = r
      BY <1>0, <3>1 DEF LockBase, EntryCounts
    <3>3. Owns(c) /\ c \notin closing /\ call[c].phase \notin Entering
      BY <2>1, <3>1, <3>2 DEF LockExcl, EntryOwns
    <3>4. Owns(c)' /\ c \notin closing' /\ call'[c].phase \notin Entering
      BY <1>1, <2>3, <3>1, <3>2, <3>3
    <3>. QED
      BY <3>1, <3>2, <3>4 DEF Owns, FileExists
  <2>7. JudgedDead' /\ OldDead'
    BY <1>1, <1>4, <2>1, <2>2 DEF LockExcl, JudgedDead, OldDead
  <2>8. HoldersShare'
    BY <1>1, <2>1 DEF LockExcl, HoldersShare, Is
  <2>. QED
    BY <2>4, <2>5, <2>6, <2>7, <2>8 DEF LockExcl
<1>. QED
  BY <1>1, <1>7, <1>11, <1>12 DEF LockInv

-----------------------------------------------------------------------------
(* A call takes a share of its process's entry. *)
LEMMA AcquireReentrantKeepsInv ==
  ASSUME SessionWriteLockAssumption, LockInv, NEW c \in Calls, AcquireReentrant(c)
  PROVE  LockInv'
<1>0. LockTypeOK /\ LockBase /\ LiveLockIsHeld
  BY DEF LockInv
<1>. PICK p \in Procs : p = processOf[c]
  BY DEF SessionWriteLockAssumption
<1>1. /\ Is(c, "idle") /\ held[p] # NotHeld
      /\ held' = [held EXCEPT ![p].count = @ + 1]
      /\ call' = [call EXCEPT ![c] = [phase |-> "holding", mine |-> TRUE]]
      /\ UNCHANGED <<lockFile, judged, closing, crashes, starttime, disturbed>>
  BY DEF AcquireReentrant
<1>2. call \in [Calls -> CallState]
  BY <1>0 DEF LockTypeOK, CallState
<1>3. /\ call' \in [Calls -> CallState] /\ call'[c] = [phase |-> "holding", mine |-> TRUE]
      /\ \A d \in Calls : d # c => call'[d] = call[d]
  BY <1>1, <1>2 DEF CallState, CallPhases
<1>4. ~call[c].mine
  BY <1>0, <1>1 DEF LockBase, Is
<1>5. Mine(p)' = Mine(p) \cup {c} /\ c \notin Mine(p)
  BY <1>3, <1>4 DEF Mine
<1>6. \A r : r # p => Mine(r)' = Mine(r)
  BY <1>3 DEF Mine
<1>7. Cardinality(Mine(p)') = Cardinality(Mine(p)) + 1 /\ Cardinality(Mine(p)) \in Nat
  BY <1>5, MineFinite, FS_AddElement
<1>8. Cardinality(Mine(p)') <= Cardinality(Calls) /\ Cardinality(Calls) \in Nat
  <2>1. IsFiniteSet(Calls) /\ Mine(p)' \in SUBSET Calls
    BY DEF SessionWriteLockAssumption, Mine
  <2>. QED
    BY <2>1, FS_Subset, FS_CardinalityType
<1>9. held[p].by \in Calls /\ processOf[held[p].by] = p /\ held[p].count = Cardinality(Mine(p)) /\ held[p].count > 0
  BY <1>0, <1>1 DEF LockBase, EntryCounts
<1>10. /\ held[p] \in [by : Calls \cup {NoCall}, count : 0..Cardinality(Calls)]
       /\ held'[p] = [by |-> held[p].by, count |-> Cardinality(Mine(p)')]
       /\ \A r \in Procs : r # p => held'[r] = held[r]
       /\ held' = [held EXCEPT ![p] = [by |-> held[p].by, count |-> Cardinality(Mine(p)')]]
  <2>1. DOMAIN held = Procs /\ held[p] \in [by : Calls \cup {NoCall}, count : 0..Cardinality(Calls)]
    BY <1>0 DEF LockTypeOK
  <2>2. [held[p] EXCEPT !.count = held[p].count + 1] = [by |-> held[p].by, count |-> Cardinality(Mine(p)')]
    BY <1>7, <1>9, <2>1
  <2>. QED
    BY <1>1, <2>1, <2>2
<1>11. [by |-> held[p].by, count |-> Cardinality(Mine(p)')]
         \in [by : Calls \cup {NoCall}, count : 0..Cardinality(Calls)]
  BY <1>7, <1>8, <1>9
<1>12. LockTypeOK'
  BY <1>0, <1>1, <1>3, <1>10, <1>11 DEF LockTypeOK, CallState
<1>13. held'[p] # NotHeld /\ held'[p].count = Cardinality(Mine(p)') /\ held'[p].count > 0 /\ held'[p].by = held[p].by
  BY <1>7, <1>9, <1>10 DEF NotHeld
<1>14. \A r \in Procs : EntryCounts(r)'
  <2>. SUFFICES ASSUME NEW r \in Procs PROVE EntryCounts(r)'
    OBVIOUS
  <2>1. CASE r = p
    BY <1>9, <1>13, <2>1 DEF EntryCounts
  <2>2. CASE r # p
    BY <1>0, <1>6, <1>10, <2>2 DEF EntryCounts, LockBase
  <2>. QED
    BY <2>1, <2>2
<1>15. LockBase'
  BY <1>0, <1>1, <1>3, <1>14 DEF LockBase, FileExists, Is
<1>16. LiveLockHeld'
  <2>. SUFFICES ASSUME NEW r, lockFile'.text = "payload", lockFile'.pid = "live", r = processOf[lockFile'.by]
                PROVE  HasOwner(r)'
    BY DEF LiveLockHeld
  <2>1. CASE r = p
    BY <1>13, <2>1 DEF HasOwner
  <2>2. CASE r # p
    <3>1. HasOwner(r)
      BY <1>0, <1>1, LiveLockMeans DEF LiveLockHeld
    <3>2. r \in Procs
      BY <1>0, <1>1 DEF LockBase, FileExists, SessionWriteLockAssumption
    <3>3. \A d \in Calls : Is(d, "written") => Is(d, "written")'
      BY <1>1, <1>3 DEF Is
    <3>. QED
      BY <1>1, <1>6, <1>10, <2>2, <3>1, <3>2, <3>3 DEF HasOwner
  <2>. QED
    BY <2>1, <2>2
<1>17. LiveLockIsHeld'
  BY <1>16, LiveLockMeans, PTL
<1>18. ASSUME starttime, ~disturbed PROVE LockExcl'
  <2>1. LockExcl
    BY <1>18 DEF LockInv
  <2>2. \A d \in Calls : call'[d].phase \in Entering => call[d].phase \in Entering /\ d \notin closing'
    BY <1>1, <1>3, <2>1 DEF LockExcl, EnteringOwns, Entering
  <2>3. \A r \in Procs : held'[r] # NotHeld =>
           /\ held[r] # NotHeld /\ held'[r].by = held[r].by
           /\ held[r].by \in Calls /\ held[r].by \notin closing'
    BY <1>0, <1>1, <1>10, <1>13, <2>1 DEF LockBase, EntryCounts, LockExcl, EntryOwns
  <2>4. \A d \in closing' : Owns(d)
    BY <1>1, <2>1 DEF LockExcl, ClosingOwns
  <2>5. \A d \in Calls : call'[d].phase = "holding" => call'[d].mine
    BY <1>3, <2>1 DEF LockExcl, HoldersShare, Is
  <2>. QED
    BY <1>1, <2>1, <2>2, <2>3, <2>4, <2>5, HoldersKeepExcl
<1>. QED
  BY <1>1, <1>12, <1>15, <1>17, <1>18 DEF LockInv

(* A lock that was written is entered in HELD_LOCKS. *)
LEMMA AcquiredKeepsInv ==
  ASSUME SessionWriteLockAssumption, LockInv, NEW c \in Calls, Acquired(c)
  PROVE  LockInv'
<1>0. LockTypeOK /\ LockBase /\ LiveLockIsHeld
  BY DEF LockInv
<1>. PICK p \in Procs : p = processOf[c]
  BY DEF SessionWriteLockAssumption
<1>1. /\ Is(c, "written")
      /\ held' = [held EXCEPT ![p] = [by |-> c, count |-> 1]]
      /\ call' = [d \in Calls |->
           IF d = c THEN [phase |-> "holding", mine |-> TRUE]
           ELSE IF processOf[d] = p THEN [call[d] EXCEPT !.mine = FALSE] ELSE call[d]]
      /\ UNCHANGED <<lockFile, judged, closing, crashes, starttime, disturbed>>
  BY DEF Acquired
<1>2. call \in [Calls -> CallState]
  BY <1>0 DEF LockTypeOK, CallState
<1>3. /\ call' \in [Calls -> CallState] /\ call'[c] = [phase |-> "holding", mine |-> TRUE]
      /\ \A d \in Calls : d # c => /\ call'[d].phase = call[d].phase
                                   /\ call'[d].mine <=> call[d].mine /\ processOf[d] # p
  BY <1>1, <1>2 DEF CallState, CallPhases
<1>4. Mine(p)' = {c}
  BY <1>3 DEF Mine
<1>5. \A r : r # p => Mine(r)' = Mine(r)
  BY <1>3 DEF Mine
<1>6. Cardinality(Mine(p)') = 1 /\ Cardinality(Calls) \in Nat /\ Cardinality(Calls) >= 1
  <2>1. IsFiniteSet(Calls) /\ {c} \in SUBSET Calls
    BY DEF SessionWriteLockAssumption
  <2>2. Cardinality({c}) = 1
    BY FS_Singleton
  <2>3. Cardinality({c}) <= Cardinality(Calls)
    BY <2>1, FS_Subset
  <2>4. Cardinality(Calls) \in Nat
    BY <2>1, FS_CardinalityType
  <2>. QED
    BY <1>4, <2>2, <2>3, <2>4
<1>7. /\ held'[p] = [by |-> c, count |-> 1]
      /\ \A r \in Procs : r # p => held'[r] = held[r]
  BY <1>0, <1>1 DEF LockTypeOK
<1>8. [by |-> c, count |-> 1] \in [by : Calls \cup {NoCall}, count : 0..Cardinality(Calls)]
  BY <1>6
<1>9. LockTypeOK'
  BY <1>0, <1>1, <1>3, <1>8 DEF LockTypeOK, CallState
<1>10. held'[p] # NotHeld
  BY <1>7 DEF NotHeld
<1>11. \A r \in Procs : EntryCounts(r)'
  <2>. SUFFICES ASSUME NEW r \in Procs PROVE EntryCounts(r)'
    OBVIOUS
  <2>1. CASE r = p
    BY <1>6, <1>7, <1>10, <2>1 DEF EntryCounts
  <2>2. CASE r # p
    BY <1>0, <1>5, <1>7, <2>2 DEF EntryCounts, LockBase
  <2>. QED
    BY <2>1, <2>2
<1>12. LockBase'
  BY <1>0, <1>1, <1>3, <1>11 DEF LockBase, FileExists, Is
<1>13. LiveLockHeld'
  <2>. SUFFICES ASSUME NEW r, lockFile'.text = "payload", lockFile'.pid = "live", r = processOf[lockFile'.by]
                PROVE  HasOwner(r)'
    BY DEF LiveLockHeld
  <2>1. CASE r = p
    BY <1>6, <1>7, <1>10, <2>1 DEF HasOwner
  <2>2. CASE r # p
    <3>1. HasOwner(r)
      BY <1>0, <1>1, LiveLockMeans DEF LiveLockHeld
    <3>2. r \in Procs
      BY <1>0, <1>1 DEF LockBase, FileExists, SessionWriteLockAssumption
    <3>3. \A d \in Calls : processOf[d] = r /\ Is(d, "written") => Is(d, "written")'
      BY <1>3, <2>2 DEF Is
    <3>. QED
      BY <1>1, <1>5, <1>7, <2>2, <3>1, <3>2, <3>3 DEF HasOwner
  <2>. QED
    BY <2>1, <2>2
<1>14. LiveLockIsHeld'
  BY <1>13, LiveLockMeans, PTL
<1>15. ASSUME starttime, ~disturbed PROVE LockExcl'
  <2>1. LockExcl
    BY <1>15 DEF LockInv
  <2>2. Owns(c) /\ c \notin closing /\ call[c].phase \in Entering
    BY <1>1, <2>1 DEF LockExcl, EnteringOwns, Is, Entering
  <2>3. \A d : Owns(d) => d = c
    BY <2>2 DEF Owns
  <2>4. \A d : Owns(d)' <=> Owns(d)
    BY <1>1 DEF Owns, FileExists
  <2>5. \A d \in Calls : call'[d].phase \notin Entering
    <3>. SUFFICES ASSUME NEW d \in Calls, d # c PROVE call[d].phase \notin Entering
      BY <1>3 DEF Entering
    <3>. QED
      BY <2>1, <2>3 DEF LockExcl, EnteringOwns
  <2>6. EnteringOwns' /\ ClosingOwns'
    BY <1>1, <2>1, <2>4, <2>5 DEF LockExcl, EnteringOwns, ClosingOwns
  <2>7. \A r \in Procs : held[r] = NotHeld
    BY <2>1, <2>2, <2>3 DEF LockExcl, EntryOwns
  <2>8. EntryOwns'
    <3>. SUFFICES ASSUME NEW r \in Procs, held'[r] # NotHeld
                  PROVE  (Owns(held[r].by) /\ held[r].by \notin closing /\ call[held[r].by].phase \notin Entering)'
      BY DEF EntryOwns
    <3>1. held'[r].by = c
      BY <1>7, <2>7
    <3>. QED
      BY <1>1, <2>2, <2>5, <3>1 DEF Owns, FileExists
  <2>9. JudgedDead' /\ OldDead'
    BY <1>1, <2>1 DEF LockExcl, JudgedDead, OldDead, FileExists
  <2>10. HoldersShare'
    <3>. SUFFICES ASSUME NEW d \in Calls, d # c, call[d].phase = "holding" PROVE call'[d].mine
      BY <1>3 DEF HoldersShare, Is
    <3>1. call[d].mine
      BY <2>1 DEF LockExcl, HoldersShare, Is
    <3>2. processOf[d] # p
      <4>. SUFFICES ASSUME processOf[d] = p PROVE FALSE
        OBVIOUS
      <4>1. d \in Mine(p)
        BY <3>1 DEF Mine
      <4>. QED
        BY <1>0, <2>7, <4>1 DEF LockBase, EntryCounts
    <3>. QED
      BY <1>3, <3>1, <3>2
  <2>. QED
    BY <2>6, <2>8, <2>9, <2>10 DEF LockExcl
<1>. QED
  BY <1>1, <1>9, <1>12, <1>14, <1>15 DEF LockInv

(* A holder leaves: an entry that is not its process's any more, a shared   *)
(* entry, the entry of which it was the last.                              *)
LEMMA ReleaseKeepsInv ==
  ASSUME SessionWriteLockAssumption, LockInv, NEW c \in Calls, Release(c)
  PROVE  LockInv'
<1>0. LockTypeOK /\ LockBase /\ LiveLockIsHeld
  BY DEF LockInv
<1>. PICK p \in Procs : p = processOf[c]
  BY DEF SessionWriteLockAssumption
<1>. DEFINE left == [call EXCEPT ![c] = [phase |-> "idle", mine |-> FALSE]]
<1>1. Is(c, "holding") /\ UNCHANGED <<lockFile, judged, crashes, starttime, disturbed>>
  BY DEF Release
<1>2. call \in [Calls -> CallState] /\ DOMAIN held = Procs
      /\ held \in [Procs -> [by : Calls \cup {NoCall}, count : 0..Cardinality(Calls)]]
  BY <1>0 DEF LockTypeOK, CallState
<1>3. /\ left \in [Calls -> CallState] /\ left[c] = [phase |-> "idle", mine |-> FALSE]
      /\ \A d \in Calls : d # c => left[d] = call[d]
  BY <1>2 DEF CallState, CallPhases
<1>. HIDE DEF left
<1>4. held[p] # NotHeld => /\ held[p].by \in Calls /\ processOf[held[p].by] = p
                           /\ held[p].count = Cardinality(Mine(p)) /\ held[p].count > 0
  BY <1>0 DEF LockBase, EntryCounts
<1>5. call[c].mine => c \in Mine(p) /\ held[p] # NotHeld
  BY <1>0 DEF Mine, LockBase, EntryCounts
<1>6. IF lockFile'.text # "none" THEN lockFile'.by \in Calls ELSE lockFile' = NoFile
  BY <1>0, <1>1 DEF LockBase, FileExists
<1>7. \A d \in Calls : call[d].mine => Is(d, "holding")
  BY <1>0 DEF LockBase
<1>8. starttime /\ ~disturbed => LockExcl
  BY DEF LockInv
<1>9. ASSUME call[c].mine, held[p].count > 1 PROVE LockInv'
  <2>1. call' = left /\ held' = [held EXCEPT ![p].count = @ - 1] /\ closing' = closing
    BY <1>9 DEF Release, left
  <2>2. Mine(p)' = Mine(p) \ {c}
    BY <1>3, <2>1 DEF Mine
  <2>3. \A r : r # p => Mine(r)' = Mine(r)
    BY <1>3, <2>1 DEF Mine
  <2>4. /\ Cardinality(Mine(p)') = Cardinality(Mine(p)) - 1 /\ Cardinality(Mine(p)) \in Nat
        /\ Cardinality(Mine(p)) <= Cardinality(Calls) /\ Cardinality(Calls) \in Nat
    BY <1>5, <1>9, <2>2, MineFinite, FS_RemoveElement
  <2>5. [held[p] EXCEPT !.count = held[p].count - 1] = [by |-> held[p].by, count |-> Cardinality(Mine(p)')]
    BY <1>2, <1>4, <1>5, <1>9, <2>4
  <2>6. /\ held'[p] = [by |-> held[p].by, count |-> Cardinality(Mine(p)')]
        /\ \A r \in Procs : r # p => held'[r] = held[r]
        /\ held' = [held EXCEPT ![p] = [by |-> held[p].by, count |-> Cardinality(Mine(p)')]]
    BY <1>2, <2>1, <2>5
  <2>7. Cardinality(Mine(p)') \in 0..Cardinality(Calls) /\ Cardinality(Mine(p)') > 0
    BY <1>4, <1>5, <1>9, <2>4
  <2>8. LockTypeOK'
    <3>1. held' \in [Procs -> [by : Calls \cup {NoCall}, count : 0..Cardinality(Calls)]]
      BY <1>2, <1>4, <1>5, <1>9, <2>6, <2>7
    <3>. QED
      BY <1>0, <1>1, <1>3, <2>1, <3>1 DEF LockTypeOK, CallState
  <2>9. held'[p] # NotHeld /\ held'[p].by = held[p].by
    BY <2>6, <2>7 DEF NotHeld
  <2>10. \A r \in Procs : EntryCounts(r)'
    <3>. SUFFICES ASSUME NEW r \in Procs PROVE EntryCounts(r)'
      OBVIOUS
    <3>1. CASE r = p
      BY <1>4, <1>5, <1>9, <2>6, <2>7, <2>9, <3>1 DEF EntryCounts
    <3>2. CASE r # p
      BY <1>0, <2>3, <2>6, <3>2 DEF EntryCounts, LockBase
    <3>. QED
      BY <3>1, <3>2
  <2>11. LockBase'
    <3>1. \A d \in Calls : call'[d].mine => Is(d, "holding")'
      BY <1>3, <1>7, <2>1 DEF Is
    <3>. QED
      BY <1>6, <2>10, <3>1 DEF LockBase, FileExists
  <2>12. LiveLockHeld'
    <3>. SUFFICES ASSUME NEW r, lockFile'.text = "payload", lockFile'.pid = "live", r = processOf[lockFile'.by]
                  PROVE  HasOwner(r)'
      BY DEF LiveLockHeld
    <3>1. CASE r = p
      BY <2>6, <2>9, <3>1 DEF HasOwner
    <3>2. CASE r # p
      <4>1. HasOwner(r)
        BY <1>0, <1>1, LiveLockMeans DEF LiveLockHeld
      <4>2. r \in Procs
        BY <1>0, <1>1 DEF LockBase, FileExists, SessionWriteLockAssumption
      <4>3. \A d \in Calls : Is(d, "written") => Is(d, "written")'
        BY <1>1, <1>3, <2>1 DEF Is
      <4>. QED
        BY <2>1, <2>3, <2>6, <3>2, <4>1, <4>2, <4>3 DEF HasOwner
    <3>. QED
      BY <3>1, <3>2
  <2>13. LiveLockIsHeld'
    BY <2>12, LiveLockMeans, PTL
  <2>14. ASSUME starttime, ~disturbed PROVE LockExcl'
    <3>1. LockExcl
      BY <1>8, <2>14
    <3>2. \A d \in Calls : call'[d].phase \in Entering => call[d].phase \in Entering /\ d \notin closing'
      BY <1>3, <2>1, <3>1 DEF LockExcl, EnteringOwns, Entering
    <3>3. \A r \in Procs : held'[r] # NotHeld =>
             /\ held[r] # NotHeld /\ held'[r].by = held[r].by
             /\ held[r].by \in Calls /\ held[r].by \notin closing'
      BY <1>0, <1>5, <1>9, <2>1, <2>6, <2>9, <3>1 DEF LockBase, EntryCounts, LockExcl, EntryOwns
    <3>4. \A d \in closing' : Owns(d)
      BY <2>1, <3>1 DEF LockExcl, ClosingOwns
    <3>5. \A d \in Calls : call'[d].phase = "holding" => call'[d].mine
      BY <1>3, <2>1, <3>1 DEF LockExcl, HoldersShare, Is
    <3>. QED
      BY <1>1, <3>1, <3>2, <3>3, <3>4, <3>5, HoldersKeepExcl
  <2>. QED
    BY <1>1, <2>8, <2>11, <2>13, <2>14 DEF LockInv
<1>10. ASSUME ~call[c].mine PROVE LockInv'
  <2>1. call' = left /\ held' = held /\ closing' = closing
    BY <1>10 DEF Release, left
  <2>2. \A d \in Calls : call'[d].mine <=> call[d].mine
    BY <1>2, <1>3, <1>10, <2>1 DEF CallState
  <2>3. \A r : Mine(r)' = Mine(r)
    BY <2>2 DEF Mine
  <2>4. LockTypeOK'
    BY <1>0, <1>1, <1>3, <2>1 DEF LockTypeOK, CallState
  <2>5. LockBase'
    <3>1. \A d \in Calls : call'[d].mine => Is(d, "holding")'
      BY <1>3, <1>7, <2>1 DEF Is
    <3>2. \A r \in Procs : EntryCounts(r)'
      BY <1>0, <2>1, <2>3 DEF LockBase, EntryCounts
    <3>. QED
      BY <1>6, <3>1, <3>2 DEF LockBase, FileExists
  <2>6. LiveLockHeld'
    <3>1. \A d \in Calls : Is(d, "written") => Is(d, "written")'
      BY <1>1, <1>3, <2>1 DEF Is
    <3>. QED
      BY <1>0, <1>1, <2>1, <2>3, <3>1, LiveLockMeans DEF LiveLockHeld, HasOwner
  <2>7. LiveLockIsHeld'
    BY <2>6, LiveLockMeans, PTL
  <2>8. ASSUME starttime, ~disturbed PROVE LockExcl'
    BY <1>1, <1>8, <1>10, <2>8 DEF LockExcl, HoldersShare
  <2>. QED
    BY <1>1, <2>4, <2>5, <2>7, <2>8 DEF LockInv
<1>11. ASSUME call[c].mine, ~(held[p].count > 1) PROVE LockInv'
  <2>1. /\ held' = [held EXCEPT ![p] = NotHeld] /\ closing' = closing \cup {held[p].by}
        /\ call' = Disowned(left, p)
    BY <1>11 DEF Release, EntryDropped, left
  <2>2. /\ call' \in [Calls -> CallState]
        /\ \A d \in Calls : call'[d].phase = left[d].phase /\ (call'[d].mine <=> left[d].mine /\ processOf[d] # p)
    BY <1>3, <2>1, DisownedFacts
  <2>3. \A d \in Calls : /\ call'[d].mine <=> call[d].mine /\ processOf[d] # p
                         /\ d # c => call'[d].phase = call[d].phase
                         /\ d = c => call'[d].phase = "idle"
    BY <1>3, <2>2
  <2>4. held[p] # NotHeld /\ held[p].by \in Calls /\ processOf[held[p].by] = p
    BY <1>4, <1>5, <1>11
  <2>5. NotHeld \in [by : Calls \cup {NoCall}, count : 0..Cardinality(Calls)]
    BY MineFinite DEF NotHeld
  <2>6. LockTypeOK'
    BY <1>0, <1>1, <2>1, <2>2, <2>4, <2>5 DEF LockTypeOK, CallState
  <2>7. LockBase' /\ LiveLockIsHeld'
    BY <1>0, <1>1, <1>6, <2>1, <2>3, <2>4, DropKeepsBase
  <2>8. \A d \in Mine(p) : d = c
    <3>1. Cardinality(Mine(p)) = 1
      BY <1>4, <1>5, <1>11, MineFinite
    <3>2. PICK x : Mine(p) = {x}
      BY <3>1, MineFinite, FS_Singleton
    <3>. QED
      BY <1>5, <1>11, <3>2
  <2>9. ASSUME starttime, ~disturbed PROVE LockExcl'
    <3>1. LockExcl
      BY <1>8, <2>9
    <3>2. Owns(held[p].by) /\ held[p].by \notin closing /\ call[held[p].by].phase \notin Entering
      BY <2>4, <3>1 DEF LockExcl, EntryOwns
    <3>3. \A d \in Calls : call'[d].phase \in Entering => call[d].phase \in Entering /\ d \notin closing'
      BY <2>1, <2>3, <3>1, <3>2 DEF LockExcl, EnteringOwns, Entering
    <3>4. \A r \in Procs : held'[r] # NotHeld =>
             /\ held[r] # NotHeld /\ held'[r].by = held[r].by
             /\ held[r].by \in Calls /\ held[r].by \notin closing'
      <4>. SUFFICES ASSUME NEW r \in Procs, held'[r] # NotHeld
                    PROVE  /\ held[r] # NotHeld /\ held'[r].by = held[r].by
                           /\ held[r].by \in Calls /\ held[r].by \notin closing'
        OBVIOUS
      <4>1. r # p /\ held'[r] = held[r]
        BY <1>2, <2>1
      <4>2. held[r].by \in Calls /\ processOf[held[r].by] = r
        BY <1>0, <4>1 DEF LockBase, EntryCounts
      <4>3. held[r].by \notin closing
        BY <3>1, <4>1 DEF LockExcl, EntryOwns
      <4>. QED
        BY <2>1, <2>4, <4>1, <4>2, <4>3
    <3>5. \A d \in closing' : Owns(d)
      BY <2>1, <3>1, <3>2 DEF LockExcl, ClosingOwns
    <3>6. ASSUME NEW d \in Calls, call'[d].phase = "holding" PROVE call'[d].mine
      <4>1. d # c /\ call[d].mine
        BY <2>3, <3>1, <3>6 DEF LockExcl, HoldersShare, Is
      <4>2. d \notin Mine(p)
        BY <2>8, <4>1
      <4>. QED
        BY <2>3, <4>1, <4>2 DEF Mine
    <3>. QED
      BY <1>1, <3>1, <3>3, <3>4, <3>5, <3>6, HoldersKeepExcl
  <2>. QED
    BY <1>1, <2>6, <2>7, <2>9 DEF LockInv
<1>. QED
  BY <1>9, <1>10, <1>11

LEMMA FileAgesKeepsInv ==
  ASSUME LockInv, FileAges
  PROVE  LockInv'
<1>0. LockTypeOK /\ LockBase /\ LiveLockIsHeld
  BY DEF LockInv
<1>1. /\ FileExists /\ lockFile' = [lockFile EXCEPT !.old = TRUE]
      /\ disturbed' = (disturbed \/ lockFile.pid = "live")
      /\ UNCHANGED <<held, call, judged, closing, crashes, starttime>>
  BY DEF FileAges
<1>2. /\ lockFile' \in FileState /\ lockFile'.text = lockFile.text /\ lockFile'.by = lockFile.by
      /\ lockFile'.pid = lockFile.pid
  BY <1>0, <1>1 DEF LockTypeOK, FileState
<1>3. LockTypeOK'
  BY <1>0, <1>1, <1>2 DEF LockTypeOK, FileState
<1>4. \A r : Mine(r)' = Mine(r)
  BY <1>1 DEF Mine
<1>5. LockBase'
  BY <1>0, <1>1, <1>2, <1>4 DEF LockBase, EntryCounts, FileExists, Is
<1>6. LiveLockHeld'
  BY <1>0, <1>1, <1>2, <1>4, LiveLockMeans DEF LiveLockHeld, HasOwner, Is
<1>7. LiveLockIsHeld'
  BY <1>6, LiveLockMeans, PTL
<1>8. ASSUME starttime', ~disturbed' PROVE LockExcl'
  <2>1. LockExcl /\ lockFile.pid # "live"
    BY <1>0, <1>1, <1>8 DEF LockInv, LockTypeOK
  <2>2. \A d : Owns(d)' <=> Owns(d)
    BY <1>2 DEF Owns, FileExists
  <2>3. EnteringOwns' /\ ClosingOwns' /\ HoldersShare'
    BY <1>1, <2>1, <2>2 DEF LockExcl, EnteringOwns, ClosingOwns, HoldersShare, Is
  <2>4. EntryOwns'
    BY <1>1, <2>1 DEF LockExcl, EntryOwns, Owns
  <2>5. JudgedDead' /\ OldDead'
    BY <1>1, <1>2, <2>1 DEF LockExcl, JudgedDead, OldDead, FileExists
  <2>. QED
    BY <2>3, <2>4, <2>5 DEF LockExcl
<1>. QED
  BY <1>3, <1>5, <1>7, <1>8 DEF LockInv

-----------------------------------------------------------------------------
LEMMA LockInitInv == SessionWriteLockAssumption /\ LockInit => LockInv
<1>. SUFFICES ASSUME SessionWriteLockAssumption, LockInit PROVE LockInv
  OBVIOUS
<1>1. lockFile = NoFile /\ lockFile \in FileState /\ lockFile.text = "none"
  BY NoFileFacts DEF LockInit
<1>2. NotHeld \in [by : Calls \cup {NoCall}, count : 0..Cardinality(Calls)]
  BY MineFinite DEF NotHeld
<1>9. crashes \in 0..MaxCrashes
  BY DEF LockInit, SessionWriteLockAssumption
<1>10. held \in [Procs -> [by : Calls \cup {NoCall}, count : 0..Cardinality(Calls)]]
  BY <1>2 DEF LockInit
<1>11. call \in [Calls -> [phase : CallPhases, mine : BOOLEAN]]
  BY DEF LockInit, CallPhases
<1>3. LockTypeOK
  BY <1>1, <1>9, <1>10, <1>11 DEF LockTypeOK, LockInit, FileState
<1>4. \A p : Mine(p) = {}
  BY DEF LockInit, Mine
<1>5. LockBase
  BY <1>1, <1>4 DEF LockBase, LockInit, EntryCounts, FileExists
<1>6. LiveLockIsHeld
  BY <1>1 DEF LiveLockIsHeld
<1>7. \A p \in Procs : held[p] = NotHeld
  BY DEF LockInit
<1>8. LockExcl
  BY <1>1, <1>7 DEF LockInit, LockExcl, EnteringOwns, ClosingOwns, EntryOwns, JudgedDead, OldDead, HoldersShare,
     Entering, FileExists, Is
<1>. QED
  BY <1>3, <1>5, <1>6, <1>8 DEF LockInv

LEMMA LockNextInv == SessionWriteLockAssumption /\ LockInv /\ [LockNext]_lockVars => LockInv'
<1>. SUFFICES ASSUME SessionWriteLockAssumption, LockInv, [LockNext]_lockVars PROVE LockInv'
  OBVIOUS
<1>1. ASSUME NEW c \in Calls,
             \/ AcquireReentrant(c) \/ Acquire(c) \/ TimesOut(c)
             \/ OpenLockFile(c) \/ PayloadWritten(c) \/ PayloadFails(c) \/ FailedLockRemoved(c) \/ Acquired(c)
             \/ ReadPayload(c) \/ StatLockFile(c) \/ CleanReads(c) \/ RemoveStale(c)
             \/ Release(c) \/ LockFileRemoved(c)
      PROVE  LockInv'
  BY <1>1, AcquireReentrantKeepsInv, WaitingKeepsInv, OpenLockFileKeepsInv, PayloadWrittenKeepsInv,
     FailedLockRemovedKeepsInv, AcquiredKeepsInv, ReadingKeepsInv, RemoveStaleKeepsInv, ReleaseKeepsInv,
     LockFileRemovedKeepsInv
<1>2. ASSUME NEW p \in Procs,
             \/ WatchdogReleases(p) \/ ReleaseAllLocksSync(p)
             \/ \E pid \in {"dead", "reused"} : Dies(p, pid)
      PROVE  LockInv'
  BY <1>2, WatchdogKeepsInv, ReleaseAllKeepsInv, DiesKeepsInv
<1>3. CASE UNCHANGED lockVars
  <2>1. \A r : Mine(r)' = Mine(r)
    BY <1>3 DEF lockVars, Mine
  <2>2. LockTypeOK' /\ LockBase'
    BY <1>3, <2>1 DEF LockInv, lockVars, LockTypeOK, LockBase, EntryCounts, FileExists, Is
  <2>3. LiveLockIsHeld'
    BY <1>3 DEF LockInv, lockVars, LiveLockIsHeld, Is
  <2>4. starttime' /\ ~disturbed' => LockExcl'
    BY <1>3 DEF LockInv, lockVars, LockExcl, EnteringOwns, ClosingOwns, EntryOwns, JudgedDead, OldDead,
       HoldersShare, Owns, FileExists, Is
  <2>. QED
    BY <2>2, <2>3, <2>4 DEF LockInv
<1>. QED
  BY <1>1, <1>2, <1>3, FileAgesKeepsInv DEF LockNext

LEMMA LockInvAlways == LockSpec => []LockInv
<1>1. SessionWriteLockAssumption
  BY SessionWriteLockAssumption
<1>. QED
  BY <1>1, LockInitInv, LockNextInv, PTL DEF LockSpec

-----------------------------------------------------------------------------
(* Lock files, entries and calls keep their types: a count is between 0 and *)
(* the number of calls.                                                    *)
THEOREM LockTypeCorrect == LockSpec => []LockTypeOK
<1>1. LockInv => LockTypeOK
  BY DEF LockInv
<1>. QED
  BY <1>1, LockInvAlways, PTL

(* Those who hold the session's lock are calls of one process that share    *)
(* its entry, unless a lock was taken from a working process.              *)
THEOREM ExclusiveHoldersAlways == LockSpec => []ExclusiveHolders
<1>1. LockInv => ExclusiveHolders
  <2>. SUFFICES ASSUME LockInv, starttime, ~disturbed, NEW c \in Calls, NEW d \in Calls,
                       Is(c, "holding"), Is(d, "holding")
                PROVE  processOf[c] = processOf[d] /\ call[c].mine
    BY DEF ExclusiveHolders
  <2>1. LockExcl /\ LockBase
    BY DEF LockInv
  <2>2. call[c].mine /\ call[d].mine
    BY <2>1 DEF LockExcl, HoldersShare
  <2>3. processOf[c] \in Procs /\ processOf[d] \in Procs
    BY SessionWriteLockAssumption DEF SessionWriteLockAssumption
  <2>4. ASSUME NEW e \in {c, d}
        PROVE  /\ held[processOf[e]] # NotHeld
               /\ processOf[held[processOf[e]].by] = processOf[e]
    BY <2>1, <2>2, <2>3 DEF LockBase, EntryCounts, Mine
  <2>5. Owns(held[processOf[c]].by) /\ Owns(held[processOf[d]].by)
    BY <2>1, <2>3, <2>4 DEF LockExcl, EntryOwns
  <2>. QED
    BY <2>2, <2>4, <2>5 DEF Owns
<1>. QED
  BY <1>1, LockInvAlways, PTL

(* A lock file with the pid of a running process is that of an entry which  *)
(* counts its holders, or of a call that enters it or removes the file:    *)
(* nobody waits for a lock that nobody has.                                *)
THEOREM LiveLockIsHeldAlways == LockSpec => []LiveLockIsHeld
<1>1. LockInv => LiveLockIsHeld
  BY DEF LockInv
<1>. QED
  BY <1>1, LockInvAlways, PTL

-----------------------------------------------------------------------------
(* The channel manager. *)
Booting == {"configuring", "bootstrapping"}
Tasked == {"running", "cleaning", "backoff"}
Boot == [phase : BootPhases, aborted : BOOLEAN, auto : BOOLEAN]

ChannelTypes ==
  /\ stopHook \in BOOLEAN /\ manuallyStopped \in BOOLEAN
  /\ booted \in 0..MaxBoots
  /\ boots \in [1..booted -> Boot]
  /\ tasks \in 0..booted /\ starting \in 0..booted /\ aborts \in 0..booted
  /\ restartAttempts \in Nat
  /\ stops \in [Stops -> [phase : {"none", "hook", "waiting"}, task : 0..MaxBoots]]

(* A boot that goes on unless it is told to stop. *)
GoesOn(boot) == boot.phase \in Booting \cup Tasked /\ ~boot.aborted

(* A boot whose provider, when it exits, is restarted with the attempts so  *)
(* far, if it is.                                                          *)
Counting(boot) ==
  boot.phase \in {"bootstrapping"} \cup Tasked \/ (boot.phase = "configuring" /\ boot.auto)

(* starting has the boot that holds the gate, tasks the one with a task,    *)
(* and there is one of them at most.                                       *)
OneBoot ==
  /\ \A b \in 1..booted : boots[b].phase \in Booting <=> starting = b
  /\ \A b \in 1..booted : boots[b].phase \in Tasked <=> tasks = b
  /\ starting # 0 => tasks = 0

(* A stop finds the boot that it has to abort. *)
AbortInPlace == \A b \in 1..booted : GoesOn(boots[b]) => aborts = b

StoppedStays == manuallyStopped => \A b \in 1..booted : ~Live(b)

AttemptsOK ==
  /\ restartAttempts <= MaxRestarts + 1
  /\ \A b \in 1..booted : Counting(boots[b]) => restartAttempts <= MaxRestarts

(* While a stop waits nothing is active, and what it waits for is the task  *)
(* in the map, or over.                                                    *)
StopsOK ==
  \A s \in Stops :
    /\ stops[s].phase # "hook"
    /\ stops[s].phase = "waiting" =>
         /\ manuallyStopped /\ \A b \in 1..booted : ~GoesOn(boots[b])
         /\ stops[s].task = tasks \/ (tasks = 0 /\ At(stops[s].task, "over"))

AccountInv == OneBoot /\ AbortInPlace /\ StoppedStays /\ AttemptsOK /\ StopsOK

ChannelInv == ChannelTypes /\ (~stopHook => AccountInv)

-----------------------------------------------------------------------------
(* A boot goes to another phase. *)
LEMMA BootGoesFacts ==
  ASSUME ChannelTypes, NEW b \in 1..booted, NEW phase \in BootPhases, BootGoes(b, phase), UNCHANGED booted
  PROVE  /\ boots' \in [1..booted' -> Boot]
         /\ \A c \in 1..booted : c # b => boots'[c] = boots[c]
         /\ boots'[b].phase = phase /\ ~boots'[b].auto
         /\ boots'[b].aborted <=> boots[b].aborted /\ phase # "over"
<1>1. boots \in [1..booted -> Boot] /\ boots[b] \in Boot
  BY DEF ChannelTypes
<1>2. Past(boots[b], phase) \in Boot
  BY <1>1 DEF Past, Boot
<1>3. boots' = [boots EXCEPT ![b] = Past(boots[b], phase)]
  BY <1>1 DEF BootGoes
<1>. QED
  BY <1>1, <1>2, <1>3 DEF Past

(* A new boot takes the gate and has an abort controller. *)
LEMMA ReserveFacts ==
  ASSUME ChannelAssumption, ChannelTypes, NEW auto \in BOOLEAN, NEW w \in [1..booted -> Boot], Reserve(auto, w)
  PROVE  /\ booted' = booted + 1 /\ booted' \in 0..MaxBoots /\ booted \in Nat
         /\ boots' \in [1..booted' -> Boot]
         /\ \A b \in 1..booted : boots'[b] = w[b]
         /\ boots'[booted'] = [phase |-> "configuring", aborted |-> FALSE, auto |-> auto]
         /\ starting' = booted' /\ aborts' = booted'
<1>1. booted \in 0..MaxBoots /\ booted < MaxBoots /\ MaxBoots \in Nat /\ booted' = booted + 1
  BY DEF ChannelTypes, ChannelAssumption, Reserve
<1>2. [phase |-> "configuring", aborted |-> FALSE, auto |-> auto] \in Boot
  BY DEF Boot, BootPhases
<1>3. boots' = [b \in 1..booted' |-> IF b <= booted THEN w[b]
                  ELSE [phase |-> "configuring", aborted |-> FALSE, auto |-> auto]]
  BY DEF Reserve
<1>4. \A b \in 1..booted' : b <= booted => b \in 1..booted
  BY <1>1
<1>5. boots' \in [1..booted' -> Boot]
  BY <1>2, <1>3, <1>4
<1>6. (\A b \in 1..booted : b <= booted /\ b \in 1..booted') /\ booted' \in 1..booted' /\ ~(booted' <= booted)
  BY <1>1
<1>7. /\ \A b \in 1..booted : boots'[b] = w[b]
      /\ boots'[booted'] = [phase |-> "configuring", aborted |-> FALSE, auto |-> auto]
  BY <1>3, <1>6
<1>8. booted' \in 0..MaxBoots /\ booted \in Nat
  BY <1>1
<1>. QED
  BY <1>1, <1>5, <1>7, <1>8 DEF Reserve

(* No stop waits while nothing has a task and no stop can finish. *)
LEMMA NobodyWaits ==
  ASSUME ChannelTypes, ~stopHook => AccountInv, ~stopHook, NoneCanFinish, tasks = 0
  PROVE  \A s \in Stops : stops[s].phase # "waiting"
<1>. SUFFICES ASSUME NEW s \in Stops, stops[s].phase = "waiting" PROVE FALSE
  OBVIOUS
<1>1. stops[s].task = 0 \/ At(stops[s].task, "over")
  BY DEF AccountInv, StopsOK
<1>. QED
  BY <1>1 DEF NoneCanFinish, CanFinish

-----------------------------------------------------------------------------
LEMMA StartKeepsInv ==
  ASSUME ChannelAssumption, ChannelInv, StartChannel
  PROVE  ChannelInv'
<1>1. /\ NoneCanFinish /\ tasks = 0 /\ starting = 0 /\ Reserve(FALSE, boots)
      /\ UNCHANGED <<stopHook, tasks, manuallyStopped, restartAttempts, stops>> /\ ChannelTypes
  BY DEF StartChannel, ChannelInv
<1>2. boots \in [1..booted -> Boot]
  BY <1>1 DEF ChannelTypes
<1>3. /\ booted' = booted + 1 /\ booted' \in 0..MaxBoots /\ booted \in Nat
      /\ boots' \in [1..booted' -> Boot]
      /\ \A b \in 1..booted : boots'[b] = boots[b]
      /\ boots'[booted'] = [phase |-> "configuring", aborted |-> FALSE, auto |-> FALSE]
      /\ starting' = booted' /\ aborts' = booted'
  BY <1>1, <1>2, ReserveFacts
<1>4. ChannelTypes'
  BY <1>1, <1>3 DEF ChannelTypes
<1>5. ASSUME ~stopHook PROVE AccountInv'
  <2>1. AccountInv /\ \A s \in Stops : stops[s].phase # "waiting"
    BY <1>1, <1>5, NobodyWaits DEF ChannelInv
  <2>2. \A b \in 1..booted' : b \in 1..booted \/ b = booted'
    BY <1>3
  <2>3. booted' \notin 1..booted /\ booted' # 0
    BY <1>3
  <2>4. \A b \in 1..booted : boots[b].phase \notin Booting \cup Tasked
    BY <1>1, <2>1 DEF AccountInv, OneBoot
  <2>5. OneBoot'
    BY <1>1, <1>3, <2>2, <2>3, <2>4 DEF OneBoot, Booting, Tasked
  <2>6. AbortInPlace'
    BY <1>3, <2>2, <2>4 DEF AbortInPlace, GoesOn
  <2>7. StoppedStays'
    BY <1>3, <2>2, <2>4 DEF StoppedStays, Live, Booting, Tasked
  <2>8. AttemptsOK'
    BY <1>1, <1>3, <2>1, <2>2, <2>4 DEF AccountInv, AttemptsOK, Counting, Booting, Tasked
  <2>9. StopsOK'
    BY <1>1, <2>1 DEF AccountInv, StopsOK
  <2>. QED
    BY <2>5, <2>6, <2>7, <2>8, <2>9 DEF AccountInv
<1>. QED
  BY <1>1, <1>4, <1>5 DEF ChannelInv

(* A start ends without a task and opens the gate. *)
LEMMA BootFailsKeepsInv ==
  ASSUME ChannelAssumption, ChannelInv, NEW b,
         At(b, "configuring") \/ At(b, "bootstrapping"), BootGoes(b, "failing"), GateOpens(b),
         manuallyStopped' \in BOOLEAN, manuallyStopped' => manuallyStopped,
         stopHook \/ (manuallyStopped => manuallyStopped') \/ (\A s \in Stops : stops[s].phase # "waiting"),
         UNCHANGED <<stopHook, booted, tasks, aborts, restartAttempts, stops>>
  PROVE  ChannelInv'
<1>1. b \in 1..booted /\ boots[b].phase \in Booting /\ ChannelTypes
  BY DEF At, Booting, ChannelInv
<1>2. /\ boots' \in [1..booted' -> Boot]
      /\ \A c \in 1..booted : c # b => boots'[c] = boots[c]
      /\ boots'[b].phase = "failing"
  BY <1>1, BootGoesFacts DEF BootPhases
<1>3. starting' = (IF starting = b THEN 0 ELSE starting)
  BY DEF GateOpens
<1>4. ChannelTypes'
  <2>1. starting' \in 0..booted
    BY <1>1, <1>3 DEF ChannelTypes
  <2>. QED
    BY <1>1, <1>2, <2>1 DEF ChannelTypes
<1>5. ASSUME ~stopHook PROVE AccountInv'
  <2>1. AccountInv /\ starting = b /\ tasks # b /\ b # 0
    BY <1>1, <1>5 DEF ChannelInv, AccountInv, OneBoot, Booting, Tasked
  <2>2. starting' = 0
    BY <1>3, <2>1
  <2>3. OneBoot'
    BY <1>1, <1>2, <2>1, <2>2 DEF AccountInv, OneBoot, Booting, Tasked
  <2>4. \A c \in 1..booted : GoesOn(boots'[c]) => GoesOn(boots[c])
    BY <1>1, <1>2 DEF GoesOn, Booting, Tasked
  <2>5. AbortInPlace'
    BY <2>1, <2>4 DEF AccountInv, AbortInPlace
  <2>6. StoppedStays'
    BY <1>2, <2>1 DEF AccountInv, StoppedStays, Live
  <2>7. AttemptsOK'
    BY <1>2, <2>1 DEF AccountInv, AttemptsOK, Counting, Tasked
  <2>8. StopsOK'
    BY <1>1, <1>2, <1>5, <2>1, <2>4 DEF AccountInv, StopsOK, At, Booting
  <2>. QED
    BY <2>3, <2>5, <2>6, <2>7, <2>8 DEF AccountInv
<1>. QED
  BY <1>4, <1>5 DEF ChannelInv

(* isConfigured answers: the start goes on unless it was told to stop, and  *)
(* an explicit start takes the account back from a stop.                   *)
LEMMA IsConfiguredKeepsInv ==
  ASSUME ChannelAssumption, ChannelInv, NEW b, IsConfigured(b)
  PROVE  ChannelInv'
<1>1. /\ NoneCanFinish /\ At(b, "configuring") /\ b \in 1..booted /\ boots[b].phase = "configuring"
      /\ manuallyStopped' = (manuallyStopped /\ boots[b].auto)
      /\ UNCHANGED <<stopHook, booted, tasks, aborts, stops>> /\ ChannelTypes
  BY DEF IsConfigured, At, ChannelInv
<1>2. boots[b] \in Boot /\ manuallyStopped' \in BOOLEAN /\ (manuallyStopped' => manuallyStopped)
  BY <1>1 DEF ChannelTypes, Boot
<1>3. ASSUME ~stopHook
      PROVE  /\ AccountInv /\ starting = b /\ tasks = 0 /\ tasks # b
             /\ \A s \in Stops : stops[s].phase # "waiting"
  <2>1. AccountInv
    BY <1>3 DEF ChannelInv
  <2>2. starting = b /\ b # 0 /\ tasks = 0
    BY <1>1, <2>1 DEF AccountInv, OneBoot, Booting
  <2>3. \A s \in Stops : stops[s].phase # "waiting"
    BY <1>1, <1>3, <2>1, <2>2, NobodyWaits
  <2>. QED
    BY <2>1, <2>2, <2>3
<1>4. CASE boots[b].aborted \/ manuallyStopped'
  <2>1. BootGoes(b, "failing") /\ GateOpens(b) /\ UNCHANGED restartAttempts
    BY <1>4 DEF IsConfigured
  <2>2. stopHook \/ (manuallyStopped => manuallyStopped') \/ (\A s \in Stops : stops[s].phase # "waiting")
    BY <1>3
  <2>. QED
    BY <1>1, <1>2, <2>1, <2>2, BootFailsKeepsInv
<1>5. CASE ~(boots[b].aborted \/ manuallyStopped')
  <2>1. /\ BootGoes(b, "bootstrapping") /\ UNCHANGED starting
        /\ restartAttempts' = IF boots[b].auto THEN restartAttempts ELSE 0
    BY <1>5 DEF IsConfigured
  <2>2. /\ boots' \in [1..booted' -> Boot]
        /\ \A c \in 1..booted : c # b => boots'[c] = boots[c]
        /\ boots'[b].phase = "bootstrapping" /\ ~boots'[b].aborted
    BY <1>1, <1>5, <2>1, BootGoesFacts DEF BootPhases
  <2>3. restartAttempts' \in Nat
    BY <1>1, <2>1 DEF ChannelTypes
  <2>4. ChannelTypes'
    BY <1>1, <1>2, <2>1, <2>2, <2>3 DEF ChannelTypes
  <2>5. ASSUME ~stopHook PROVE AccountInv'
    <3>1. AccountInv /\ starting = b /\ tasks = 0 /\ \A s \in Stops : stops[s].phase # "waiting"
      BY <2>5, <1>3
    <3>2. OneBoot'
      BY <1>1, <2>1, <2>2, <3>1 DEF AccountInv, OneBoot, Booting, Tasked
    <3>3. \A c \in 1..booted : GoesOn(boots'[c]) => GoesOn(boots[c])
      BY <1>1, <1>5, <2>2 DEF GoesOn, Booting
    <3>4. AbortInPlace'
      BY <1>1, <3>1, <3>3 DEF AccountInv, AbortInPlace
    <3>5. StoppedStays'
      BY <1>5 DEF StoppedStays
    <3>6. AttemptsOK'
      <4>1. \A c \in 1..booted : c # b => ~Counting(boots[c])
        BY <1>1, <3>1 DEF AccountInv, OneBoot, Counting, Booting, Tasked
      <4>2. restartAttempts' <= MaxRestarts
        <5>1. CASE boots[b].auto
          BY <1>1, <2>1, <3>1, <5>1 DEF AccountInv, AttemptsOK, Counting
        <5>2. CASE ~boots[b].auto
          BY <2>1, <5>2 DEF ChannelAssumption
        <5>. QED
          BY <5>1, <5>2
      <4>. QED
        BY <1>1, <2>3, <4>2 DEF AttemptsOK, ChannelAssumption
    <3>7. StopsOK'
      BY <1>1, <3>1 DEF AccountInv, StopsOK
    <3>. QED
      BY <3>2, <3>4, <3>5, <3>6, <3>7 DEF AccountInv
  <2>. QED
    BY <1>1, <2>4, <2>5 DEF ChannelInv
<1>. QED
  BY <1>4, <1>5

(* A boot without a task is over, and takes its own abort with it. *)
LEMMA FailedBootKeepsInv ==
  ASSUME ChannelAssumption, ChannelInv, NEW b, FailedBootCleanedUp(b)
  PROVE  ChannelInv'
<1>1. /\ b \in 1..booted /\ boots[b].phase = "failing" /\ BootGoes(b, "over")
      /\ aborts' = (IF aborts = b THEN 0 ELSE aborts) /\ ChannelTypes
      /\ UNCHANGED <<stopHook, booted, tasks, starting, manuallyStopped, restartAttempts, stops>>
  BY DEF FailedBootCleanedUp, At, ChannelInv
<1>2. /\ boots' \in [1..booted' -> Boot]
      /\ \A c \in 1..booted : c # b => boots'[c] = boots[c]
      /\ boots'[b].phase = "over"
  BY <1>1, BootGoesFacts DEF BootPhases
<1>3. ChannelTypes'
  <2>1. aborts' \in 0..booted
    BY <1>1 DEF ChannelTypes
  <2>. QED
    BY <1>1, <1>2, <2>1 DEF ChannelTypes
<1>4. ASSUME ~stopHook PROVE AccountInv'
  <2>1. AccountInv
    BY <1>4 DEF ChannelInv
  <2>2. \A c \in 1..booted : GoesOn(boots'[c]) => c # b /\ GoesOn(boots[c])
    BY <1>1, <1>2 DEF GoesOn, Booting, Tasked
  <2>3. OneBoot'
    BY <1>1, <1>2, <2>1 DEF AccountInv, OneBoot, Booting, Tasked
  <2>4. AbortInPlace'
    BY <1>1, <2>1, <2>2 DEF AccountInv, AbortInPlace
  <2>5. StoppedStays'
    BY <1>1, <1>2, <2>1 DEF AccountInv, StoppedStays, Live
  <2>6. AttemptsOK'
    BY <1>1, <1>2, <2>1 DEF AccountInv, AttemptsOK, Counting, Tasked
  <2>7. StopsOK'
    BY <1>1, <1>2, <2>1, <2>2 DEF AccountInv, StopsOK, At
  <2>. QED
    BY <2>3, <2>4, <2>5, <2>6, <2>7 DEF AccountInv
<1>. QED
  BY <1>1, <1>3, <1>4 DEF ChannelInv

(* startAccount is called: the boot has a task. *)
LEMMA BootstrappedKeepsInv ==
  ASSUME ChannelAssumption, ChannelInv, NEW b, Bootstrapped(b)
  PROVE  ChannelInv'
<1>1. /\ NoneCanFinish /\ b \in 1..booted /\ boots[b].phase = "bootstrapping" /\ BootGoes(b, "running")
      /\ tasks' = b /\ starting' = (IF starting = b THEN 0 ELSE starting) /\ ChannelTypes
      /\ UNCHANGED <<stopHook, booted, aborts, manuallyStopped, restartAttempts, stops>>
  BY DEF Bootstrapped, At, GateOpens, ChannelInv
<1>2. /\ boots' \in [1..booted' -> Boot]
      /\ \A c \in 1..booted : c # b => boots'[c] = boots[c]
      /\ boots'[b].phase = "running" /\ (boots'[b].aborted <=> boots[b].aborted)
  BY <1>1, BootGoesFacts DEF BootPhases
<1>3. ChannelTypes'
  <2>1. starting' \in 0..booted /\ tasks' \in 0..booted
    BY <1>1 DEF ChannelTypes
  <2>. QED
    BY <1>1, <1>2, <2>1 DEF ChannelTypes
<1>4. ASSUME ~stopHook PROVE AccountInv'
  <2>1. AccountInv
    BY <1>4 DEF ChannelInv
  <2>2. starting = b /\ b # 0 /\ tasks = 0
    BY <1>1, <2>1 DEF AccountInv, OneBoot, Booting
  <2>3. \A s \in Stops : stops[s].phase # "waiting"
    BY <1>1, <1>4, <2>1, <2>2, NobodyWaits
  <2>4. \A c \in 1..booted : GoesOn(boots'[c]) => GoesOn(boots[c])
    BY <1>1, <1>2 DEF GoesOn, Booting, Tasked
  <2>5. OneBoot'
    BY <1>1, <1>2, <2>1, <2>2 DEF AccountInv, OneBoot, Booting, Tasked
  <2>6. AbortInPlace'
    BY <1>1, <2>1, <2>4 DEF AccountInv, AbortInPlace
  <2>7. StoppedStays'
    BY <1>1, <1>2, <2>1 DEF AccountInv, StoppedStays, Live
  <2>8. AttemptsOK'
    BY <1>1, <1>2, <2>1 DEF AccountInv, AttemptsOK, Counting, Tasked
  <2>9. StopsOK'
    BY <1>1, <2>1, <2>3 DEF AccountInv, StopsOK
  <2>. QED
    BY <2>5, <2>6, <2>7, <2>8, <2>9 DEF AccountInv
<1>. QED
  BY <1>1, <1>3, <1>4 DEF ChannelInv

(* The provider exits; its approval runtime is cleaned up next. *)
LEMMA ProviderExitsKeepsInv ==
  ASSUME ChannelAssumption, ChannelInv, NEW b, ProviderExits(b)
  PROVE  ChannelInv'
<1>1. /\ b \in 1..booted /\ boots[b].phase = "running" /\ BootGoes(b, "cleaning") /\ ChannelTypes
      /\ UNCHANGED <<stopHook, booted, tasks, starting, aborts, manuallyStopped, restartAttempts, stops>>
  BY DEF ProviderExits, At, ChannelInv
<1>2. /\ boots' \in [1..booted' -> Boot]
      /\ \A c \in 1..booted : c # b => boots'[c] = boots[c]
      /\ boots'[b].phase = "cleaning" /\ (boots'[b].aborted <=> boots[b].aborted)
  BY <1>1, BootGoesFacts DEF BootPhases
<1>3. ChannelTypes'
  BY <1>1, <1>2 DEF ChannelTypes
<1>4. ASSUME ~stopHook PROVE AccountInv'
  <2>1. AccountInv
    BY <1>4 DEF ChannelInv
  <2>2. \A c \in 1..booted : GoesOn(boots'[c]) => GoesOn(boots[c])
    BY <1>1, <1>2 DEF GoesOn, Booting, Tasked
  <2>3. OneBoot'
    BY <1>1, <1>2, <2>1 DEF AccountInv, OneBoot, Booting, Tasked
  <2>4. AbortInPlace'
    BY <1>1, <2>1, <2>2 DEF AccountInv, AbortInPlace
  <2>5. StoppedStays'
    BY <1>1, <1>2, <2>1 DEF AccountInv, StoppedStays, Live
  <2>6. AttemptsOK'
    BY <1>1, <1>2, <2>1 DEF AccountInv, AttemptsOK, Counting, Tasked
  <2>7. StopsOK'
    BY <1>1, <1>2, <2>1, <2>2 DEF AccountInv, StopsOK, At
  <2>. QED
    BY <2>3, <2>4, <2>5, <2>6, <2>7 DEF AccountInv
<1>. QED
  BY <1>1, <1>3, <1>4 DEF ChannelInv

(* A boot with a task is over and forgets its entries, of the maps; the     *)
(* attempts may have been counted before.                                  *)
LEMMA TaskOverKeepsInv ==
  ASSUME ChannelAssumption, ChannelInv, NEW b \in 1..booted, boots[b].phase \in Tasked,
         BootGoes(b, "over"), Forget(b),
         restartAttempts' \in {restartAttempts, restartAttempts + 1},
         UNCHANGED <<stopHook, booted, starting, manuallyStopped, stops>>
  PROVE  ChannelInv'
<1>1. ChannelTypes /\ tasks' = (IF tasks = b THEN 0 ELSE tasks) /\ aborts' = (IF aborts = b THEN 0 ELSE aborts)
  BY DEF ChannelInv, Forget
<1>2. /\ boots' \in [1..booted' -> Boot]
      /\ \A c \in 1..booted : c # b => boots'[c] = boots[c]
      /\ boots'[b].phase = "over"
  BY <1>1, BootGoesFacts DEF BootPhases
<1>3. ChannelTypes'
  <2>1. tasks' \in 0..booted /\ aborts' \in 0..booted /\ restartAttempts' \in Nat
    BY <1>1 DEF ChannelTypes
  <2>. QED
    BY <1>1, <1>2, <2>1 DEF ChannelTypes
<1>4. ASSUME ~stopHook PROVE AccountInv'
  <2>1. AccountInv
    BY <1>4 DEF ChannelInv
  <2>2. tasks = b /\ tasks' = 0 /\ b # 0 /\ starting = 0
    BY <1>1, <2>1 DEF AccountInv, OneBoot
  <2>3. \A c \in 1..booted : GoesOn(boots'[c]) => c # b /\ GoesOn(boots[c])
    BY <1>1, <1>2 DEF GoesOn, Booting, Tasked
  <2>4. \A c \in 1..booted : boots'[c].phase \notin Booting \cup Tasked
    BY <1>2, <2>1, <2>2 DEF AccountInv, OneBoot, Booting, Tasked
  <2>5. OneBoot'
    BY <2>2, <2>4 DEF OneBoot
  <2>6. AbortInPlace'
    BY <2>4 DEF AbortInPlace, GoesOn
  <2>7. StoppedStays'
    BY <2>4 DEF StoppedStays, Live, Booting, Tasked
  <2>8. AttemptsOK'
    <3>1. \A c \in 1..booted : ~Counting(boots'[c])
      BY <2>4 DEF Counting, Booting, Tasked
    <3>2. restartAttempts <= MaxRestarts /\ restartAttempts \in Nat
      BY <1>1, <2>1 DEF AccountInv, AttemptsOK, Counting, ChannelTypes
    <3>3. restartAttempts' <= MaxRestarts + 1
      BY <3>2 DEF ChannelAssumption
    <3>. QED
      BY <3>1, <3>3 DEF AttemptsOK
  <2>9. StopsOK'
    <3>1. ASSUME NEW s \in Stops, stops[s].phase = "waiting"
          PROVE  stops[s].task = b
      BY <2>1, <2>2, <3>1 DEF AccountInv, StopsOK
    <3>2. \A s \in Stops : stops[s].phase = "waiting" => At(stops[s].task, "over")'
      BY <1>2, <3>1 DEF At
    <3>. QED
      BY <1>2, <2>1, <2>2, <2>3, <3>2 DEF AccountInv, StopsOK
  <2>. QED
    BY <2>5, <2>6, <2>7, <2>8, <2>9 DEF AccountInv
<1>. QED
  BY <1>3, <1>4 DEF ChannelInv

(* The cleanup after an exit: the task ends, or the backoff begins. *)
LEMMA ProviderCleanedUpKeepsInv ==
  ASSUME ChannelAssumption, ChannelInv, NEW b, ProviderCleanedUp(b)
  PROVE  ChannelInv'
<1>1. /\ b \in 1..booted /\ boots[b].phase = "cleaning" /\ boots[b].phase \in Tasked /\ ChannelTypes
      /\ restartAttempts' = (IF manuallyStopped THEN restartAttempts ELSE restartAttempts + 1)
      /\ UNCHANGED <<stopHook, booted, starting, manuallyStopped, stops>>
  BY DEF ProviderCleanedUp, At, ChannelInv, Tasked
<1>2. CASE manuallyStopped \/ restartAttempts + 1 > MaxRestarts
  <2>1. BootGoes(b, "over") /\ Forget(b)
    BY <1>2 DEF ProviderCleanedUp
  <2>. QED
    BY <1>1, <2>1, TaskOverKeepsInv
<1>3. CASE ~(manuallyStopped \/ restartAttempts + 1 > MaxRestarts)
  <2>1. BootGoes(b, "backoff") /\ UNCHANGED <<tasks, aborts>>
    BY <1>3 DEF ProviderCleanedUp
  <2>2. /\ boots' \in [1..booted' -> Boot]
        /\ \A c \in 1..booted : c # b => boots'[c] = boots[c]
        /\ boots'[b].phase = "backoff" /\ (boots'[b].aborted <=> boots[b].aborted)
    BY <1>1, <2>1, BootGoesFacts DEF BootPhases
  <2>3. restartAttempts' \in Nat /\ restartAttempts' <= MaxRestarts
    BY <1>1, <1>3 DEF ChannelTypes, ChannelAssumption
  <2>4. ChannelTypes'
    BY <1>1, <2>1, <2>2, <2>3 DEF ChannelTypes
  <2>5. ASSUME ~stopHook PROVE AccountInv'
    <3>1. AccountInv
      BY <2>5 DEF ChannelInv
    <3>2. \A c \in 1..booted : GoesOn(boots'[c]) => GoesOn(boots[c])
      BY <1>1, <2>2 DEF GoesOn, Booting, Tasked
    <3>3. OneBoot'
      BY <1>1, <2>1, <2>2, <3>1 DEF AccountInv, OneBoot, Booting, Tasked
    <3>4. AbortInPlace'
      BY <1>1, <2>1, <3>1, <3>2 DEF AccountInv, AbortInPlace
    <3>5. StoppedStays'
      BY <1>1, <1>3 DEF StoppedStays
    <3>6. AttemptsOK'
      BY <1>1, <2>3 DEF AttemptsOK, ChannelAssumption
    <3>7. StopsOK'
      BY <1>1, <1>3, <3>1 DEF AccountInv, StopsOK
    <3>. QED
      BY <3>3, <3>4, <3>5, <3>6, <3>7 DEF AccountInv
  <2>. QED
    BY <1>1, <2>4, <2>5 DEF ChannelInv
<1>. QED
  BY <1>2, <1>3

LEMMA BackoffAbortedKeepsInv ==
  ASSUME ChannelAssumption, ChannelInv, NEW b, BackoffAborted(b)
  PROVE  ChannelInv'
<1>1. /\ b \in 1..booted /\ boots[b].phase \in Tasked /\ BootGoes(b, "over") /\ Forget(b)
      /\ UNCHANGED <<stopHook, booted, starting, manuallyStopped, restartAttempts, stops>>
  BY DEF BackoffAborted, At, Tasked
<1>. QED
  BY <1>1, TaskOverKeepsInv

(* The backoff is over: the boot ends, and the next one, if it starts, has  *)
(* the gate and an abort controller of its own.                            *)
LEMMA BackoffEndsKeepsInv ==
  ASSUME ChannelAssumption, ChannelInv, NEW b, BackoffEnds(b)
  PROVE  ChannelInv'
<1>1. /\ NoneCanFinish /\ b \in 1..booted /\ boots[b].phase = "backoff" /\ boots[b].phase \in Tasked
      /\ ~boots[b].aborted /\ ChannelTypes
      /\ UNCHANGED <<stopHook, manuallyStopped, restartAttempts, stops>>
  BY DEF BackoffEnds, At, ChannelInv, Tasked
<1>2. CASE manuallyStopped \/ tasks \notin {0, b} \/ starting # 0
  <2>1. BootGoes(b, "over") /\ Forget(b) /\ UNCHANGED <<booted, starting>>
    BY <1>2 DEF BackoffEnds
  <2>. QED
    BY <1>1, <2>1, TaskOverKeepsInv
<1>3. CASE ~(manuallyStopped \/ tasks \notin {0, b} \/ starting # 0)
  <2>. DEFINE w == [boots EXCEPT ![b] = Past(@, "over")]
  <2>1. tasks' = 0 /\ Reserve(TRUE, w)
    BY <1>3 DEF BackoffEnds
  <2>2. boots \in [1..booted -> Boot] /\ Past(boots[b], "over") \in Boot /\ Past(boots[b], "over").phase = "over"
    BY <1>1 DEF ChannelTypes, Past, Boot, BootPhases
  <2>3. w \in [1..booted -> Boot] /\ w[b].phase = "over" /\ \A c \in 1..booted : c # b => w[c] = boots[c]
    BY <1>1, <2>2
  <2>. HIDE DEF w
  <2>4. /\ booted' = booted + 1 /\ booted' \in 0..MaxBoots /\ booted \in Nat
        /\ boots' \in [1..booted' -> Boot]
        /\ \A c \in 1..booted : boots'[c] = w[c]
        /\ boots'[booted'] = [phase |-> "configuring", aborted |-> FALSE, auto |-> TRUE]
        /\ starting' = booted' /\ aborts' = booted'
    BY <1>1, <2>1, <2>3, ReserveFacts
  <2>5. ChannelTypes'
    <3>1. starting' \in 0..booted' /\ aborts' \in 0..booted' /\ tasks' \in 0..booted'
      BY <2>1, <2>4
    <3>. QED
      BY <1>1, <2>4, <3>1 DEF ChannelTypes
  <2>6. ASSUME ~stopHook PROVE AccountInv'
    <3>1. AccountInv /\ tasks = b /\ b # 0 /\ starting = 0 /\ ~manuallyStopped
      BY <1>1, <1>3, <2>6 DEF ChannelInv, AccountInv, OneBoot
    <3>2. \A s \in Stops : stops[s].phase # "waiting"
      BY <3>1 DEF AccountInv, StopsOK
    <3>3. \A c \in 1..booted : w[c].phase \notin Booting \cup Tasked
      BY <1>1, <2>3, <3>1 DEF AccountInv, OneBoot, Booting, Tasked
    <3>4. (\A c \in 1..booted' : c \in 1..booted \/ c = booted') /\ booted' \notin 1..booted /\ booted' # 0
      BY <2>4
    <3>5. OneBoot'
      BY <2>1, <2>4, <3>3, <3>4 DEF OneBoot, Booting, Tasked
    <3>6. AbortInPlace'
      BY <2>4, <3>3, <3>4 DEF AbortInPlace, GoesOn
    <3>7. StoppedStays'
      BY <1>1, <3>1 DEF StoppedStays
    <3>8. restartAttempts <= MaxRestarts
      BY <1>1, <3>1 DEF AccountInv, AttemptsOK, Counting
    <3>9. AttemptsOK'
      BY <1>1, <3>1, <3>8 DEF AccountInv, AttemptsOK
    <3>10. StopsOK'
      BY <1>1, <3>1, <3>2 DEF AccountInv, StopsOK
    <3>. QED
      BY <3>5, <3>6, <3>7, <3>9, <3>10 DEF AccountInv
  <2>. QED
    BY <1>1, <2>5, <2>6 DEF ChannelInv
<1>. QED
  BY <1>2, <1>3

-----------------------------------------------------------------------------
(* A stop aborts whatever is active, and takes the task in the map. *)
LEMMA StopChannelKeepsInv ==
  ASSUME ChannelAssumption, ChannelInv, NEW s \in Stops, StopChannel(s)
  PROVE  ChannelInv'
<1>. DEFINE stop == [phase |-> IF stopHook THEN "hook" ELSE "waiting", task |-> tasks]
<1>1. /\ manuallyStopped' = TRUE /\ stops[s].phase = "none" /\ stops' = [stops EXCEPT ![s] = stop] /\ ChannelTypes
      /\ boots' = [b \in 1..booted |-> IF b = aborts THEN [boots[b] EXCEPT !.aborted = TRUE] ELSE boots[b]]
      /\ UNCHANGED <<stopHook, booted, tasks, starting, aborts, restartAttempts>>
  BY DEF StopChannel, ChannelInv
<1>2. stop \in [phase : {"none", "hook", "waiting"}, task : 0..MaxBoots]
  BY <1>1 DEF ChannelTypes, ChannelAssumption
<1>3. stops' \in [Stops -> [phase : {"none", "hook", "waiting"}, task : 0..MaxBoots]]
      /\ stops'[s] = stop /\ \A r \in Stops : r # s => stops'[r] = stops[r]
  BY <1>1, <1>2 DEF ChannelTypes
<1>4. boots' \in [1..booted' -> Boot]
      /\ \A b \in 1..booted : /\ boots'[b].phase = boots[b].phase /\ boots'[b].auto = boots[b].auto
                              /\ boots'[b].aborted <=> b = aborts \/ boots[b].aborted
  <2>1. \A b \in 1..booted : boots[b] \in Boot
    BY <1>1 DEF ChannelTypes
  <2>2. \A b \in 1..booted : [boots[b] EXCEPT !.aborted = TRUE] \in Boot
    BY <2>1 DEF Boot
  <2>. QED
    BY <1>1, <2>1, <2>2 DEF Boot
<1>5. ChannelTypes'
  BY <1>1, <1>3, <1>4 DEF ChannelTypes
<1>6. ASSUME ~stopHook PROVE AccountInv'
  <2>1. AccountInv /\ stop.phase = "waiting" /\ stop.task = tasks
    BY <1>6 DEF ChannelInv
  <2>2. \A b \in 1..booted : ~GoesOn(boots'[b])
    BY <1>4, <2>1 DEF AccountInv, AbortInPlace, GoesOn
  <2>3. OneBoot'
    BY <1>1, <1>4, <2>1 DEF AccountInv, OneBoot
  <2>4. AbortInPlace'
    BY <1>1, <2>2 DEF AbortInPlace
  <2>5. StoppedStays'
    BY <1>1, <2>2 DEF StoppedStays, Live, GoesOn, Booting, Tasked
  <2>6. AttemptsOK'
    BY <1>1, <1>4, <2>1 DEF AccountInv, AttemptsOK, Counting
  <2>7. StopsOK'
    <3>1. \A r \in Stops : r # s => /\ stops[r].phase # "hook"
                                    /\ stops[r].phase = "waiting" =>
                                         stops[r].task = tasks \/ (tasks = 0 /\ At(stops[r].task, "over"))
      BY <2>1 DEF AccountInv, StopsOK
    <3>2. \A r \in Stops : At(stops[r].task, "over") => At(stops[r].task, "over")'  \/ r = s
      BY <1>1, <1>3, <1>4 DEF At
    <3>. HIDE DEF stop
    <3>. QED
      BY <1>1, <1>3, <2>1, <2>2, <3>1, <3>2 DEF StopsOK
  <2>. QED
    BY <2>3, <2>4, <2>5, <2>6, <2>7 DEF AccountInv
<1>. QED
  BY <1>1, <1>5, <1>6 DEF ChannelInv

LEMMA StopHookReturnsKeepsInv ==
  ASSUME ChannelAssumption, ChannelInv, NEW s \in Stops, NEW phase \in {"none", "waiting"}, StopHookReturns(s, phase)
  PROVE  ChannelInv'
<1>. DEFINE stop == [phase |-> phase, task |-> IF phase = "none" THEN 0 ELSE stops[s].task]
<1>1. /\ stops[s].phase = "hook" /\ stops' = [stops EXCEPT ![s] = stop] /\ ChannelTypes
      /\ UNCHANGED <<stopHook, boots, booted, tasks, starting, aborts, manuallyStopped, restartAttempts>>
  BY DEF StopHookReturns, ChannelInv, ChannelTypes
<1>2. stop \in [phase : {"none", "hook", "waiting"}, task : 0..MaxBoots]
  BY <1>1 DEF ChannelTypes, ChannelAssumption
<1>3. ChannelTypes'
  BY <1>1, <1>2 DEF ChannelTypes
<1>4. stopHook
  BY <1>1 DEF ChannelInv, AccountInv, StopsOK
<1>. QED
  BY <1>1, <1>3, <1>4 DEF ChannelInv

(* A stop that ends finds no task in the map and nothing active. *)
LEMMA StopEndsKeepsInv ==
  ASSUME ChannelAssumption, ChannelInv, NEW s \in Stops, StopEnds(s)
  PROVE  ChannelInv'
<1>. DEFINE stop == [phase |-> "none", task |-> 0]
<1>1. /\ stops[s].phase = "waiting" /\ (stops[s].task # 0 => At(stops[s].task, "over"))
      /\ stops' = [stops EXCEPT ![s] = stop] /\ tasks' = 0 /\ aborts' = 0 /\ ChannelTypes
      /\ UNCHANGED <<stopHook, boots, booted, starting, manuallyStopped, restartAttempts>>
  BY DEF StopEnds, CanFinish, ChannelInv
<1>2. stop \in [phase : {"none", "hook", "waiting"}, task : 0..MaxBoots]
  BY DEF ChannelAssumption
<1>3. /\ stops' \in [Stops -> [phase : {"none", "hook", "waiting"}, task : 0..MaxBoots]]
      /\ stops'[s].phase = "none" /\ \A r \in Stops : r # s => stops'[r] = stops[r]
  BY <1>1, <1>2 DEF ChannelTypes
<1>4. ChannelTypes'
  <2>1. tasks' \in 0..booted /\ aborts' \in 0..booted
    BY <1>1 DEF ChannelTypes, ChannelAssumption
  <2>. QED
    BY <1>1, <1>3, <2>1 DEF ChannelTypes
<1>5. ASSUME ~stopHook PROVE AccountInv'
  <2>1. AccountInv /\ \A b \in 1..booted : ~GoesOn(boots[b])
    BY <1>1, <1>5 DEF ChannelInv, AccountInv, StopsOK
  <2>2. tasks = 0
    BY <1>1, <2>1 DEF AccountInv, StopsOK, OneBoot, At, Tasked
  <2>3. OneBoot'
    BY <1>1, <2>1, <2>2 DEF AccountInv, OneBoot
  <2>4. AbortInPlace'
    BY <1>1, <2>1 DEF AbortInPlace
  <2>5. StoppedStays' /\ AttemptsOK'
    BY <1>1, <2>1 DEF AccountInv, StoppedStays, Live, AttemptsOK
  <2>6. StopsOK'
    BY <1>1, <1>3, <2>1, <2>2 DEF AccountInv, StopsOK, At
  <2>. QED
    BY <2>3, <2>4, <2>5, <2>6 DEF AccountInv
<1>. QED
  BY <1>1, <1>4, <1>5 DEF ChannelInv

LEMMA ResetKeepsInv ==
  ASSUME ChannelAssumption, ChannelInv, ResetRestartAttempts
  PROVE  ChannelInv'
<1>1. /\ restartAttempts' = 0 /\ ChannelTypes
      /\ UNCHANGED <<stopHook, boots, booted, tasks, starting, aborts, manuallyStopped, stops>>
  BY DEF ResetRestartAttempts, ChannelInv
<1>2. ChannelTypes'
  BY <1>1 DEF ChannelTypes
<1>3. ASSUME ~stopHook PROVE AccountInv'
  <2>1. AccountInv
    BY <1>3 DEF ChannelInv
  <2>2. AttemptsOK'
    BY <1>1 DEF AttemptsOK, ChannelAssumption
  <2>. QED
    BY <1>1, <2>1, <2>2 DEF AccountInv, OneBoot, AbortInPlace, StoppedStays, Live, StopsOK, At
<1>. QED
  BY <1>1, <1>2, <1>3 DEF ChannelInv

-----------------------------------------------------------------------------
LEMMA ChannelInitInv == ChannelAssumption /\ ChannelInit => ChannelInv
<1>. SUFFICES ASSUME ChannelAssumption, ChannelInit PROVE ChannelInv
  OBVIOUS
<1>1. /\ booted = 0 /\ 1..booted = {} /\ tasks = 0 /\ starting = 0 /\ aborts = 0 /\ restartAttempts = 0
      /\ manuallyStopped = FALSE /\ stopHook \in BOOLEAN
      /\ \A s \in Stops : stops[s].phase = "none"
  BY DEF ChannelInit
<1>2. boots \in [1..booted -> Boot]
  BY <1>1 DEF ChannelInit
<1>3. stops \in [Stops -> [phase : {"none", "hook", "waiting"}, task : 0..MaxBoots]]
  BY DEF ChannelInit, ChannelAssumption
<1>4. /\ booted \in 0..MaxBoots /\ tasks \in 0..booted /\ starting \in 0..booted /\ aborts \in 0..booted
      /\ restartAttempts \in Nat
  BY <1>1 DEF ChannelAssumption
<1>5. AttemptsOK
  BY <1>1 DEF AttemptsOK, ChannelAssumption
<1>7. ChannelTypes
  BY <1>1, <1>2, <1>3, <1>4 DEF ChannelTypes
<1>6. AccountInv
  BY <1>1, <1>5 DEF AccountInv, OneBoot, AbortInPlace, StoppedStays, StopsOK
<1>. QED
  BY <1>6, <1>7 DEF ChannelInv

LEMMA ChannelNextInv == ChannelAssumption /\ ChannelInv /\ [ChannelNext]_channelVars => ChannelInv'
<1>. SUFFICES ASSUME ChannelAssumption, ChannelInv, [ChannelNext]_channelVars PROVE ChannelInv'
  OBVIOUS
<1>1. ASSUME NEW b \in 1..MaxBoots, BootFails(b) PROVE ChannelInv'
  <2>1. /\ At(b, "configuring") \/ At(b, "bootstrapping")
        /\ BootGoes(b, "failing") /\ GateOpens(b)
        /\ UNCHANGED <<stopHook, booted, tasks, aborts, manuallyStopped, restartAttempts, stops>>
    BY <1>1 DEF BootFails
  <2>2. manuallyStopped \in BOOLEAN
    BY DEF ChannelInv, ChannelTypes
  <2>. QED
    BY <2>1, <2>2, BootFailsKeepsInv
<1>2. ASSUME NEW b \in 1..MaxBoots, BootGoesOn(b) PROVE ChannelInv'
  BY <1>1, <1>2, IsConfiguredKeepsInv, FailedBootKeepsInv, BootstrappedKeepsInv, ProviderCleanedUpKeepsInv,
     BackoffAbortedKeepsInv, BackoffEndsKeepsInv DEF BootGoesOn
<1>3. ASSUME NEW s \in Stops, StopChannel(s) \/ StopEnds(s) \/ \E phase \in {"none", "waiting"} : StopHookReturns(s, phase)
      PROVE  ChannelInv'
  BY <1>3, StopChannelKeepsInv, StopEndsKeepsInv, StopHookReturnsKeepsInv
<1>4. CASE UNCHANGED channelVars
  <2>1. UNCHANGED <<stopHook, boots, booted, tasks, starting, aborts, manuallyStopped, restartAttempts, stops>>
    BY <1>4 DEF channelVars
  <2>2. ChannelTypes'
    BY <2>1 DEF ChannelInv, ChannelTypes
  <2>3. AccountInv => AccountInv'
    BY <2>1 DEF AccountInv, OneBoot, AbortInPlace, StoppedStays, Live, AttemptsOK, StopsOK, At
  <2>. QED
    BY <2>1, <2>2, <2>3 DEF ChannelInv
<1>. QED
  BY <1>2, <1>3, <1>4, StartKeepsInv, ResetKeepsInv, ProviderExitsKeepsInv DEF ChannelNext

LEMMA ChannelInvAlways == ChannelSpec => []ChannelInv
<1>1. ChannelInit => ChannelInv
  BY ChannelInitInv, ChannelAssumption
<1>2. ChannelInv /\ [ChannelNext]_channelVars => ChannelInv'
  BY ChannelNextInv, ChannelAssumption
<1>. QED
  BY <1>1, <1>2, PTL DEF ChannelSpec

(* The maps, boots and stops of the account keep their types, and its       *)
(* restarts are counted no further than one past MAX_RESTART_ATTEMPTS.     *)
THEOREM ChannelTypeCorrect == ChannelSpec => []ChannelTypeOK
<1>1. ChannelInv => ChannelTypeOK
  BY DEF ChannelInv, ChannelTypes, Boot, AccountInv, AttemptsOK, ChannelTypeOK
<1>. QED
  BY <1>1, ChannelInvAlways, PTL

(* However starts, stops and automatic restarts overlap, the start gate,    *)
(* the task and the abort controller in the maps are those of one boot:    *)
(* no two live providers, and none after a stop.                           *)
THEOREM OneProviderAlways == ChannelSpec => []OneProvider
<1>1. ChannelInv => OneProvider
  <2>. SUFFICES ASSUME ChannelInv, ~stopHook
                PROVE  /\ \A b, c \in 1..booted : Live(b) /\ Live(c) => b = c
                       /\ manuallyStopped => \A b \in 1..booted : ~Live(b)
    BY DEF OneProvider
  <2>1. AbortInPlace /\ StoppedStays
    BY DEF ChannelInv, AccountInv
  <2>2. \A b \in 1..booted : Live(b) => GoesOn(boots[b])
    BY DEF Live, GoesOn, Booting, Tasked
  <2>. QED
    BY <2>1, <2>2 DEF AbortInPlace, StoppedStays
<1>. QED
  BY <1>1, ChannelInvAlways, PTL

-----------------------------------------------------------------------------
(* A behaviour of the services side by side is one of each of them. *)
LEMMA ServicesImplyEach ==
  ServicesSpec => WakeSpec /\ ApprovalsSpec /\ KeyedQueueSpec /\ LockSpec /\ ChannelSpec
<1>1. ServicesInit => WakeInit /\ ApprovalsInit /\ KeyedInit /\ LockInit /\ ChannelInit
  BY DEF ServicesInit
<1>2. ASSUME [ServicesNext]_servicesVars
      PROVE  /\ [WakeNext]_wakeVars /\ [ApprovalsNext]_approvalVars /\ [KeyedNext]_keyedVars
             /\ [LockNext]_lockVars /\ [ChannelNext]_channelVars
  <2>1. CASE UNCHANGED servicesVars
    BY <2>1 DEF servicesVars
  <2>2. CASE WakeMoves
    BY <2>2 DEF WakeMoves
  <2>3. CASE ApprovalsMove
    BY <2>3 DEF ApprovalsMove
  <2>4. CASE QueueMoves
    BY <2>4 DEF QueueMoves
  <2>5. CASE LockMoves
    BY <2>5 DEF LockMoves
  <2>6. CASE ChannelMoves
    BY <2>6 DEF ChannelMoves
  <2>. QED
    BY <1>2, <2>1, <2>2, <2>3, <2>4, <2>5, <2>6 DEF ServicesNext
<1>. QED
  BY <1>1, <1>2, PTL DEF ServicesSpec, WakeSpec, ApprovalsSpec, KeyedQueueSpec, LockSpec, ChannelSpec

(* Whatever the services of the process do, each of them keeps its types. *)
THEOREM ServicesTypeCorrect == ServicesSpec => []ServicesTypeOK
<1>1. WakeTypeOK /\ ApprovalsTypeOK /\ KeyedTypeOK /\ LockTypeOK /\ ChannelTypeOK => ServicesTypeOK
  BY DEF ServicesTypeOK
<1>. QED
  BY <1>1, ServicesImplyEach, WakeTypeCorrect, ApprovalsTypeCorrect, KeyedTypeCorrect, LockTypeCorrect,
     ChannelTypeCorrect, PTL

(* The services of one process, whatever order the event loop runs them in, *)
(* keep each other's safety properties: they share no variable, and each   *)
(* of them is a behaviour of its own specification.                        *)
THEOREM ServicesSafe ==
  ServicesSpec => [](/\ NoWakeForgotten /\ BatchesDoNotOverlap
                     /\ RunsAsDecided /\ TimersHitTheirEntry
                     /\ ExclusiveHolders /\ LiveLockIsHeld
                     /\ OneProvider)
  BY ServicesImplyEach, NoWakeForgottenAlways, BatchesDoNotOverlapAlways, RunsAsDecidedAlways,
     TimersHitTheirEntryAlways, ExclusiveHoldersAlways, LiveLockIsHeldAlways, OneProviderAlways, PTL
=============================================================================
