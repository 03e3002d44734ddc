-------------------------- MODULE SessionWriteLock --------------------------
(***************************************************************************)
(* agents/session-write-lock.ts: processes exclude each other from a       *)
(* session file by a lock file, created exclusively and then written with  *)
(* the pid of its owner; the calls of a process share what its map         *)
(* HELD_LOCKS has.  A lock file that looks stale is removed by the next    *)
(* process that wants it.                                                  *)
(*                                                                         *)
(* A process that dies is replaced by another instance of it.  Removing a  *)
(* file is removing whatever is at its path at that moment.                *)
(***************************************************************************)
EXTENDS Integers, FiniteSets

CONSTANTS Procs, Calls,
          processOf,     \* the process of each call
          MaxCrashes     \* bound on the deaths of processes

NoCall == "no call"

ASSUME SessionWriteLockAssumption ==
  /\ IsFiniteSet(Calls) /\ NoCall \notin Calls
  /\ processOf \in [Calls -> Procs] /\ MaxCrashes \in Nat

VARIABLES
  lockFile,    \* its text, the call that made it, whose pid that is now, older than staleMs
  held,        \* per process: its entry of HELD_LOCKS, by the call that made it, and its count
  call,        \* per call: where it is, whether its lock is the process's entry
  judged,      \* per call: the file it is about to remove is the one it found stale
  closing,     \* the calls whose file is being closed and removed
  crashes,     \* number of processes that died
  starttime,   \* the platform tells the start time of a process
  disturbed    \* a lock was taken from a working process, see ExclusiveHolders

lockVars == <<lockFile, held, call, judged, closing, crashes, starttime, disturbed>>

NoFile == [text |-> "none", by |-> NoCall, pid |-> "dead", old |-> FALSE]
NotHeld == [by |-> NoCall, count |-> 0]
CallPhases == {"idle", "opening", "writing", "written", "failing", "holding", "reading", "stat",
               "reclaiming", "cleaning"}

LockTypeOK ==
  /\ lockFile \in [text : {"none", "empty", "payload"}, by : Calls \cup {NoCall},
                   pid : {"live", "dead", "reused"}, old : BOOLEAN]
  /\ held \in [Procs -> [by : Calls \cup {NoCall}, count : 0..Cardinality(Calls)]]
  /\ call \in [Calls -> [phase : CallPhases, mine : BOOLEAN]]
  /\ judged \in [Calls -> BOOLEAN]
  /\ closing \subseteq Calls
  /\ crashes \in 0..MaxCrashes /\ starttime \in BOOLEAN /\ disturbed \in BOOLEAN

LockInit ==
  /\ lockFile = NoFile
  /\ held = [p \in Procs |-> NotHeld]
  /\ call = [c \in Calls |-> [phase |-> "idle", mine |-> FALSE]]
  /\ judged = [c \in Calls |-> FALSE]
  /\ closing = {}
  /\ crashes = 0
  /\ starttime \in BOOLEAN
  /\ disturbed = FALSE

Is(c, phase) == call[c].phase = phase
Goes(c, phase) == call' = [call EXCEPT ![c].phase = phase]
FileExists == lockFile.text # "none"

(* The file goes, and with it what others found out about it. *)
FileIsRemoved == lockFile' = NoFile /\ judged' = [c \in Calls |-> FALSE]

(* inspectLockPayload and shouldTreatAsOrphanSelfLock. *)
PidIsStale == lockFile.pid = "dead" \/ (lockFile.pid = "reused" /\ starttime)

OrphanSelf(p) ==
  /\ lockFile.by # NoCall /\ processOf[lockFile.by] = p /\ lockFile.pid # "dead"
  /\ ~starttime /\ held[p] = NotHeld

-----------------------------------------------------------------------------
(* acquireSessionWriteLock: the entry of the process, or the loop, of a     *)
(* call that may not share it (allowReentrant) or finds none.              *)
AcquireReentrant(c) ==
  LET p == processOf[c] IN
  /\ Is(c, "idle") /\ c \notin closing /\ held[p] # NotHeld
  /\ held' = [held EXCEPT ![p].count = @ + 1]
  /\ call' = [call EXCEPT ![c] = [phase |-> "holding", mine |-> TRUE]]
  /\ UNCHANGED <<lockFile, judged, closing, crashes, starttime, disturbed>>

Acquire(c) ==
  /\ Is(c, "idle") /\ c \notin closing
  /\ Goes(c, "opening")
  /\ UNCHANGED <<lockFile, held, judged, closing, crashes, starttime, disturbed>>

(* open(lockPath, "wx"): creates the file or fails with EEXIST. *)
OpenLockFile(c) ==
  /\ Is(c, "opening")
  /\ IF FileExists
     THEN Goes(c, "reading") /\ UNCHANGED lockFile
     ELSE /\ Goes(c, "writing")
          /\ lockFile' = [text |-> "empty", by |-> c, pid |-> "live", old |-> FALSE]
  /\ UNCHANGED <<held, judged, closing, crashes, starttime, disturbed>>

TimesOut(c) ==
  /\ Is(c, "opening")
  /\ Goes(c, "idle")
  /\ UNCHANGED <<lockFile, held, judged, closing, crashes, starttime, disturbed>>

(* The payload is on disk, in the file the call made. *)
PayloadWritten(c) ==
  /\ Is(c, "writing")
  /\ Goes(c, "written")
  /\ lockFile' = IF lockFile.by = c THEN [lockFile EXCEPT !.text = "payload"] ELSE lockFile
  /\ UNCHANGED <<held, judged, closing, crashes, starttime, disturbed>>

PayloadFails(c) ==
  /\ Is(c, "writing")
  /\ Goes(c, "failing")
  /\ UNCHANGED <<lockFile, held, judged, closing, crashes, starttime, disturbed>>

(* The failed call removes the lock file and throws. *)
FailedLockRemoved(c) ==
  /\ Is(c, "failing")
  /\ Goes(c, "idle")
  /\ FileIsRemoved
  /\ UNCHANGED <<held, closing, crashes, starttime, disturbed>>

(* The write returns: HELD_LOCKS.set. *)
Acquired(c) ==
  LET p == processOf[c] IN
  /\ Is(c, "written")
  /\ held' = [held EXCEPT ![p] = [by |-> c, count |-> 1]]
  /\ call' = [d \in Calls |->
       IF d = c THEN [phase |-> "holding", mine |-> TRUE]
       ELSE IF processOf[d] = p THEN [call[d] EXCEPT !.mine = FALSE] ELSE call[d]]
  /\ UNCHANGED <<lockFile, judged, closing, crashes, starttime, disturbed>>

(* Mutant: a payload that cannot be read is stale at once. *)
ReadPayload_NoFallback(c) ==
  /\ Is(c, "reading")
  /\ LET stale == PidIsStale \/ lockFile.old \/ OrphanSelf(processOf[c]) IN
       IF lockFile.text = "payload" /\ ~stale
       THEN Goes(c, "opening") /\ UNCHANGED judged
       ELSE Goes(c, "reclaiming") /\ judged' = [judged EXCEPT ![c] = TRUE]
  /\ UNCHANGED <<lockFile, held, closing, crashes, starttime, disturbed>>

(* After EEXIST: a payload is judged, a missing one is left to the mtime. *)
ReadPayload(c) ==
  /\ Is(c, "reading")
  /\ LET stale == PidIsStale \/ lockFile.old \/ OrphanSelf(processOf[c]) IN
       CASE lockFile.text # "payload" -> Goes(c, "stat") /\ UNCHANGED judged
         [] lockFile.text = "payload" /\ stale ->
              Goes(c, "reclaiming") /\ judged' = [judged EXCEPT ![c] = TRUE]
         [] OTHER -> Goes(c, "opening") /\ UNCHANGED judged
  /\ UNCHANGED <<lockFile, held, closing, crashes, starttime, disturbed>>

StatLockFile(c) ==
  /\ Is(c, "stat")
  /\ IF FileExists /\ lockFile.old
     THEN Goes(c, "reclaiming") /\ judged' = [judged EXCEPT ![c] = TRUE]
     ELSE Goes(c, "opening") /\ UNCHANGED judged
  /\ UNCHANGED <<lockFile, held, closing, crashes, starttime, disturbed>>

(* cleanStaleLockFiles: a missing payload is stale, whatever its mtime. *)
CleanReads(c) ==
  /\ Is(c, "idle") /\ FileExists
  /\ lockFile.text = "empty" \/ PidIsStale \/ lockFile.old
  /\ Goes(c, "cleaning")
  /\ judged' = [judged EXCEPT ![c] = lockFile.text = "payload"]
  /\ UNCHANGED <<lockFile, held, closing, crashes, starttime, disturbed>>

(* The reclaim goes on with the loop, the cleaning is over. *)
RemoveStale(c) ==
  /\ Is(c, "reclaiming") \/ Is(c, "cleaning")
  /\ Goes(c, IF Is(c, "reclaiming") THEN "opening" ELSE "idle")
  /\ FileIsRemoved
  /\ disturbed' = (disturbed \/ (FileExists /\ ~judged[c]))
  /\ UNCHANGED <<held, closing, crashes, starttime>>

-----------------------------------------------------------------------------
(* The entry of p leaves HELD_LOCKS, before its file is closed and removed. *)
EntryDropped(p) ==
  /\ held' = [held EXCEPT ![p] = NotHeld]
  /\ closing' = closing \cup {held[p].by}

Disowned(calls, p) ==
  [d \in Calls |-> IF processOf[d] = p THEN [calls[d] EXCEPT !.mine = FALSE] ELSE calls[d]]

(* Mutant: the last release keeps the entry of the map. *)
Release_KeepsEntry(c) ==
  /\ Is(c, "holding")
  /\ call' = [call EXCEPT ![c] = [phase |-> "idle", mine |-> FALSE]]
  /\ UNCHANGED <<held, lockFile, closing, judged, crashes, starttime, disturbed>>

(* release: of an entry that is not the process's any more, of one of       *)
(* several holders, of the last.                                           *)
Release(c) ==
  LET p == processOf[c]
      left == [call EXCEPT ![c] = [phase |-> "idle", mine |-> FALSE]] IN
  /\ Is(c, "holding")
  /\ CASE ~call[c].mine -> call' = left /\ UNCHANGED <<held, closing>>
       [] call[c].mine /\ held[p].count > 1 ->
            call' = left /\ held' = [held EXCEPT ![p].count = @ - 1] /\ UNCHANGED closing
       [] OTHER -> EntryDropped(p) /\ call' = Disowned(left, p)
  /\ UNCHANGED <<lockFile, judged, crashes, starttime, disturbed>>

(* The end of a release: the file has been closed and is removed. *)
LockFileRemoved(c) ==
  /\ c \in closing
  /\ closing' = closing \ {c}
  /\ FileIsRemoved
  /\ UNCHANGED <<held, call, crashes, starttime, disturbed>>

(* runLockWatchdogCheck: the lock was held longer than maxHoldMs. *)
WatchdogReleases(p) ==
  /\ held[p] # NotHeld
  /\ EntryDropped(p)
  /\ call' = Disowned(call, p)
  /\ disturbed' = TRUE
  /\ UNCHANGED <<lockFile, judged, crashes, starttime>>

(* handleTerminationSignal in a process whose own handler keeps it alive. *)
ReleaseAllLocksSync(p) ==
  /\ held[p] # NotHeld
  /\ held' = [held EXCEPT ![p] = NotHeld]
  /\ call' = Disowned(call, p)
  /\ FileIsRemoved
  /\ disturbed' = TRUE
  /\ UNCHANGED <<closing, crashes, starttime>>

(* The process dies without its exit handler; its pid may be given to its   *)
(* next instance.                                                          *)
Dies(p, pid) ==
  /\ crashes < MaxCrashes
  /\ crashes' = crashes + 1
  /\ held' = [held EXCEPT ![p] = NotHeld]
  /\ call' = [c \in Calls |-> IF processOf[c] = p THEN [phase |-> "idle", mine |-> FALSE] ELSE call[c]]
  /\ closing' = {c \in closing : processOf[c] # p}
  /\ lockFile' = IF FileExists /\ processOf[lockFile.by] = p THEN [lockFile EXCEPT !.pid = pid]
                 ELSE lockFile
  /\ UNCHANGED <<judged, starttime, disturbed>>

(* staleMs have passed since the file was made and written. *)
FileAges ==
  /\ FileExists /\ ~lockFile.old
  /\ lockFile' = [lockFile EXCEPT !.old = TRUE]
  /\ disturbed' = (disturbed \/ lockFile.pid = "live")
  /\ UNCHANGED <<held, call, judged, closing, crashes, starttime>>

LockNext ==
  \/ \E c \in Calls :
       \/ AcquireReentrant(c) \/ Acquire(c) \/ TimesOut(c)
       \/ OpenLockFile(c) \/ PayloadWritten(c) \/ PayloadFails(c) \/ FailedLockRemoved(c) \/ Acquired(c)
       \/ ReadPayload(c) \/ StatLockFile(c) \/ CleanReads(c) \/ RemoveStale(c)
       \/ Release(c) \/ LockFileRemoved(c)
  \/ \E p \in Procs :
       \/ WatchdogReleases(p) \/ ReleaseAllLocksSync(p)
       \/ \E pid \in {"dead", "reused"} : Dies(p, pid)
  \/ FileAges

LockSpec == LockInit /\ [][LockNext]_lockVars

-----------------------------------------------------------------------------
(* Those who hold the session's lock are calls of one process that share    *)
(* its entry.  Excused, because the code lets it happen: a lock held past  *)
(* maxHoldMs or staleMs, the release of every lock at a signal the process *)
(* survives, a removal that hits another file than the one found stale, a  *)
(* cleaning that finds a file before its payload is written, and a         *)
(* platform without start times, where a process takes its own new file    *)
(* for an orphan.                                                          *)
ExclusiveHolders ==
  starttime /\ ~disturbed =>
    \A c, d \in Calls : Is(c, "holding") /\ Is(d, "holding") =>
      processOf[c] = processOf[d] /\ call[c].mine

(* Nobody waits for a lock that nobody has: when a lock file has the pid of *)
(* a running process, that process has an entry, whose count is the number *)
(* of its holders, or a call that is about to enter or to remove the file. *)
LiveLockIsHeld ==
  lockFile.text = "payload" /\ lockFile.pid = "live" =>
    LET calls == {c \in Calls : processOf[c] = processOf[lockFile.by]}
        entry == held[processOf[lockFile.by]] IN
      \/ entry # NotHeld /\ entry.count = Cardinality({c \in calls : call[c].mine})
      \/ \E c \in calls : Is(c, "written") \/ c \in closing
=============================================================================
