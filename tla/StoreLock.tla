----------------------------- MODULE StoreLock -----------------------------
(***************************************************************************)
(* internal/lock: the single-instance lock of a store directory.  A        *)
(* process opens (or creates) the file LOCK, takes a non-blocking flock on *)
(* the open file and writes its pid into it.  A process whose flock fails  *)
(* reads the pid from the file at the path; when that process is dead it   *)
(* removes the path and starts over, else it gives up.                     *)
(*                                                                         *)
(* flock locks the inode, os.Remove unlinks the path, and the pid is read  *)
(* through the path: the three need not be the same file.  Release keeps   *)
(* the old pid in the file, so every holder inherits a stale one until it  *)
(* has written its own.                                                    *)
(*                                                                         *)
(* One Process is one run of the program, with a pid of its own; pids are  *)
(* not reused.  The kernel's flock is external.                            *)
(***************************************************************************)
EXTENDS Functions

CONSTANTS Process,     \* the runs of the program that use this store
          Inode,       \* the files that LOCK may come to name
          None         \* no process, no inode, no pid

ASSUME StoreLockAssumption ==
  /\ None \notin Process /\ None \notin Inode

VARIABLES
  link,      \* the inode the path LOCK names, or None
  content,   \* the pid in each inode, or None when it is empty
  flock,     \* the process that holds the kernel lock of each inode, or None
  fd,        \* the inode each process has open, or None
  pc,        \* where each process is in its life
  seen       \* the pid each process has read from the path

vars == <<link, content, flock, fd, pc, seen>>

(* "open" .. "judging" are inside Acquire, "held" has returned a Lock *)
Acquiring == {"open", "flock", "reading", "judging", "removing", "truncate", "write"}

Alive(p) == pc[p] \notin {"unborn", "dead"}

Holds(p) == pc[p] \in {"truncate", "write", "held"}

Goes(p, from, to) == pc[p] = from /\ pc' = [pc EXCEPT ![p] = to]
-----------------------------------------------------------------------------
Init ==
  /\ link = None
  /\ content = [i \in Inode |-> None]
  /\ flock = [i \in Inode |-> None]
  /\ fd = [p \in Process |-> None]
  /\ pc = [p \in Process |-> "unborn"]
  /\ seen = [p \in Process |-> None]

(* a command starts and calls Acquire, or calls it again after a Release
   (doctor tries the lock before it connects) *)
Start(p) ==
  /\ Goes(p, "unborn", "open") \/ Goes(p, "released", "open")
  /\ UNCHANGED <<link, content, flock, fd, seen>>

(* os.OpenFile with O_CREATE: the file at the path, or a new empty one in any
   inode that nobody has open *)
OpenLinked(p) ==
  /\ link # None
  /\ Goes(p, "open", "flock")
  /\ fd' = [fd EXCEPT ![p] = link]
  /\ UNCHANGED <<link, content, flock, seen>>

OpenNew(p) ==
  /\ link = None
  /\ Goes(p, "open", "flock")
  /\ \E i \in Inode \ Range(fd) :
       /\ link' = i
       /\ fd' = [fd EXCEPT ![p] = i]
       /\ content' = [content EXCEPT ![i] = None]
  /\ UNCHANGED <<flock, seen>>

FlockOK(p) ==
  /\ Goes(p, "flock", "truncate")
  /\ flock[fd[p]] = None
  /\ flock' = [flock EXCEPT ![fd[p]] = p]
  /\ UNCHANGED <<link, content, fd, seen>>

FlockBusy(p) ==
  /\ Goes(p, "flock", "reading")
  /\ flock[fd[p]] # None
  /\ UNCHANGED <<link, content, flock, fd, seen>>

(* os.ReadFile reads whatever the path names by now, and the descriptor is
   closed; no file, an empty one and one without a pid read the same *)
ReadPid(p) ==
  /\ Goes(p, "reading", "judging")
  /\ seen' = [seen EXCEPT ![p] = IF link = None THEN None ELSE content[link]]
  /\ fd' = [fd EXCEPT ![p] = None]
  /\ UNCHANGED <<link, content, flock>>

(* parseLockPID found a pid and processAlive says that process is gone *)
Stale(p) == seen[p] # None /\ ~Alive(seen[p])

(* mutant: the pid is checked only for being there *)
JudgeAnyStale(p) ==
  /\ Goes(p, "judging", "removing")
  /\ seen[p] # None
  /\ UNCHANGED <<link, content, flock, fd, seen>>

JudgeStale(p) ==
  /\ Goes(p, "judging", "removing")
  /\ Stale(p)
  /\ UNCHANGED <<link, content, flock, fd, seen>>

(* mutant: wait for the holder instead of failing *)
JudgeRetry(p) ==
  /\ Goes(p, "judging", "open")
  /\ ~Stale(p)
  /\ UNCHANGED <<link, content, flock, fd, seen>>

JudgeLocked(p) ==
  /\ Goes(p, "judging", "refused")
  /\ ~Stale(p)
  /\ UNCHANGED <<link, content, flock, fd, seen>>

(* os.Remove(path), whichever file it names by now, and Acquire again *)
Remove(p) ==
  /\ Goes(p, "removing", "open")
  /\ link' = None
  /\ UNCHANGED <<content, flock, fd, seen>>

Truncate(p) ==
  /\ Goes(p, "truncate", "write")
  /\ content' = [content EXCEPT ![fd[p]] = None]
  /\ UNCHANGED <<link, flock, fd, seen>>

WritePid(p) ==
  /\ Goes(p, "write", "held")
  /\ content' = [content EXCEPT ![fd[p]] = p]
  /\ UNCHANGED <<link, flock, fd, seen>>

(* the kernel drops a process's lock with its last descriptor *)
Unlock(p) ==
  /\ flock' = [i \in Inode |-> IF flock[i] = p THEN None ELSE flock[i]]
  /\ fd' = [fd EXCEPT ![p] = None]

(* mutant: Release tidies up the lock file *)
ReleaseRemoving(p) ==
  /\ Goes(p, "held", "released")
  /\ Unlock(p) /\ link' = None
  /\ UNCHANGED <<content, seen>>

Release(p) ==
  /\ Goes(p, "held", "released")
  /\ Unlock(p)
  /\ UNCHANGED <<link, content, seen>>

(* a process exits, or crashes anywhere *)
Die(p) ==
  /\ Alive(p)
  /\ pc' = [pc EXCEPT ![p] = "dead"]
  /\ Unlock(p)
  /\ UNCHANGED <<link, content, seen>>

AllOver == (\A p \in Process : ~Alive(p) /\ pc[p] # "unborn") /\ UNCHANGED vars

AcquireStep(p) ==
  \/ OpenLinked(p) \/ OpenNew(p) \/ FlockOK(p) \/ FlockBusy(p) \/ ReadPid(p)
  \/ JudgeStale(p) \/ JudgeLocked(p) \/ Remove(p) \/ Truncate(p) \/ WritePid(p)

Next == \/ \E p \in Process : Start(p) \/ AcquireStep(p) \/ Release(p) \/ Die(p)
        \/ AllOver

Spec == Init /\ [][Next]_vars

(* a process inside Acquire keeps running; nothing makes a holder release *)
FairSpec == Spec /\ \A p \in Process : WF_vars(AcquireStep(p))
-----------------------------------------------------------------------------
TypeOK ==
  /\ link \in Inode \cup {None}
  /\ content \in [Inode -> Process \cup {None}]
  /\ flock \in [Inode -> Process \cup {None}]
  /\ fd \in [Process -> Inode \cup {None}]
  /\ pc \in [Process -> Acquiring \cup {"unborn", "held", "refused", "released", "dead"}]
  /\ seen \in [Process -> Process \cup {None}]
  /\ \A p \in Process : fd[p] = None <=> pc[p] \notin {"flock", "reading", "truncate", "write", "held"}

(* docs/spec.md: at most one process at a time uses the store. *)
MutualExclusion == \A p, q \in Process : pc[p] = "held" /\ pc[q] = "held" => p = q

(* As long as no process that used the store has ended, the lock is a mutex:
   what breaks it is a dead process's pid, never the kernel lock itself. *)
MutexBeforeFirstDeath ==
  (\A p \in Process : pc[p] # "dead") => MutualExclusion

(***************************************************************************)
(* h holds the lock alone: its pid is in the file the path names, and      *)
(* nobody else has a lock, an unlinked file or another pid in hand.        *)
(***************************************************************************)
HoldsAlone(h) ==
  /\ pc[h] = "held" /\ fd[h] = link /\ link # None
  /\ flock[link] = h /\ content[link] = h
  /\ \A q \in Process \ {h} :
       /\ ~Holds(q) /\ pc[q] # "removing"
       /\ fd[q] \in {None, link}
       /\ pc[q] = "judging" => seen[q] \in {None, h}

(* Once a holder is alone it stays alone until it releases or ends: later
   arrivals are refused, however they interleave.  The window in which the
   lock can be stolen is the hand-over, before the new pid is written. *)
AloneUntilRelease ==
  [][\A h \in Process : HoldsAlone(h) => HoldsAlone(h)' \/ pc'[h] # "held"]_vars

(* Why: the kernel lock of a file belongs to the process that has it open. *)
LockInv ==
  /\ \A p \in Process : Holds(p) => flock[fd[p]] = p
  /\ \A i \in Inode : flock[i] # None => Holds(flock[i]) /\ fd[flock[i]] = i

(* And until somebody dies nobody removes, so there is one file only. *)
OneFile ==
  (\A p \in Process : pc[p] # "dead") =>
    \A p \in Process : pc[p] # "removing" /\ fd[p] \in {None, link}

(* A pid in a file, or read from one, is that of a command that started. *)
Written ==
  /\ \A i \in Inode : content[i] # None => pc[content[i]] # "unborn"
  /\ \A p \in Process : seen[p] # None => pc[seen[p]] # "unborn"

(* docs/spec.md: "If lock is held: fail fast".  Acquire returns, one way or
   the other, even when the holder never releases. *)
FailsFast == \A p \in Process : pc[p] = "open" ~> pc[p] \notin Acquiring
=============================================================================
