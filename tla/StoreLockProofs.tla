-------------------------- MODULE StoreLockProofs --------------------------
(***************************************************************************)
(* What is proved of StoreLock for any processes and any files.  The       *)
(* inductive invariant is TypeOK /\ LockInv /\ Written /\ OneFile: a       *)
(* kernel lock and the process that has the file open point at each other, *)
(* a pid that was read is that of a command that started, and so, until    *)
(* some process ends, nobody removes and there is one file only.           *)
(***************************************************************************)
EXTENDS StoreLock, TLAPS

IInv == TypeOK /\ LockInv /\ Written /\ OneFile

LEMMA TypeInit == Init => TypeOK
BY DEF Init, TypeOK, Acquiring

(* Every action is typed: one case per action of Next. *)
LEMMA TypeStep == TypeOK /\ [Next]_vars => TypeOK'
<1> SUFFICES ASSUME TypeOK, [Next]_vars PROVE TypeOK'
  OBVIOUS
<1> USE StoreLockAssumption DEF StoreLockAssumption, TypeOK, Acquiring, Goes
<1>1. ASSUME NEW p \in Process, Start(p) PROVE TypeOK'
  BY <1>1 DEF Start
<1>2. ASSUME NEW p \in Process, OpenLinked(p) PROVE TypeOK'
  BY <1>2 DEF OpenLinked
<1>3. ASSUME NEW p \in Process, OpenNew(p) PROVE TypeOK'
  BY <1>3 DEF OpenNew
<1>4. ASSUME NEW p \in Process, FlockOK(p) PROVE TypeOK'
  BY <1>4 DEF FlockOK
<1>5. ASSUME NEW p \in Process, FlockBusy(p) PROVE TypeOK'
  BY <1>5 DEF FlockBusy
<1>6. ASSUME NEW p \in Process, ReadPid(p) PROVE TypeOK'
  BY <1>6 DEF ReadPid
<1>7. ASSUME NEW p \in Process, JudgeStale(p) PROVE TypeOK'
  BY <1>7 DEF JudgeStale
<1>8. ASSUME NEW p \in Process, JudgeLocked(p) PROVE TypeOK'
  BY <1>8 DEF JudgeLocked
<1>9. ASSUME NEW p \in Process, Remove(p) PROVE TypeOK'
  BY <1>9 DEF Remove
<1>10. ASSUME NEW p \in Process, Truncate(p) PROVE TypeOK'
  BY <1>10 DEF Truncate
<1>11. ASSUME NEW p \in Process, WritePid(p) PROVE TypeOK'
  BY <1>11 DEF WritePid
<1>12. ASSUME NEW p \in Process, Release(p) PROVE TypeOK'
  BY <1>12 DEF Release, Unlock
<1>13. ASSUME NEW p \in Process, Die(p) PROVE TypeOK'
  BY <1>13 DEF Die, Unlock, Alive
<1>14. CASE UNCHANGED vars
  BY <1>14 DEF vars
<1>15. QED
  BY <1>1, <1>2, <1>3, <1>4, <1>5, <1>6, <1>7, <1>8, <1>9, <1>10, <1>11, <1>12,
     <1>13, <1>14 DEF Next, AcquireStep, AllOver
-----------------------------------------------------------------------------
(* The kernel lock of a file belongs to the process that has it open. *)
LEMMA LockStep == TypeOK /\ TypeOK' /\ LockInv /\ [Next]_vars => LockInv'
<1> SUFFICES ASSUME TypeOK, TypeOK', LockInv, [Next]_vars PROVE LockInv'
  OBVIOUS
<1> USE StoreLockAssumption DEF StoreLockAssumption, LockInv, Holds, Goes
<1>1. ASSUME NEW p \in Process, Start(p) PROVE LockInv'
  BY <1>1 DEF Start, TypeOK
<1>2. ASSUME NEW p \in Process, OpenLinked(p) PROVE LockInv'
  BY <1>2 DEF OpenLinked, TypeOK
<1>3. ASSUME NEW p \in Process, OpenNew(p) PROVE LockInv'
  BY <1>3 DEF OpenNew, TypeOK
<1>4. ASSUME NEW p \in Process, FlockOK(p) PROVE LockInv'
  <2>1. fd[p] \in Inode /\ flock[fd[p]] = None
    BY <1>4 DEF FlockOK, TypeOK
  <2>2. ASSUME NEW q \in Process, Holds(q)' PROVE (flock[fd[q]] = q)'
    BY <1>4, <2>1, <2>2 DEF FlockOK, TypeOK
  <2>3. ASSUME NEW i \in Inode, flock'[i] # None
        PROVE (Holds(flock[i]) /\ fd[flock[i]] = i)'
    BY <1>4, <2>1, <2>3 DEF FlockOK, TypeOK
  <2>4. QED
    BY <2>2, <2>3
<1>5. ASSUME NEW p \in Process, FlockBusy(p) PROVE LockInv'
  BY <1>5 DEF FlockBusy, TypeOK
<1>6. ASSUME NEW p \in Process, ReadPid(p) PROVE LockInv'
  BY <1>6 DEF ReadPid, TypeOK
<1>7. ASSUME NEW p \in Process, JudgeStale(p) PROVE LockInv'
  BY <1>7 DEF JudgeStale, TypeOK
<1>8. ASSUME NEW p \in Process, JudgeLocked(p) PROVE LockInv'
  BY <1>8 DEF JudgeLocked, TypeOK
<1>9. ASSUME NEW p \in Process, Remove(p) PROVE LockInv'
  BY <1>9 DEF Remove, TypeOK
<1>10. ASSUME NEW p \in Process, Truncate(p) PROVE LockInv'
  BY <1>10 DEF Truncate, TypeOK
<1>11. ASSUME NEW p \in Process, WritePid(p) PROVE LockInv'
  BY <1>11 DEF WritePid, TypeOK
<1>12. ASSUME NEW p \in Process, Release(p) PROVE LockInv'
  BY <1>12 DEF Release, Unlock, TypeOK
<1>13. ASSUME NEW p \in Process, Die(p) PROVE LockInv'
  BY <1>13 DEF Die, Unlock, TypeOK
<1>14. CASE UNCHANGED vars
  BY <1>14 DEF vars
<1>15. QED
  BY <1>1, <1>2, <1>3, <1>4, <1>5, <1>6, <1>7, <1>8, <1>9, <1>10, <1>11, <1>12,
     <1>13, <1>14 DEF Next, AcquireStep, AllOver

(* Only a running command writes its pid, and none becomes unborn again. *)
LEMMA WrittenStep == TypeOK /\ Written /\ [Next]_vars => Written'
<1> SUFFICES ASSUME TypeOK, Written, [Next]_vars PROVE Written'
  OBVIOUS
<1> USE StoreLockAssumption DEF StoreLockAssumption, Written, Goes, TypeOK
<1>1. ASSUME NEW p \in Process, Start(p) PROVE Written'
  BY <1>1 DEF Start
<1>2. ASSUME NEW p \in Process, OpenLinked(p) PROVE Written'
  BY <1>2 DEF OpenLinked
<1>3. ASSUME NEW p \in Process, OpenNew(p) PROVE Written'
  BY <1>3 DEF OpenNew
<1>4. ASSUME NEW p \in Process, FlockOK(p) PROVE Written'
  BY <1>4 DEF FlockOK
<1>5. ASSUME NEW p \in Process, FlockBusy(p) PROVE Written'
  BY <1>5 DEF FlockBusy
<1>6. ASSUME NEW p \in Process, ReadPid(p) PROVE Written'
  BY <1>6 DEF ReadPid
<1>7. ASSUME NEW p \in Process, JudgeStale(p) PROVE Written'
  BY <1>7 DEF JudgeStale
<1>8. ASSUME NEW p \in Process, JudgeLocked(p) PROVE Written'
  BY <1>8 DEF JudgeLocked
<1>9. ASSUME NEW p \in Process, Remove(p) PROVE Written'
  BY <1>9 DEF Remove
<1>10. ASSUME NEW p \in Process, Truncate(p) PROVE Written'
  BY <1>10 DEF Truncate
<1>11. ASSUME NEW p \in Process, WritePid(p) PROVE Written'
  BY <1>11 DEF WritePid
<1>12. ASSUME NEW p \in Process, Release(p) PROVE Written'
  BY <1>12 DEF Release
<1>13. ASSUME NEW p \in Process, Die(p) PROVE Written'
  BY <1>13 DEF Die
<1>14. CASE UNCHANGED vars
  BY <1>14 DEF vars
<1>15. QED
  BY <1>1, <1>2, <1>3, <1>4, <1>5, <1>6, <1>7, <1>8, <1>9, <1>10, <1>11, <1>12,
     <1>13, <1>14 DEF Next, AcquireStep, AllOver

(* A pid that was read is that of a running command or of a dead one, so
   nobody judges a lock stale before the first death. *)
LEMMA OneFileStep == TypeOK /\ Written /\ OneFile /\ [Next]_vars => OneFile'
<1> SUFFICES ASSUME TypeOK, Written, OneFile, [Next]_vars,
                    \A p \in Process : pc'[p] # "dead"
             PROVE  \A p \in Process : pc'[p] # "removing" /\ fd'[p] \in {None, link'}
  BY DEF OneFile
<1> USE StoreLockAssumption DEF StoreLockAssumption, Goes
<1>a. (\A p \in Process : pc[p] # "dead") =>
         \A p \in Process : pc[p] # "removing" /\ fd[p] \in {None, link}
  BY DEF OneFile
<1> DEFINE Fine == \A p \in Process : pc'[p] # "removing" /\ fd'[p] \in {None, link'}
<1>1. ASSUME NEW p \in Process, Start(p) PROVE Fine
  BY <1>1, <1>a DEF Start, TypeOK
<1>2. ASSUME NEW p \in Process, OpenLinked(p) PROVE Fine
  BY <1>2, <1>a DEF OpenLinked, TypeOK
<1>3. ASSUME NEW p \in Process, OpenNew(p) PROVE Fine
  BY <1>3, <1>a DEF OpenNew, TypeOK
<1>4. ASSUME NEW p \in Process, FlockOK(p) PROVE Fine
  BY <1>4, <1>a DEF FlockOK, TypeOK
<1>5. ASSUME NEW p \in Process, FlockBusy(p) PROVE Fine
  BY <1>5, <1>a DEF FlockBusy, TypeOK
<1>6. ASSUME NEW p \in Process, ReadPid(p) PROVE Fine
  BY <1>6, <1>a DEF ReadPid, TypeOK
<1>7. ASSUME NEW p \in Process, JudgeStale(p) PROVE Fine
  BY <1>7, <1>a DEF JudgeStale, Stale, Alive, Written, TypeOK
<1>8. ASSUME NEW p \in Process, JudgeLocked(p) PROVE Fine
  BY <1>8, <1>a DEF JudgeLocked, TypeOK
<1>9. ASSUME NEW p \in Process, Remove(p) PROVE Fine
  BY <1>9, <1>a DEF Remove, TypeOK
<1>10. ASSUME NEW p \in Process, Truncate(p) PROVE Fine
  BY <1>10, <1>a DEF Truncate, TypeOK
<1>11. ASSUME NEW p \in Process, WritePid(p) PROVE Fine
  BY <1>11, <1>a DEF WritePid, TypeOK
<1>12. ASSUME NEW p \in Process, Release(p) PROVE Fine
  BY <1>12, <1>a DEF Release, Unlock, TypeOK
<1>13. ASSUME NEW p \in Process, Die(p) PROVE Fine
  BY <1>13 DEF Die, TypeOK
<1>14. CASE UNCHANGED vars
  BY <1>14, <1>a DEF vars
<1>15. QED
  BY <1>1, <1>2, <1>3, <1>4, <1>5, <1>6, <1>7, <1>8, <1>9, <1>10, <1>11, <1>12,
     <1>13, <1>14 DEF Next, AcquireStep, AllOver

LEMMA Inductive == Spec => []IInv
<1>1. Init => IInv
  <2>1. Init => LockInv
    BY StoreLockAssumption DEF StoreLockAssumption, Init, LockInv, Holds
  <2>2. Init => OneFile
    BY DEF Init, OneFile
  <2>3. Init => Written
    BY DEF Init, Written
  <2>4. QED
    BY <2>1, <2>2, <2>3, TypeInit DEF IInv
<1>2. IInv /\ [Next]_vars => IInv'
  BY TypeStep, LockStep, WrittenStep, OneFileStep DEF IInv
<1>3. QED
  BY <1>1, <1>2, PTL DEF Spec
-----------------------------------------------------------------------------
(* The state of the lock of any store is well-formed: in particular a
   descriptor is open exactly between OpenFile and the Close of Acquire's
   failure path or of Release. *)
THEOREM TypeCorrect == Spec => []TypeOK
BY Inductive, PTL DEF IInv

(* However many commands contend for a store, two never hold its lock together
   as long as none of them has ended without releasing: the flock alone is a
   mutex, and only the removal of a dead owner's file undoes it. *)
THEOREM MutexWithoutDeaths == Spec => []MutexBeforeFirstDeath
<1>1. IInv => MutexBeforeFirstDeath
  <2> SUFFICES ASSUME TypeOK, LockInv, OneFile,
                      \A p \in Process : pc[p] # "dead",
                      NEW p \in Process, NEW q \in Process,
                      pc[p] = "held", pc[q] = "held"
               PROVE  p = q
    BY DEF IInv, MutexBeforeFirstDeath, MutualExclusion
  <2>1. fd[p] = link /\ fd[q] = link
    BY DEF OneFile, TypeOK
  <2>2. QED
    BY <2>1 DEF LockInv, Holds
<1>2. QED
  BY <1>1, Inductive, PTL

(* Nobody takes the lock from a holder that is alone with it. *)
LEMMA AloneStep ==
  ASSUME TypeOK, [Next]_vars, NEW h \in Process, HoldsAlone(h)
  PROVE  HoldsAlone(h)' \/ pc'[h] # "held"
<1> USE StoreLockAssumption DEF StoreLockAssumption, HoldsAlone, Holds, Goes, TypeOK
<1> DEFINE Kept == HoldsAlone(h)' \/ pc'[h] # "held"
<1>1. ASSUME NEW p \in Process, Start(p) PROVE Kept
  BY <1>1 DEF Start
<1>2. ASSUME NEW p \in Process, OpenLinked(p) PROVE Kept
  BY <1>2 DEF OpenLinked
<1>3. ASSUME NEW p \in Process, OpenNew(p) PROVE Kept
  BY <1>3 DEF OpenNew
<1>4. ASSUME NEW p \in Process, FlockOK(p) PROVE Kept
  BY <1>4 DEF FlockOK
<1>5. ASSUME NEW p \in Process, FlockBusy(p) PROVE Kept
  BY <1>5 DEF FlockBusy
<1>6. ASSUME NEW p \in Process, ReadPid(p) PROVE Kept
  BY <1>6 DEF ReadPid
<1>7. ASSUME NEW p \in Process, JudgeStale(p) PROVE Kept
  BY <1>7 DEF JudgeStale, Stale, Alive
<1>8. ASSUME NEW p \in Process, JudgeLocked(p) PROVE Kept
  BY <1>8 DEF JudgeLocked
<1>9. ASSUME NEW p \in Process, Remove(p) PROVE Kept
  BY <1>9 DEF Remove
<1>10. ASSUME NEW p \in Process, Truncate(p) PROVE Kept
  BY <1>10 DEF Truncate
<1>11. ASSUME NEW p \in Process, WritePid(p) PROVE Kept
  BY <1>11 DEF WritePid
<1>12. ASSUME NEW p \in Process, Release(p) PROVE Kept
  BY <1>12 DEF Release, Unlock
<1>13. ASSUME NEW p \in Process, Die(p) PROVE Kept
  BY <1>13 DEF Die, Unlock
<1>14. CASE UNCHANGED vars
  BY <1>14 DEF vars
<1>15. QED
  BY <1>1, <1>2, <1>3, <1>4, <1>5, <1>6, <1>7, <1>8, <1>9, <1>10, <1>11, <1>12,
     <1>13, <1>14 DEF Next, AcquireStep, AllOver

(* A holder whose pid is in the file at the path, and with nobody else in the
   middle of the hand-over, keeps the store to itself until it releases or ends,
   whatever the other commands do and wherever they crash. *)
THEOREM AloneIsStable == Spec => AloneUntilRelease
<1>1. TypeOK /\ [Next]_vars =>
        [\A h \in Process : HoldsAlone(h) => HoldsAlone(h)' \/ pc'[h] # "held"]_vars
  BY AloneStep
<1>2. QED
  BY <1>1, TypeCorrect, PTL DEF Spec, AloneUntilRelease
=============================================================================
