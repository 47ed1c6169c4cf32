------------------------ MODULE WorkspaceLockProofs ------------------------
(***************************************************************************)
(* Proofs about the workspace lock, for any set of processes and any       *)
(* bounds.                                                                 *)
(***************************************************************************)
EXTENDS WorkspaceLock, TLAPS

\* The loop bound is respected between the creation that failed and the rename.
AttemptInv ==
  \A p \in Proc :
    pc[p] \in {"readPayload", "probe", "quarantine"} => attempt[p] <= MaxAttempts

DeadInv == \A p \in Proc : p \in dead <=> pc[p] = "dead"

\* Until a live owner loses its file, every process that relies on the lock
\* file finds its own file at the path, and complete once it holds the lock.
OwnerInv ==
  stolen = {} =>
    \A p \in Proc :
      /\ pc[p] \in Owning => lock # NoFile /\ lock.creator = MyToken(p)
      /\ pc[p] \in {"sync", "held", "dropRemove"} => lock.stage = "full"

\* While nobody died, left a file behind or judged an owner blindly, the file at
\* the path belongs to a live owner, who has written its pid by the time it is
\* old, and nobody is about to rename it: a contender that read no pid does not
\* find an old file.
CleanInv ==
  dead = {} /\ failed = {} /\ blind = {} =>
    /\ stolen = {}
    /\ \A p \in Proc : pc[p] # "quarantine"
    /\ lock # NoFile =>
         /\ LiveOwner(lock.creator)
         /\ lock.age = "old" => lock.stage # "empty"
         /\ \A p \in Proc : pc[p] = "probe" /\ seen[p] = NoProc => lock.age = "young"

IInv == TypeOK /\ AttemptInv /\ DeadInv /\ OwnerInv /\ CleanInv

USE LockAssumption, NoFileAssumption

\* Nobody has tried to take the lock yet.
LEMMA InitIInv == Init => IInv
  BY SMTT(30) DEF Init, IInv, TypeOK, AttemptInv, DeadInv, OwnerInv, CleanInv, Steps,
         Owning, Token

\* Every step keeps the types.
LEMMA TypeStep == TypeOK /\ AttemptInv /\ [Next]_vars => TypeOK'
<1> SUFFICES ASSUME TypeOK, AttemptInv, [Next]_vars PROVE TypeOK'
  OBVIOUS
<1> USE DEF TypeOK, Steps, LockFile, Token, Goto, MyToken
<1>1. ASSUME NEW p \in Proc, Acquire(p) PROVE TypeOK'
  BY <1>1 DEF Acquire
<1>2. ASSUME NEW p \in Proc, CreateNew(p) PROVE TypeOK'
  BY <1>2 DEF CreateNew
<1>3. ASSUME NEW p \in Proc, GiveUp(p) PROVE TypeOK'
  BY <1>3 DEF GiveUp
<1>4. ASSUME NEW p \in Proc, WritePid(p) PROVE TypeOK'
  BY <1>4 DEF WritePid, Fill
<1>5. ASSUME NEW p \in Proc, WriteToken(p) PROVE TypeOK'
  BY <1>5 DEF WriteToken, Fill
<1>6. ASSUME NEW p \in Proc, SyncAll(p) PROVE TypeOK'
  BY <1>6 DEF SyncAll
<1>7. ASSUME NEW p \in Proc, AcquireIoError(p) PROVE TypeOK'
  BY <1>7 DEF AcquireIoError
<1>8. ASSUME NEW p \in Proc, ReadPayload(p) PROVE TypeOK'
  BY <1>8 DEF ReadPayload
<1>9. ASSUME NEW p \in Proc, InspectLock(p) PROVE TypeOK'
  BY <1>9 DEF InspectLock
<1>10. ASSUME NEW p \in Proc, Quarantine(p) PROVE TypeOK'
  BY <1>10 DEF Quarantine, Unlink, AttemptInv
<1>11. ASSUME NEW p \in Proc, DropRead(p) PROVE TypeOK'
  BY <1>11 DEF DropRead
<1>12. ASSUME NEW p \in Proc, DropRemove(p) PROVE TypeOK'
  BY <1>12 DEF DropRemove, Unlink
<1>13. ASSUME NEW p \in Proc, Die(p) PROVE TypeOK'
  BY <1>13 DEF Die
<1>14. ASSUME GrowOld PROVE TypeOK'
  BY <1>14 DEF GrowOld
<1>15. ASSUME NEW p \in Proc, ProbeError(p) PROVE TypeOK'
  BY <1>15 DEF ProbeError
<1>16. ASSUME NEW p \in Proc, DropError(p) PROVE TypeOK'
  BY <1>16 DEF DropError
<1>17. CASE UNCHANGED vars
  BY <1>17 DEF vars
<1> QED
  BY <1>1, <1>2, <1>3, <1>4, <1>5, <1>6, <1>7, <1>8, <1>9, <1>10, <1>11,
     <1>12, <1>13, <1>14, <1>15, <1>16, <1>17 DEF Next, Progress

\* Only a retry counts an attempt, and the loop ends at its bound (acquire).
LEMMA AttemptStep == TypeOK /\ AttemptInv /\ [Next]_vars => AttemptInv'
<1> SUFFICES ASSUME TypeOK, AttemptInv, [Next]_vars PROVE AttemptInv'
  OBVIOUS
<1> USE DEF TypeOK, AttemptInv, Steps, Goto
<1>1. ASSUME NEW p \in Proc, Acquire(p) PROVE AttemptInv'
  BY <1>1 DEF Acquire
<1>2. ASSUME NEW p \in Proc, CreateNew(p) PROVE AttemptInv'
  BY <1>2 DEF CreateNew
<1>3. ASSUME NEW p \in Proc, GiveUp(p) PROVE AttemptInv'
  BY <1>3 DEF GiveUp
<1>4. ASSUME NEW p \in Proc, WritePid(p) PROVE AttemptInv'
  BY <1>4 DEF WritePid, Fill
<1>5. ASSUME NEW p \in Proc, WriteToken(p) PROVE AttemptInv'
  BY <1>5 DEF WriteToken, Fill
<1>6. ASSUME NEW p \in Proc, SyncAll(p) PROVE AttemptInv'
  BY <1>6 DEF SyncAll
<1>7. ASSUME NEW p \in Proc, AcquireIoError(p) PROVE AttemptInv'
  BY <1>7 DEF AcquireIoError
<1>8. ASSUME NEW p \in Proc, ReadPayload(p) PROVE AttemptInv'
  BY <1>8 DEF ReadPayload
<1>9. ASSUME NEW p \in Proc, InspectLock(p) PROVE AttemptInv'
  BY <1>9 DEF InspectLock
<1>10. ASSUME NEW p \in Proc, Quarantine(p) PROVE AttemptInv'
  BY <1>10 DEF Quarantine, Unlink
<1>11. ASSUME NEW p \in Proc, DropRead(p) PROVE AttemptInv'
  BY <1>11 DEF DropRead
<1>12. ASSUME NEW p \in Proc, DropRemove(p) PROVE AttemptInv'
  BY <1>12 DEF DropRemove, Unlink
<1>13. ASSUME NEW p \in Proc, Die(p) PROVE AttemptInv'
  BY <1>13 DEF Die
<1>14. ASSUME GrowOld PROVE AttemptInv'
  BY <1>14 DEF GrowOld
<1>15. ASSUME NEW p \in Proc, ProbeError(p) PROVE AttemptInv'
  BY <1>15 DEF ProbeError
<1>16. ASSUME NEW p \in Proc, DropError(p) PROVE AttemptInv'
  BY <1>16 DEF DropError
<1>17. CASE UNCHANGED vars
  BY <1>17 DEF vars
<1> QED
  BY <1>1, <1>2, <1>3, <1>4, <1>5, <1>6, <1>7, <1>8, <1>9,
     <1>10, <1>11, <1>12, <1>13, <1>14, <1>15, <1>16, <1>17
  DEF Next, Progress

\* The dead are the processes that crashed.
LEMMA DeadStep == TypeOK /\ DeadInv /\ [Next]_vars => DeadInv'
<1> SUFFICES ASSUME TypeOK, DeadInv, [Next]_vars PROVE DeadInv'
  OBVIOUS
<1> USE DEF TypeOK, DeadInv, Steps, Goto
<1>1. ASSUME NEW p \in Proc, Acquire(p) PROVE DeadInv'
  BY <1>1 DEF Acquire
<1>2. ASSUME NEW p \in Proc, CreateNew(p) PROVE DeadInv'
  BY <1>2 DEF CreateNew
<1>3. ASSUME NEW p \in Proc, GiveUp(p) PROVE DeadInv'
  BY <1>3 DEF GiveUp
<1>4. ASSUME NEW p \in Proc, WritePid(p) PROVE DeadInv'
  BY <1>4 DEF WritePid, Fill
<1>5. ASSUME NEW p \in Proc, WriteToken(p) PROVE DeadInv'
  BY <1>5 DEF WriteToken, Fill
<1>6. ASSUME NEW p \in Proc, SyncAll(p) PROVE DeadInv'
  BY <1>6 DEF SyncAll
<1>7. ASSUME NEW p \in Proc, AcquireIoError(p) PROVE DeadInv'
  BY <1>7 DEF AcquireIoError
<1>8. ASSUME NEW p \in Proc, ReadPayload(p) PROVE DeadInv'
  BY <1>8 DEF ReadPayload
<1>9. ASSUME NEW p \in Proc, InspectLock(p) PROVE DeadInv'
  BY <1>9 DEF InspectLock
<1>10. ASSUME NEW p \in Proc, Quarantine(p) PROVE DeadInv'
  BY <1>10 DEF Quarantine, Unlink
<1>11. ASSUME NEW p \in Proc, DropRead(p) PROVE DeadInv'
  BY <1>11 DEF DropRead
<1>12. ASSUME NEW p \in Proc, DropRemove(p) PROVE DeadInv'
  BY <1>12 DEF DropRemove, Unlink
<1>13. ASSUME NEW p \in Proc, Die(p) PROVE DeadInv'
  BY <1>13 DEF Die
<1>14. ASSUME GrowOld PROVE DeadInv'
  BY <1>14 DEF GrowOld
<1>15. ASSUME NEW p \in Proc, ProbeError(p) PROVE DeadInv'
  BY <1>15 DEF ProbeError
<1>16. ASSUME NEW p \in Proc, DropError(p) PROVE DeadInv'
  BY <1>16 DEF DropError
<1>17. CASE UNCHANGED vars
  BY <1>17 DEF vars
<1> QED
  BY <1>1, <1>2, <1>3, <1>4, <1>5, <1>6, <1>7, <1>8, <1>9,
     <1>10, <1>11, <1>12, <1>13, <1>14, <1>15, <1>16, <1>17
  DEF Next, Progress

\* As long as no live owner has lost its file, a step of another process leaves it.
LEMMA OwnerStep == TypeOK /\ OwnerInv /\ [Next]_vars => OwnerInv'
<1> SUFFICES ASSUME TypeOK, OwnerInv, [Next]_vars PROVE OwnerInv'
  OBVIOUS
<1> USE DEF TypeOK, OwnerInv, Steps, Owning, LockFile, Token, Goto, MyToken, LiveOwner
<1>1. ASSUME NEW p \in Proc, Acquire(p) PROVE OwnerInv'
  BY <1>1 DEF Acquire
<1>2. ASSUME NEW p \in Proc, CreateNew(p) PROVE OwnerInv'
  BY <1>2 DEF CreateNew
<1>3. ASSUME NEW p \in Proc, GiveUp(p) PROVE OwnerInv'
  BY <1>3 DEF GiveUp
<1>4. ASSUME NEW p \in Proc, WritePid(p) PROVE OwnerInv'
  BY <1>4 DEF WritePid, Fill
<1>5. ASSUME NEW p \in Proc, WriteToken(p) PROVE OwnerInv'
  BY <1>5 DEF WriteToken, Fill
<1>6. ASSUME NEW p \in Proc, SyncAll(p) PROVE OwnerInv'
  BY <1>6 DEF SyncAll
<1>7. ASSUME NEW p \in Proc, AcquireIoError(p) PROVE OwnerInv'
  BY <1>7 DEF AcquireIoError
<1>8. ASSUME NEW p \in Proc, ReadPayload(p) PROVE OwnerInv'
  BY <1>8 DEF ReadPayload
<1>9. ASSUME NEW p \in Proc, InspectLock(p) PROVE OwnerInv'
  BY <1>9 DEF InspectLock
<1>10. ASSUME NEW p \in Proc, Quarantine(p) PROVE OwnerInv'
  BY <1>10 DEF Quarantine, Unlink
<1>11. ASSUME NEW p \in Proc, DropRead(p) PROVE OwnerInv'
  BY <1>11 DEF DropRead
<1>12. ASSUME NEW p \in Proc, DropRemove(p) PROVE OwnerInv'
  BY <1>12 DEF DropRemove, Unlink
<1>13. ASSUME NEW p \in Proc, Die(p) PROVE OwnerInv'
  BY <1>13 DEF Die
<1>14. ASSUME GrowOld PROVE OwnerInv'
  BY <1>14 DEF GrowOld
<1>15. ASSUME NEW p \in Proc, ProbeError(p) PROVE OwnerInv'
  BY <1>15 DEF ProbeError
<1>16. ASSUME NEW p \in Proc, DropError(p) PROVE OwnerInv'
  BY <1>16 DEF DropError
<1>17. CASE UNCHANGED vars
  BY SMTT(30), <1>17 DEF vars
<1> QED
  BY <1>1, <1>2, <1>3, <1>4, <1>5, <1>6, <1>7, <1>8, <1>9,
     <1>10, <1>11, <1>12, <1>13, <1>14, <1>15, <1>16, <1>17
  DEF Next, Progress

\* Without a death, a file left behind or a blind verdict no lock file looks stale.
LEMMA CleanStep == TypeOK /\ DeadInv /\ OwnerInv /\ CleanInv /\ [Next]_vars => CleanInv'
<1> SUFFICES ASSUME TypeOK, DeadInv, OwnerInv, CleanInv, [Next]_vars PROVE CleanInv'
  OBVIOUS
<1> USE DEF TypeOK, CleanInv, Steps, Owning, LockFile, Token, Goto, MyToken, LiveOwner
<1>1. ASSUME NEW p \in Proc, Acquire(p) PROVE CleanInv'
  BY <1>1 DEF Acquire
<1>2. ASSUME NEW p \in Proc, CreateNew(p) PROVE CleanInv'
  BY <1>2 DEF CreateNew
<1>3. ASSUME NEW p \in Proc, GiveUp(p) PROVE CleanInv'
  BY <1>3 DEF GiveUp
<1>4. ASSUME NEW p \in Proc, WritePid(p) PROVE CleanInv'
  BY <1>4 DEF WritePid, Fill
<1>5. ASSUME NEW p \in Proc, WriteToken(p) PROVE CleanInv'
  BY <1>5 DEF WriteToken, Fill
<1>6. ASSUME NEW p \in Proc, SyncAll(p) PROVE CleanInv'
  BY <1>6 DEF SyncAll
<1>7. ASSUME NEW p \in Proc, AcquireIoError(p) PROVE CleanInv'
  BY <1>7 DEF AcquireIoError
<1>8. ASSUME NEW p \in Proc, ReadPayload(p) PROVE CleanInv'
  BY <1>8 DEF ReadPayload
<1>9. ASSUME NEW p \in Proc, InspectLock(p) PROVE CleanInv'
  BY <1>9 DEF InspectLock, Orphaned
<1>10. ASSUME NEW p \in Proc, Quarantine(p) PROVE CleanInv'
  BY <1>10 DEF Quarantine, Unlink
<1>11. ASSUME NEW p \in Proc, DropRead(p) PROVE CleanInv'
  BY <1>11 DEF DropRead, OwnerInv
<1>12. ASSUME NEW p \in Proc, DropRemove(p) PROVE CleanInv'
  BY <1>12 DEF DropRemove, Unlink, OwnerInv
<1>13. ASSUME NEW p \in Proc, Die(p) PROVE CleanInv'
  BY <1>13 DEF Die
<1>14. ASSUME GrowOld PROVE CleanInv'
  BY <1>14 DEF GrowOld
<1>15. ASSUME NEW p \in Proc, ProbeError(p) PROVE CleanInv'
  BY <1>15 DEF ProbeError
<1>16. ASSUME NEW p \in Proc, DropError(p) PROVE CleanInv'
  BY <1>16 DEF DropError
<1>17. CASE UNCHANGED vars
  BY <1>17 DEF vars
<1> QED
  BY <1>1, <1>2, <1>3, <1>4, <1>5, <1>6, <1>7, <1>8, <1>9,
     <1>10, <1>11, <1>12, <1>13, <1>14, <1>15, <1>16, <1>17
  DEF Next, Progress

\* The invariant is inductive.
LEMMA InductiveStep == IInv /\ [Next]_vars => IInv'
  BY TypeStep, AttemptStep, DeadStep, OwnerStep, CleanStep DEF IInv

\* It holds in every state of the lock protocol.
LEMMA Inductive == Spec => []IInv
  BY InitIInv, InductiveStep, PTL DEF Spec

\* The state of the lock protocol stays within its types: in particular the
\* acquisition loop never runs past its last attempt.
THEOREM LockTypeCorrect == Spec => []TypeOK
<1>1. IInv => TypeOK
  BY DEF IInv
<1> QED
  BY <1>1, Inductive, PTL

\* However many processes contend, die or fail while acquiring, two of them
\* hold the lock together only if a live owner's file was removed.
THEOREM LockMutualExclusion == Spec => []MutexUnlessStolen
<1>1. IInv => MutexUnlessStolen
  BY DEF IInv, OwnerInv, MutexUnlessStolen, Holder, Owning, MyToken
<1> QED
  BY <1>1, Inductive, PTL

\* A live owner's file is removed only once a process has died, has left a file
\* behind on an error, or has judged an owner by a payload it could not read or
\* a ps that failed: among processes that keep running and whose calls succeed,
\* the lock excludes, however long it is held.
THEOREM LockTheftNeedsAbandonment == Spec => []TheftNeedsAbandonment
<1>1. IInv => TheftNeedsAbandonment
  BY DEF IInv, CleanInv, TheftNeedsAbandonment
<1> QED
  BY <1>1, Inductive, PTL

=============================================================================
