--------------------------- MODULE WorkspaceLock ---------------------------
(***************************************************************************)
(* The advisory workspace lock of crates/edit/src/journal.rs: a file       *)
(* created exclusively, then filled with the owner's pid and a token       *)
(* unique to the acquisition.  A contender that finds the file reads the   *)
(* pid, probes the process table and, when the owner is gone, renames the  *)
(* file away and retries the creation.  All of this goes through the path, *)
(* never through the file that was inspected.                              *)
(***************************************************************************)
EXTENDS Naturals, FiniteSets

CONSTANTS
  Proc,          \* operating system processes, each with a pid of its own
  NoProc,        \* "no pid could be read"
  NoFile,        \* nothing exists at the lock path
  MaxAttempts,   \* iterations of the acquisition loop (4 in the code)
  MaxRounds,     \* bound: acquisitions one process makes
  MaxIoErrors    \* bound: calls that fail

ASSUME LockAssumption ==
  /\ NoProc \notin Proc
  /\ MaxAttempts \in Nat \ {0}
  /\ MaxRounds \in Nat
  /\ MaxIoErrors \in Nat

VARIABLES
  lock,      \* the file at the lock path: NoFile or a member of LockFile
  pc,        \* where each process is
  attempt,   \* loop iteration of each process
  round,     \* acquisitions each process has started
  seen,      \* pid each contender read from the payload
  dead,      \* processes that exited or were killed
  failed,    \* tokens whose file a failed call left at the path
  ioErrors,  \* failed calls so far
  stolen,    \* history: tokens whose file was removed under a live owner
  blind      \* history: contenders that judged an owner by a call that failed

vars == <<lock, pc, attempt, round, seen, dead, failed, ioErrors, stolen, blind>>

\* A token names one acquisition: the pid and a nonce that is never reused.
Token == Proc \X Nat

\* The creator identifies the file; stage is how much of its payload is there.
LockFile == [creator : Token, stage : {"empty", "pid", "full"}, age : {"young", "old"}]

ASSUME NoFileAssumption == NoFile \notin LockFile

Steps == {"idle", "create", "writePid", "writeToken", "sync", "readPayload",
          "probe", "quarantine", "held", "dropRemove", "dead"}

\* The steps at which a process relies on the file it created being its own.
Owning == {"writePid", "writeToken", "sync", "held", "dropRemove"}

MyToken(p) == <<p, round[p]>>

\* The acquisition t is under way or holds the lock.
LiveOwner(t) == pc[t[1]] \in Owning /\ t = MyToken(t[1])

TypeOK ==
  /\ lock \in LockFile \cup {NoFile}
  /\ pc \in [Proc -> Steps]
  /\ attempt \in [Proc -> 1..MaxAttempts + 1]
  /\ round \in [Proc -> 0..MaxRounds]
  /\ seen \in [Proc -> Proc \cup {NoProc}]
  /\ dead \subseteq Proc
  /\ failed \subseteq Token
  /\ ioErrors \in 0..MaxIoErrors
  /\ stolen \subseteq Token
  /\ blind \subseteq Proc

Init ==
  /\ lock = NoFile
  /\ pc = [p \in Proc |-> "idle"]
  /\ attempt = [p \in Proc |-> 1]
  /\ round = [p \in Proc |-> 0]
  /\ seen = [p \in Proc |-> NoProc]
  /\ dead = {}
  /\ failed = {}
  /\ ioErrors = 0
  /\ stolen = {}
  /\ blind = {}

Goto(p, step) == pc' = [pc EXCEPT ![p] = step]

\* Removing whatever is at the path, noting whether a live owner loses it.
\* The file of the process doing the removal is its own to remove.
Unlink(p) ==
  /\ lock' = NoFile
  /\ stolen' = stolen \cup
       {t \in {lock.creator} : LiveOwner(t) /\ t # MyToken(p)}

-----------------------------------------------------------------------------
(* WorkspaceLock::acquire                                                  *)

\* Mutant: the loop counter starts one iteration early.
AcquireFromZero(p) ==
  /\ pc[p] = "idle"
  /\ round[p] < MaxRounds
  /\ round' = [round EXCEPT ![p] = @ + 1]
  /\ attempt' = [attempt EXCEPT ![p] = 0]
  /\ Goto(p, "create")
  /\ UNCHANGED <<lock, seen, dead, failed, ioErrors, stolen, blind>>

Acquire(p) ==
  /\ pc[p] = "idle"
  /\ round[p] < MaxRounds
  /\ round' = [round EXCEPT ![p] = @ + 1]
  /\ attempt' = [attempt EXCEPT ![p] = 1]
  /\ Goto(p, "create")
  /\ UNCHANGED <<lock, seen, dead, failed, ioErrors, stolen, blind>>

\* Mutant: create without create_new, an existing file is truncated.
CreateTruncating(p) ==
  /\ pc[p] = "create"
  /\ attempt[p] <= MaxAttempts
  /\ lock' = [creator |-> MyToken(p), stage |-> "empty", age |-> "young"]
  /\ Goto(p, "writePid")
  /\ UNCHANGED <<attempt, round, seen, dead, failed, ioErrors, stolen, blind>>

\* OpenOptions::create_new: the one atomic test-and-set of the protocol.
CreateNew(p) ==
  /\ pc[p] = "create"
  /\ attempt[p] <= MaxAttempts
  /\ \/ /\ lock = NoFile
        /\ lock' = [creator |-> MyToken(p), stage |-> "empty", age |-> "young"]
        /\ Goto(p, "writePid")
     \/ /\ lock # NoFile
        /\ Goto(p, "readPayload")
        /\ UNCHANGED lock
  /\ UNCHANGED <<attempt, round, seen, dead, failed, ioErrors, stolen, blind>>

\* The loop is exhausted: the call returns an error.
GiveUp(p) ==
  /\ pc[p] = "create"
  /\ attempt[p] > MaxAttempts
  /\ Goto(p, "idle")
  /\ UNCHANGED <<lock, attempt, round, seen, dead, failed, ioErrors, stolen, blind>>

\* Payload writes go to the open file.  They show at the path only while the
\* path still names that file.
Fill(p, stage) ==
  lock' = IF lock # NoFile /\ lock.creator = MyToken(p)
          THEN [lock EXCEPT !.stage = stage] ELSE lock

WritePid(p) ==
  /\ pc[p] = "writePid"
  /\ Fill(p, "pid")
  /\ Goto(p, "writeToken")
  /\ UNCHANGED <<attempt, round, seen, dead, failed, ioErrors, stolen, blind>>

WriteToken(p) ==
  /\ pc[p] = "writeToken"
  /\ Fill(p, "full")
  /\ Goto(p, "sync")
  /\ UNCHANGED <<attempt, round, seen, dead, failed, ioErrors, stolen, blind>>

SyncAll(p) ==
  /\ pc[p] = "sync"
  /\ Goto(p, "held")
  /\ UNCHANGED <<lock, attempt, round, seen, dead, failed, ioErrors, stolen, blind>>

\* Any file system error of the acquisition is returned to the caller.  A file
\* that was created stays at the path with whatever payload it has.
AcquireIoError(p) ==
  /\ pc[p] \in {"create", "writePid", "writeToken", "sync", "quarantine"}
  /\ ioErrors < MaxIoErrors
  /\ ioErrors' = ioErrors + 1
  /\ failed' = IF pc[p] \in Owning THEN failed \cup {MyToken(p)} ELSE failed
  /\ Goto(p, "idle")
  /\ UNCHANGED <<lock, attempt, round, seen, dead, stolen, blind>>

\* inspect_lock, first half: the payload is read.  A file that is gone, has no
\* pid line yet or cannot be read gives no pid (unwrap_or_default).
ReadPayload(p) ==
  /\ pc[p] = "readPayload"
  /\ \/ /\ seen' = [seen EXCEPT ![p] =
             IF lock # NoFile /\ lock.stage # "empty" THEN lock.creator[1] ELSE NoProc]
        /\ UNCHANGED <<ioErrors, blind>>
     \/ /\ ioErrors < MaxIoErrors
        /\ ioErrors' = ioErrors + 1
        /\ seen' = [seen EXCEPT ![p] = NoProc]
        /\ blind' = blind \cup {p}
  /\ Goto(p, "probe")
  /\ UNCHANGED <<lock, attempt, round, dead, failed, stolen>>

\* Mutant: a payload without a pid counts as orphaned whatever its age.
OrphanedAtAnyAge(p) ==
  IF seen[p] # NoProc THEN seen[p] \in dead ELSE lock # NoFile

\* Mutant: the liveness probe answers "live" for every pid.
NeverOrphaned(p) ==
  seen[p] = NoProc /\ lock # NoFile /\ lock.age = "old"

\* inspect_lock, second half: the process table decides, or, with no pid, the
\* age of the file that is at the path by now.
Orphaned(p) ==
  IF seen[p] # NoProc THEN seen[p] \in dead
                      ELSE lock # NoFile /\ lock.age = "old"

InspectLock(p) ==
  /\ pc[p] = "probe"
  /\ Goto(p, IF Orphaned(p) THEN "quarantine" ELSE "idle")
  /\ UNCHANGED <<lock, attempt, round, seen, dead, failed, ioErrors, stolen, blind>>

\* The question about the owner, or about the age of the file, gets no answer.
\* When ps cannot be started, or the metadata not be read, the owner counts as
\* live; a ps that runs and exits with an error says that it is dead.  No ps is
\* asked about the process's own pid.
ProbeError(p) ==
  /\ pc[p] = "probe" /\ seen[p] # p
  /\ ioErrors < MaxIoErrors
  /\ ioErrors' = ioErrors + 1
  /\ \/ Goto(p, "idle") /\ UNCHANGED blind
     \/ /\ seen[p] # NoProc
        /\ Goto(p, "quarantine")
        /\ blind' = blind \cup {p}
  /\ UNCHANGED <<lock, attempt, round, seen, dead, failed, stolen>>

\* rename(path, quarantine), then removal of the quarantined file under its
\* private name; NotFound continues the loop as well.
Quarantine(p) ==
  /\ pc[p] = "quarantine"
  /\ IF lock = NoFile THEN UNCHANGED <<lock, stolen>> ELSE Unlink(p)
  /\ attempt' = [attempt EXCEPT ![p] = @ + 1]
  /\ Goto(p, "create")
  /\ UNCHANGED <<round, seen, dead, failed, ioErrors, blind>>

-----------------------------------------------------------------------------
(* Drop for WorkspaceLock: read the token, then remove by path.            *)

DropRead(p) ==
  /\ pc[p] = "held"
  /\ IF lock # NoFile /\ lock.stage = "full" /\ lock.creator = MyToken(p)
       THEN Goto(p, "dropRemove") ELSE Goto(p, "idle")
  /\ UNCHANGED <<lock, attempt, round, seen, dead, failed, ioErrors, stolen, blind>>

DropRemove(p) ==
  /\ pc[p] = "dropRemove"
  /\ IF lock = NoFile THEN UNCHANGED <<lock, stolen>> ELSE Unlink(p)
  /\ Goto(p, "idle")
  /\ UNCHANGED <<attempt, round, seen, dead, failed, ioErrors, blind>>

\* The read or the removal fails: Drop ignores it, and the file stays.
DropError(p) ==
  /\ pc[p] \in {"held", "dropRemove"}
  /\ ioErrors < MaxIoErrors
  /\ ioErrors' = ioErrors + 1
  /\ failed' = failed \cup {MyToken(p)}
  /\ Goto(p, "idle")
  /\ UNCHANGED <<lock, attempt, round, seen, dead, stolen, blind>>

-----------------------------------------------------------------------------
(* The environment.                                                        *)

\* A process exits or is killed, at any point; its pid is not reused.
Die(p) ==
  /\ pc[p] # "dead"
  /\ dead' = dead \cup {p}
  /\ Goto(p, "dead")
  /\ UNCHANGED <<lock, attempt, round, seen, failed, ioErrors, stolen, blind>>

\* The file grows older than LOCK_STALE_AFTER_SECS, its owner alive or not.  A
\* process at work writes its pid, and inspects a file, in less time than that.
GrowOld ==
  /\ lock # NoFile
  /\ lock.stage = "empty" => ~LiveOwner(lock.creator)
  /\ \A p \in Proc : pc[p] = "probe" => seen[p] # NoProc
  /\ lock.age = "young"
  /\ lock' = [lock EXCEPT !.age = "old"]
  /\ UNCHANGED <<pc, attempt, round, seen, dead, failed, ioErrors, stolen, blind>>

\* The steps a running process takes without further decisions.
Progress(p) ==
  \/ CreateNew(p) \/ GiveUp(p) \/ WritePid(p) \/ WriteToken(p) \/ SyncAll(p)
  \/ ReadPayload(p) \/ InspectLock(p) \/ Quarantine(p)
  \/ DropRead(p) \/ DropRemove(p)

Next ==
  \/ \E p \in Proc : Acquire(p) \/ Progress(p) \/ AcquireIoError(p) \/ ProbeError(p)
                   \/ DropError(p) \/ Die(p)
  \/ GrowOld

Spec == Init /\ [][Next]_vars

\* Every process that is not dead keeps running, and time passes.
Fairness == WF_vars(GrowOld) /\ \A p \in Proc : WF_vars(Progress(p))

FairSpec == Spec /\ Fairness

-----------------------------------------------------------------------------
(* Properties                                                              *)

Holder(p) == pc[p] \in {"held", "dropRemove"}

\* At most one process holds the workspace lock, in every behaviour in which
\* no live owner's file was removed from the path: exclusive creation, the
\* token check of Drop and the orphan test together leave that as the only way
\* to two holders.
MutexUnlessStolen ==
  stolen = {} => \A p, q \in Proc : Holder(p) /\ Holder(q) => p = q

\* The file of a live owner is removed only after some process has died, has
\* left a lock file behind on a file system error, or has judged an owner by a
\* payload it could not read or a ps that failed: without any of these, however
\* long the lock is held, a contender sees a live pid, or an empty young file,
\* and backs off.
TheftNeedsAbandonment ==
  stolen # {} => dead # {} \/ failed # {} \/ blind # {}

\* A lock file left by a process that died is replaced: a process that starts
\* to acquire while it is there leaves the path without that file, unless it
\* dies itself or a call fails.
OrphanIsReplaced ==
  \A p \in Proc, q \in Proc :
    (/\ lock # NoFile /\ lock.creator[1] = q /\ lock.stage # "empty"
     /\ q \in dead /\ pc[p] = "create" /\ attempt[p] = 1)
      ~> (lock = NoFile \/ lock.creator[1] # q \/ p \in dead
          \/ ioErrors > 0)

\* What the comment on acquire says: an orphan is quarantined before creation
\* is retried, "so contenders cannot delete a newly-created lock".
NewLockNeverDeleted == stolen = {}

=============================================================================
