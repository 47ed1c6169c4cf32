---------------------------- MODULE EditCommands ----------------------------
(***************************************************************************)
(* Concurrent edit commands and the undo stack, from crates/cli/src/       *)
(* edit.rs.  Several greppy processes edit the same workspace:             *)
(*                                                                         *)
(*   edit    one file (replace-text, write, delete-lines ...): shares the  *)
(*           "transaction" barrier and owns its file                       *)
(*   patch   several files, one after the other, undone one by one when a  *)
(*           later one fails: owns the barrier                             *)
(*   rename  several files through the edit journal, whose promise (module *)
(*           AtomicStore) makes the publication one step, as long as the   *)
(*           process lives and its rollback succeeds: owns the barrier     *)
(*   undo    puts the files of a recorded transaction back: owns the       *)
(*           barrier                                                       *)
(*                                                                         *)
(* The locks are operating system locks: a process that dies loses them.   *)
(* Programs other than greppy take no lock (ForeignWrite).                 *)
(***************************************************************************)
EXTENDS Naturals, Sequences, Functions

CONSTANTS
  Proc,         \* greppy processes
  NoProc,       \* nobody
  File,         \* the files of the workspace
  Outside,      \* bound: the files other programs write
  Content,      \* what a file may contain
  Absent,       \* the file does not exist
  Torn,         \* a file opened for writing and not yet written
  Unreadable,   \* stack.json when it was cut off while being written
  Depth,        \* EDIT_JOURNAL_DEPTH, 100 in the code
  Verbs,        \* bound: the commands used
  MaxFiles,     \* bound: files of one patch or rename
  MaxIds,       \* bound: transactions opened
  MaxFaults     \* bound: failed calls, expired deadlines, deaths, foreign writes

Image == Content \cup {Absent, Torn}
Id == 1..MaxIds

\* One file of a transaction: what it was and what it becomes.
Transition == [file : File, before : Image, after : Image]

Distinct(ts) == \A i, j \in DOMAIN ts : ts[i].file = ts[j].file => i = j

Plans == {ts \in UNION {[1..n -> Transition] : n \in 1..MaxFiles} : Distinct(ts)}

\* A transaction in pending-<id>.json, without after-images (Absent), or in the
\* undo stack, with them.
Record == [id : Id, entries : Plans]

ASSUME CommandAssumption ==
  /\ NoProc \notin Proc
  /\ Outside \subseteq File
  /\ Absent \notin Content /\ Torn \notin Content \cup {Absent}
  /\ Unreadable \notin Seq(Record)
  /\ Depth \in Nat \ {0} /\ MaxFiles \in Nat \ {0} /\ MaxIds \in Nat /\ MaxFaults \in Nat
  /\ Verbs \subseteq {"edit", "patch", "rename", "undo"}

VARIABLES
  live,      \* the files
  barrier,   \* how each process holds the "transaction" lock
  owner,     \* who holds each file lock
  stackLock, \* who holds the "undo-stack" lock
  pending,   \* pending-<id>.json
  evidence,  \* rollback-conflict-<id>.json
  stack,     \* stack.json, oldest transaction first
  next,      \* the next transaction id
  job,       \* what each process is doing
  applied,   \* history: changes made and not taken back
  recorded,  \* history: transactions reported as done
  undone,    \* history: transactions reported as reversed
  trimmed,   \* history: transactions dropped at the bottom of the stack
  lapses,    \* history: events outside the ordinary course
  faults     \* bound: how many faults have happened

vars == <<live, barrier, owner, stackLock, pending, evidence, stack, next, job,
          applied, recorded, undone, trimmed, lapses, faults>>

locks == <<barrier, owner, stackLock>>
files == <<pending, evidence, stack>>
history == <<applied, recorded, undone, trimmed, lapses>>

Steps == {"idle", "barrier", "file", "plan", "open", "publish", "swap", "fill",
          "publishAll", "back", "backSwap", "abandon", "close", "stackLock",
          "readStack", "writeStack", "forget",
          "guard", "restore", "rewrite", "save", "saved"}

\* foreign: another program wrote a file; interrupted: a command ended between
\* its first change and its record; cutCreation: a file was created but not
\* filled; evidenceLost: the conflicts of a rollback could not be noted;
\* unread: a file could not be read before it was renamed in, and counts as absent
\* then; misread: the same for a published file when it was recorded; overlooked:
\* the stack could not be found, and counts as empty; kept: undo could not remove
\* a file; byId: a transaction other than the latest was undone.
Lapses == {"foreign", "interrupted", "cutCreation", "evidenceLost", "unread", "misread",
           "overlooked", "kept", "byId"}

\* mem is the copy of the undo stack in memory, pos the transaction undone;
\* clash is "yes" once a rollback met a conflict.
Job == [step : Steps, verb : Verbs \cup {"none"}, plan : Plans \cup {<<>>},
        idx : 1..MaxFiles, tid : Id \cup {0}, mem : Seq(Record), pos : Nat,
        clash : {"no", "yes"}]

Idle == [step |-> "idle", verb |-> "none", plan |-> <<>>, idx |-> 1, tid |-> 0,
         mem |-> <<>>, pos |-> 0, clash |-> "no"]

Change == [id : Id, verb : Verbs, file : File, before : Image, after : Image]

TypeOK ==
  /\ live \in [File -> Image]
  /\ barrier \in [Proc -> {"free", "shared", "exclusive"}]
  /\ owner \in [File -> Proc \cup {NoProc}]
  /\ stackLock \in Proc \cup {NoProc}
  /\ pending \subseteq Record /\ evidence \subseteq Record
  /\ stack \in Seq(Record) \cup {Unreadable}
  /\ next \in 1..MaxIds + 1
  /\ job \in [Proc -> Job]
  /\ applied \subseteq Change
  /\ recorded \subseteq Id /\ undone \subseteq Id /\ trimmed \subseteq Id
  /\ lapses \subseteq Lapses
  /\ faults \in 0..MaxFaults

Init ==
  /\ live \in [File -> Content \cup {Absent}]
  /\ barrier = [p \in Proc |-> "free"]
  /\ owner = [f \in File |-> NoProc] /\ stackLock = NoProc
  /\ pending = {} /\ evidence = {} /\ stack = <<>>
  /\ next = 1
  /\ job = [p \in Proc |-> Idle]
  /\ applied = {} /\ recorded = {} /\ undone = {} /\ trimmed = {} /\ lapses = {}
  /\ faults = 0

At(p, step) == job[p].step = step
Go(p, step) == job' = [job EXCEPT ![p].step = step]
Item(p) == job[p].plan[job[p].idx]

\* The command ends, well or not: its memory is gone and its locks are free.
Return(p) ==
  /\ job' = [job EXCEPT ![p] = Idle]
  /\ barrier' = [barrier EXCEPT ![p] = "free"]
  /\ owner' = [f \in File |-> IF owner[f] = p THEN NoProc ELSE owner[f]]
  /\ stackLock' = IF stackLock = p THEN NoProc ELSE stackLock

\* The change at hand, and the changes of this transaction to its file.
Made(p) == {[id |-> job[p].tid, verb |-> job[p].verb, file |-> Item(p).file,
             before |-> live[Item(p).file], after |-> Item(p).after]}
MadeTo(p, f) == {c \in applied : c.id = job[p].tid /\ c.file = f}

WithoutPending(p) == {r \in pending : r.id # job[p].tid}

-----------------------------------------------------------------------------
(* acquire_edit_command_locks                                              *)

StartEdit(p, f) ==
  /\ At(p, "idle")
  /\ job' = [job EXCEPT ![p].step = "barrier", ![p].verb = "edit",
                        ![p].plan = <<[file |-> f, before |-> Absent, after |-> Absent]>>]
  /\ UNCHANGED <<live, locks, files, next, history>>

StartWide(p, verb) ==
  /\ At(p, "idle")
  /\ job' = [job EXCEPT ![p].step = "barrier", ![p].verb = verb]
  /\ UNCHANGED <<live, locks, files, next, history>>

\* Mutant: undo shares the barrier like a single-file edit.
AcquireBarrierUndoShares(p) ==
  /\ At(p, "barrier")
  /\ IF job[p].verb \in {"edit", "undo"}
     THEN /\ \A q \in Proc : barrier[q] # "exclusive"
          /\ barrier' = [barrier EXCEPT ![p] = "shared"]
          /\ Go(p, IF job[p].verb = "edit" THEN "file" ELSE "plan")
     ELSE /\ \A q \in Proc : barrier[q] = "free"
          /\ barrier' = [barrier EXCEPT ![p] = "exclusive"]
          /\ Go(p, "plan")
  /\ UNCHANGED <<live, owner, stackLock, files, next, history>>

AcquireBarrier(p) ==
  /\ At(p, "barrier")
  /\ IF job[p].verb = "edit"
     THEN /\ \A q \in Proc : barrier[q] # "exclusive"
          /\ barrier' = [barrier EXCEPT ![p] = "shared"]
          /\ Go(p, "file")
     ELSE /\ \A q \in Proc : barrier[q] = "free"
          /\ barrier' = [barrier EXCEPT ![p] = "exclusive"]
          /\ Go(p, "plan")
  /\ UNCHANGED <<live, owner, stackLock, files, next, history>>

\* Mutant: the file lock is not exclusive.
AcquireFileShared(p) ==
  /\ At(p, "file")
  /\ owner' = [owner EXCEPT ![Item(p).file] = p]
  /\ Go(p, "plan")
  /\ UNCHANGED <<live, barrier, stackLock, files, next, history>>

AcquireFile(p) ==
  /\ At(p, "file")
  /\ owner[Item(p).file] = NoProc
  /\ owner' = [owner EXCEPT ![Item(p).file] = p]
  /\ Go(p, "plan")
  /\ UNCHANGED <<live, barrier, stackLock, files, next, history>>

\* 120 seconds have passed.  Before publication nothing was written; while
\* waiting for the undo stack the files are published and the pending record
\* stays.
Deadline(p) ==
  /\ At(p, "barrier") \/ At(p, "file") \/ At(p, "stackLock")
  /\ Return(p)
  /\ lapses' = IF At(p, "stackLock") THEN lapses \cup {"interrupted"} ELSE lapses
  /\ UNCHANGED <<live, files, next, applied, recorded, undone, trimmed>>

-----------------------------------------------------------------------------
(* Planning: the files are read under the locks.                           *)

\* A transition of edit and of patch creates, changes or (patch only) deletes
\* a file; rename changes existing files, and keeps none of one it cannot read.
Planned(verb) ==
  {ts \in Plans :
     /\ \A i \in DOMAIN ts :
          /\ \/ ts[i].before = live[ts[i].file]
             \/ verb = "rename" /\ ts[i].before = Absent
          /\ ts[i].after \in (IF verb = "patch" /\ ts[i].before # Absent
                              THEN Content \cup {Absent} ELSE Content)
          /\ verb = "rename" => live[ts[i].file] # Absent
     /\ \E i \in DOMAIN ts : ts[i].after # live[ts[i].file]}

\* The new content is computed; a command that would change nothing, or is
\* refused, ends here.
Plan(p) ==
  /\ At(p, "plan") /\ job[p].verb # "undo"
  /\ \/ Return(p) /\ UNCHANGED <<next, lapses>>
     \/ /\ next <= MaxIds
        /\ next' = next + 1
        /\ \E ts \in Planned(job[p].verb) :
             /\ job[p].verb = "edit" => Len(ts) = 1 /\ ts[1].file = Item(p).file
             /\ job' = [job EXCEPT ![p].plan = ts, ![p].tid = next,
                          ![p].step = IF job[p].verb = "rename" THEN "publishAll" ELSE "open"]
             /\ lapses' = IF \E i \in DOMAIN ts : ts[i].before # live[ts[i].file]
                          THEN lapses \cup {"unread"} ELSE lapses
        /\ UNCHANGED locks
  /\ UNCHANGED <<live, files, applied, recorded, undone, trimmed>>

\* edit_journal_open: the pre-images, then the pending record.
Open(p) ==
  /\ At(p, "open")
  /\ pending' = pending \cup {[id |-> job[p].tid, entries |->
       [i \in DOMAIN job[p].plan |-> [job[p].plan[i] EXCEPT !.after = Absent]]]}
  /\ Go(p, IF job[p].verb = "rename" THEN "close" ELSE "publish")
  /\ UNCHANGED <<live, locks, evidence, stack, next, history>>

-----------------------------------------------------------------------------
(* Publication of an edit and of a patch.                                  *)

\* The next file, or the record once the last one is published.
Advance(p) ==
  job' = IF job[p].idx < Len(job[p].plan)
         THEN [job EXCEPT ![p].idx = @ + 1, ![p].step = "publish"]
         ELSE [job EXCEPT ![p].idx = 1, ![p].step = "close"]

\* Mutant: the pending record is dropped before the rollback.
FailPublishForgetting(p) ==
  /\ pending' = WithoutPending(p)
  /\ IF job[p].idx = 1
     THEN Return(p)
     ELSE /\ job' = [job EXCEPT ![p].step = "back", ![p].idx = @ - 1]
          /\ UNCHANGED locks

\* A file was not published.  An edit, or a patch at its first file, drops its
\* pending record; a patch takes back what it published, last file first.
FailPublish(p) ==
  IF job[p].idx = 1
  THEN /\ pending' = WithoutPending(p)
       /\ Return(p)
  ELSE /\ job' = [job EXCEPT ![p].step = "back", ![p].idx = @ - 1]
       /\ UNCHANGED <<pending, locks>>

\* publish_atomic and publish_delete_atomic up to the comparison;
\* publish_create_atomic; the exclusive creation of the write command, which
\* fills the file afterwards.
Publish(p) ==
  /\ At(p, "publish")
  /\ LET t == Item(p) IN
     IF live[t.file] # t.before
     THEN FailPublish(p) /\ UNCHANGED <<live, applied>>
     ELSE IF t.before # Absent
     THEN Go(p, "swap") /\ UNCHANGED <<live, applied, pending, locks>>
     ELSE /\ live' = [live EXCEPT ![t.file] = IF job[p].verb = "edit" THEN Torn ELSE t.after]
          /\ applied' = applied \cup Made(p)
          /\ IF job[p].verb = "edit" THEN Go(p, "fill") ELSE Advance(p)
          /\ UNCHANGED <<pending, locks>>
  /\ UNCHANGED <<evidence, stack, next, recorded, undone, trimmed, lapses>>

\* The rename over the file, or its removal, which fails when it is gone.
Swap(p) ==
  /\ At(p, "swap")
  /\ LET t == Item(p) IN
     IF t.after = Absent /\ live[t.file] = Absent
     THEN FailPublish(p) /\ UNCHANGED <<live, applied>>
     ELSE /\ live' = [live EXCEPT ![t.file] = t.after]
          /\ applied' = applied \cup Made(p)
          /\ Advance(p)
          /\ UNCHANGED <<pending, locks>>
  /\ UNCHANGED <<evidence, stack, next, recorded, undone, trimmed, lapses>>

\* Bytes go to the open file; a file that replaced it meanwhile keeps its own.
Filled(f, image) == [live EXCEPT ![f] = IF @ = Torn THEN image ELSE @]

Fill(p) ==
  /\ At(p, "fill")
  /\ live' = Filled(Item(p).file, Item(p).after)
  /\ Advance(p)
  /\ UNCHANGED <<locks, files, next, history>>

\* Mutant: the rollback runs past the first file.
NextBackFromZero(p, clash) ==
  job' = IF job[p].idx > 0
         THEN [job EXCEPT ![p].idx = @ - 1, ![p].step = "back", ![p].clash = clash]
         ELSE [job EXCEPT ![p].step = "abandon", ![p].clash = clash]

\* The next file to take back, or the end of the rollback.
NextBack(p, clash) ==
  job' = IF job[p].idx > 1
         THEN [job EXCEPT ![p].idx = @ - 1, ![p].step = "back", ![p].clash = clash]
         ELSE [job EXCEPT ![p].step = "abandon", ![p].clash = clash]

\* publish_patch_transition with the images swapped: only what the patch left
\* there is taken back.
Back(p) ==
  /\ At(p, "back")
  /\ LET t == Item(p) IN
     IF live[t.file] # t.after
     THEN NextBack(p, "yes") /\ UNCHANGED <<live, applied>>
     ELSE IF t.after # Absent
     THEN Go(p, "backSwap") /\ UNCHANGED <<live, applied>>
     ELSE /\ live' = [live EXCEPT ![t.file] = t.before]
          /\ applied' = applied \ MadeTo(p, t.file)
          /\ NextBack(p, job[p].clash)
  /\ UNCHANGED <<locks, files, next, recorded, undone, trimmed, lapses>>

BackSwap(p) ==
  /\ At(p, "backSwap")
  /\ LET t == Item(p) IN
     IF t.before = Absent /\ live[t.file] = Absent
     THEN NextBack(p, "yes") /\ UNCHANGED <<live, applied>>
     ELSE /\ live' = [live EXCEPT ![t.file] = t.before]
          /\ applied' = applied \ MadeTo(p, t.file)
          /\ NextBack(p, job[p].clash)
  /\ UNCHANGED <<locks, files, next, recorded, undone, trimmed, lapses>>

\* The conflicts, if any, are noted with the pending record, which then goes.
Abandon(p) ==
  /\ At(p, "abandon")
  /\ evidence' = IF job[p].clash = "yes"
                 THEN evidence \cup {r \in pending : r.id = job[p].tid} ELSE evidence
  /\ pending' = WithoutPending(p)
  /\ Return(p)
  /\ UNCHANGED <<live, stack, next, history>>

\* rename: the journal publishes all of the files or none of them.  The images
\* read for the undo record are not compared with what is replaced here.
PublishAll(p) ==
  /\ At(p, "publishAll")
  /\ \/ Return(p) /\ UNCHANGED <<live, applied>>
     \/ LET ts == job[p].plan IN
          /\ live' = [f \in File |->
               IF \E i \in DOMAIN ts : ts[i].file = f
               THEN ts[CHOOSE i \in DOMAIN ts : ts[i].file = f].after ELSE live[f]]
          /\ applied' = applied \cup
               {[id |-> job[p].tid, verb |-> "rename", file |-> ts[i].file,
                 before |-> live[ts[i].file], after |-> ts[i].after] : i \in DOMAIN ts}
          /\ Go(p, "open")
          /\ UNCHANGED locks
  /\ UNCHANGED <<files, next, recorded, undone, trimmed, lapses>>

\* The process dies between two files, or the rollback of a publication that failed
\* does not succeed: files before the last one are left published, or cut off while
\* they were put back.  The edit journal has their old bytes, the undo stack not.
PublishPart(p) ==
  /\ At(p, "publishAll")
  /\ LET ts == job[p].plan IN
     \E done, cut \in SUBSET (1..Len(ts) - 1) :
       /\ done \cup cut # {}
       /\ live' = [f \in File |->
            IF \E i \in cut : ts[i].file = f THEN Torn
            ELSE IF \E i \in done : ts[i].file = f
            THEN ts[CHOOSE i \in done : ts[i].file = f].after ELSE live[f]]
       /\ applied' = applied \cup
            {[id |-> job[p].tid, verb |-> "rename", file |-> ts[i].file,
              before |-> live[ts[i].file], after |-> live'[ts[i].file]] : i \in done \cup cut}
  /\ Return(p)
  /\ lapses' = lapses \cup {"interrupted"}
  /\ UNCHANGED <<files, next, recorded, undone, trimmed>>

-----------------------------------------------------------------------------
(* edit_journal_close                                                      *)

\* Mutant: the after-images are not filled in.
CloseBlank(p) ==
  /\ At(p, "close")
  /\ \E r \in pending :
       /\ r.id = job[p].tid
       /\ job' = [job EXCEPT ![p].step = "stackLock", ![p].plan = r.entries]
  /\ UNCHANGED <<live, locks, files, next, history>>

\* The after-images are whatever the files contain now.
Close(p) ==
  /\ At(p, "close")
  /\ \E r \in pending :
       /\ r.id = job[p].tid
       /\ job' = [job EXCEPT ![p].step = "stackLock",
            ![p].plan = [i \in DOMAIN r.entries |->
                           [r.entries[i] EXCEPT !.after = live[r.entries[i].file]]]]
  /\ UNCHANGED <<live, locks, files, next, history>>

\* Mutant: the undo stack is read and written without its lock.
StackLockSkipped(p) ==
  /\ At(p, "stackLock")
  /\ Go(p, "readStack")
  /\ UNCHANGED <<live, barrier, owner, stackLock, files, next, history>>

StackLock(p) ==
  /\ At(p, "stackLock")
  /\ stackLock = NoProc
  /\ stackLock' = p
  /\ Go(p, "readStack")
  /\ UNCHANGED <<live, barrier, owner, files, next, history>>

\* A stack that cannot be parsed is an error; the pending record stays.
ReadStack(p) ==
  /\ At(p, "readStack")
  /\ IF stack = Unreadable
     THEN Return(p) /\ lapses' = lapses \cup {"interrupted"}
     ELSE /\ job' = [job EXCEPT ![p].step = "writeStack", ![p].mem = stack]
          /\ UNCHANGED <<locks, lapses>>
  /\ UNCHANGED <<live, files, next, applied, recorded, undone, trimmed>>

\* The transaction is appended, the oldest ones beyond the depth are dropped,
\* and the stack is replaced atomically.
WriteStack(p) ==
  /\ At(p, "writeStack")
  /\ LET all == Append(job[p].mem, [id |-> job[p].tid, entries |-> job[p].plan])
         excess == IF Len(all) > Depth THEN Len(all) - Depth ELSE 0 IN
       /\ stack' = SubSeq(all, excess + 1, Len(all))
       /\ trimmed' = trimmed \cup {all[i].id : i \in 1..excess}
  /\ Go(p, "forget")
  /\ UNCHANGED <<live, locks, pending, evidence, next, applied, recorded, undone, lapses>>

\* Mutant: the lock on the undo stack outlives the command.
ForgetLocked(p) ==
  /\ At(p, "forget")
  /\ pending' = WithoutPending(p)
  /\ recorded' = recorded \cup {job[p].tid}
  /\ job' = [job EXCEPT ![p] = Idle]
  /\ barrier' = [barrier EXCEPT ![p] = "free"]
  /\ owner' = [f \in File |-> IF owner[f] = p THEN NoProc ELSE owner[f]]
  /\ UNCHANGED <<live, stackLock, evidence, stack, next, applied, undone, trimmed, lapses>>

Forget(p) ==
  /\ At(p, "forget")
  /\ pending' = WithoutPending(p)
  /\ recorded' = recorded \cup {job[p].tid}
  /\ Return(p)
  /\ UNCHANGED <<live, evidence, stack, next, applied, undone, trimmed, lapses>>

-----------------------------------------------------------------------------
(* run_edit_undo and edit_journal_restore                                  *)

\* The latest transaction, or one named by its id.  Nothing is undone when there is
\* no such transaction, when only a preview was asked for, or when the stack is not
\* there or cannot be read.
Select(p) ==
  /\ At(p, "plan") /\ job[p].verb = "undo"
  /\ \/ Return(p) /\ UNCHANGED lapses
     \/ /\ stack # Unreadable
        /\ \E i \in 1..Len(stack) :
             /\ job' = [job EXCEPT ![p].step = "guard", ![p].mem = stack, ![p].pos = i,
                                   ![p].tid = stack[i].id, ![p].plan = stack[i].entries]
             /\ lapses' = IF i = Len(stack) THEN lapses ELSE lapses \cup {"byId"}
        /\ UNCHANGED locks
  /\ UNCHANGED <<live, files, next, applied, recorded, undone, trimmed>>

\* Mutant: undo restores unguarded.
GuardSkipped(p) ==
  /\ At(p, "guard")
  /\ Go(p, "restore")
  /\ UNCHANGED <<live, locks, files, next, history>>

\* Every file must look the way that edit left it.
Guard(p) ==
  /\ At(p, "guard")
  /\ IF \A i \in DOMAIN job[p].plan : live[job[p].plan[i].file] = job[p].plan[i].after
     THEN Go(p, "restore") /\ UNCHANGED locks ELSE Return(p)
  /\ UNCHANGED <<live, files, next, history>>

NextRestore(p) ==
  job' = IF job[p].idx < Len(job[p].plan)
         THEN [job EXCEPT ![p].idx = @ + 1, ![p].step = "restore"]
         ELSE [job EXCEPT ![p].idx = 1, ![p].step = "save"]

\* A created file is removed; any other is truncated and then written.
Restore(p) ==
  /\ At(p, "restore")
  /\ LET t == Item(p) IN
     IF t.before = Absent
     THEN /\ live' = [live EXCEPT ![t.file] = Absent]
          /\ applied' = applied \ MadeTo(p, t.file)
          /\ NextRestore(p)
     ELSE /\ live' = [live EXCEPT ![t.file] = Torn]
          /\ Go(p, "rewrite")
          /\ UNCHANGED applied
  /\ UNCHANGED <<locks, files, next, recorded, undone, trimmed, lapses>>

\* Mutant: the images are swapped.
RewriteAfter(p) ==
  /\ At(p, "rewrite")
  /\ live' = Filled(Item(p).file, Item(p).after)
  /\ applied' = applied \ MadeTo(p, Item(p).file)
  /\ NextRestore(p)
  /\ UNCHANGED <<locks, files, next, recorded, undone, trimmed, lapses>>

Rewrite(p) ==
  /\ At(p, "rewrite")
  /\ live' = Filled(Item(p).file, Item(p).before)
  /\ applied' = applied \ MadeTo(p, Item(p).file)
  /\ NextRestore(p)
  /\ UNCHANGED <<locks, files, next, recorded, undone, trimmed, lapses>>

\* The stack without its transaction at position i.
Without(s, i) == SubSeq(s, 1, i - 1) \o SubSeq(s, i + 1, Len(s))

\* The stack is written in place, and an error is ignored.
Save(p) ==
  /\ At(p, "save")
  /\ stack' = Unreadable
  /\ Go(p, "saved")
  /\ UNCHANGED <<live, locks, pending, evidence, next, history>>

Saved(p) ==
  /\ At(p, "saved")
  /\ stack' = Without(job[p].mem, job[p].pos)
  /\ undone' = undone \cup {job[p].tid}
  /\ Return(p)
  /\ UNCHANGED <<live, pending, evidence, next, applied, recorded, trimmed, lapses>>

-----------------------------------------------------------------------------
(* Failures and other programs                                             *)

\* The command has changed a file, and its record does not say so yet.
MidChange(p) ==
  \/ job[p].step \in {"fill", "back", "backSwap", "abandon", "close", "stackLock",
                      "readStack", "writeStack", "rewrite", "save", "saved"}
  \/ job[p].step \in {"publish", "swap", "restore"} /\ job[p].idx > 1
  \/ job[p].step = "open" /\ job[p].verb = "rename"

\* Undo is about to remove a file that its transaction created.
CreatedHere(p) == At(p, "restore") /\ Item(p).before = Absent

\* A file system call fails and the command ends there.
ReturnError(p) ==
  /\ job[p].step \in {"barrier", "file", "open", "close", "stackLock", "readStack",
                      "writeStack", "guard", "restore", "rewrite"}
  /\ ~CreatedHere(p)
  /\ Return(p)
  /\ lapses' = IF MidChange(p) THEN lapses \cup {"interrupted"} ELSE lapses
  /\ UNCHANGED <<pending, recorded, undone>>

\* A publication that fails is taken back, as far as there is anything to take
\* back; a file created and not filled stays.
PublishError(p) ==
  /\ job[p].step \in {"publish", "swap", "fill"}
  /\ FailPublish(p)
  /\ lapses' = IF At(p, "fill") THEN lapses \cup {"cutCreation"} ELSE lapses
  /\ UNCHANGED <<recorded, undone>>

BackError(p) ==
  /\ job[p].step \in {"back", "backSwap"}
  /\ NextBack(p, "yes")
  /\ lapses' = lapses \cup {"interrupted"}
  /\ UNCHANGED <<pending, locks, recorded, undone>>

\* The note on conflicts is lost, the removal of the pending record fails, the
\* undo stack is not written: none of these is reported, and the command ends
\* as usual.
IgnoredAtEnd(p) ==
  /\ \/ /\ At(p, "abandon")
        /\ \/ UNCHANGED <<pending, lapses>>
           \/ /\ job[p].clash = "yes"
              /\ pending' = WithoutPending(p) /\ lapses' = lapses \cup {"evidenceLost"}
        /\ UNCHANGED <<recorded, undone>>
     \/ /\ At(p, "forget")
        /\ recorded' = recorded \cup {job[p].tid}
        /\ UNCHANGED <<pending, undone, lapses>>
     \/ /\ At(p, "save") \/ At(p, "saved")
        /\ undone' = undone \cup {job[p].tid}
        /\ lapses' = lapses \cup {"interrupted"}
        /\ UNCHANGED <<pending, recorded>>
  /\ Return(p)

\* A published file that cannot be read is recorded as absent; a stack that cannot be
\* found counts as empty, and is written over; a created file that cannot be removed
\* is passed over.
IgnoredInside(p) ==
  /\ \/ /\ At(p, "close")
        /\ \E r \in pending : \E i \in DOMAIN r.entries :
             /\ r.id = job[p].tid
             /\ job' = [job EXCEPT ![p].step = "stackLock",
                  ![p].plan = [k \in DOMAIN r.entries |-> [r.entries[k] EXCEPT !.after =
                                 IF k = i THEN Absent ELSE live[r.entries[k].file]]]]
        /\ lapses' = lapses \cup {"misread"}
     \/ /\ At(p, "readStack")
        /\ job' = [job EXCEPT ![p].step = "writeStack", ![p].mem = <<>>]
        /\ lapses' = lapses \cup {"overlooked"}
     \/ /\ CreatedHere(p)
        /\ NextRestore(p)
        /\ lapses' = lapses \cup {"kept"}
  /\ UNCHANGED <<pending, locks, recorded, undone>>

IoError(p) ==
  /\ \/ ReturnError(p) \/ PublishError(p) \/ BackError(p)
     \/ IgnoredAtEnd(p) \/ IgnoredInside(p)
  /\ UNCHANGED <<live, evidence, stack, next, applied, trimmed>>

\* The process dies; its files stay as they are.
Crash(p) ==
  /\ ~At(p, "idle")
  /\ Return(p)
  /\ lapses' = IF MidChange(p) THEN lapses \cup {"interrupted"} ELSE lapses
  /\ UNCHANGED <<live, files, next, applied, recorded, undone, trimmed>>

\* Another program replaces, creates or deletes a file.
ForeignWrite(f, image) ==
  /\ live[f] # image
  /\ live' = [live EXCEPT ![f] = image]
  /\ lapses' = lapses \cup {"foreign"}
  /\ UNCHANGED <<locks, files, next, job, applied, recorded, undone, trimmed>>

\* What a process does once it has started.
Progress(p) ==
  \/ AcquireBarrier(p) \/ AcquireFile(p) \/ Plan(p) \/ Open(p)
  \/ Publish(p) \/ Swap(p) \/ Fill(p) \/ Back(p) \/ BackSwap(p) \/ Abandon(p)
  \/ PublishAll(p)
  \/ Close(p) \/ StackLock(p) \/ ReadStack(p) \/ WriteStack(p) \/ Forget(p)
  \/ Select(p) \/ Guard(p) \/ Restore(p) \/ Rewrite(p) \/ Save(p) \/ Saved(p)

Start(p) ==
  \/ \E f \in File : "edit" \in Verbs /\ StartEdit(p, f)
  \/ \E verb \in Verbs \ {"edit"} : StartWide(p, verb)

Fault ==
  /\ faults < MaxFaults /\ faults' = faults + 1
  /\ \/ \E p \in Proc : Deadline(p) \/ PublishPart(p) \/ IoError(p) \/ Crash(p)
     \/ \E f \in Outside, image \in Content \cup {Absent} : ForeignWrite(f, image)

Next ==
  \/ (\E p \in Proc : Start(p) \/ Progress(p)) /\ UNCHANGED faults
  \/ Fault

Spec == Init /\ [][Next]_vars

\* A running process is scheduled.
Fairness == \A p \in Proc : WF_vars(Progress(p) /\ UNCHANGED faults)
FairSpec == Spec /\ Fairness

-----------------------------------------------------------------------------
(* Properties                                                              *)

Ids(records) == {r.id : r \in records}

\* No edit is forgotten: a transaction reported as done is in the undo stack
\* until it is undone or falls off the bottom, however the appends of parallel
\* edits and the rewriting of the stack by undo interleave, unless a stack that is
\* there could not be found; and the stack keeps to its depth.
HistoryKept ==
  stack # Unreadable =>
    /\ "overlooked" \notin lapses => recorded \subseteq Ids(Range(stack)) \cup undone \cup trimmed
    /\ Len(stack) <= Depth

Preserved(c) ==
  \/ c.id \in trimmed
  \/ \E r \in pending \cup evidence \cup (IF stack = Unreadable THEN {} ELSE Range(stack)) :
       /\ r.id = c.id
       /\ \E i \in DOMAIN r.entries : r.entries[i].file = c.file /\ r.entries[i].before = c.before

\* Every change that was made and not taken back has its pre-image in a pending
\* record, in the undo stack or in the note on a failed rollback, whenever processes
\* die or calls fail.  A creation that was cut off, and a created file that undo could
\* not remove, leave files behind but replace nothing; a rename records its change
\* last, so that one that was interrupted goes without, and so does one that could not
\* read a file before it changed it.  Nothing is said once a note was lost, another
\* program got in between, or the undo stack was destroyed or could not be found.
ChangesHavePreImages ==
  stack # Unreadable /\ lapses \cap {"foreign", "evidenceLost", "overlooked"} = {} =>
    \A c \in applied :
      \/ Preserved(c)
      \/ c.before = Absent /\ lapses \cap {"cutCreation", "kept"} # {}
      \/ /\ c.verb = "rename"
         /\ \/ lapses \cap {"interrupted", "unread"} # {}
            \/ \E p \in Proc : At(p, "open") /\ job[p].tid = c.id

\* Undo writes the stack in place and without the lock of the stack, but no command
\* ever meets it half written, unless an undo was interrupted: the barrier keeps the
\* readers out (run_edit_undo, acquire_edit_command_locks).
HalfStackUnseen ==
  stack = Unreadable /\ "interrupted" \notin lapses =>
    \A p \in Proc : ~At(p, "readStack") /\ ~(At(p, "plan") /\ job[p].verb = "undo")

\* Commands do not write over each other: whatever is replaced is what was read
\* when the change was planned, as long as no other program writes.
NoLostUpdate ==
  [][\A p \in Proc :
       At(p, "swap") /\ job'[p].step \in {"publish", "close"} /\ "foreign" \notin lapses =>
         live[Item(p).file] = Item(p).before]_vars

\* The latest transaction can be undone: the files differ from what it left
\* only after another program wrote, a command was interrupted, or transactions
\* were undone out of order.
UndoAccepted ==
  lapses = {} =>
    \A p \in Proc : At(p, "guard") =>
      \A i \in DOMAIN job[p].plan : live[job[p].plan[i].file] = job[p].plan[i].after

\* Undo, file after file, replaces only what its transaction left there: no
\* other command gets between the comparison of all files and the writing of
\* each, and a transaction overtaken by a later one is refused.
UndoOverwritesOnlyItsEdit ==
  "foreign" \notin lapses =>
    \A p \in Proc : At(p, "restore") => live[Item(p).file] = Item(p).after

\* A reported undo has put every file of its transaction back, unless another
\* program wrote or a created file could not be removed.
UndoRestores ==
  [][\A p \in Proc :
       At(p, "saved") /\ job[p].tid \in undone' /\ lapses' \cap {"foreign", "kept"} = {} =>
         \A i \in DOMAIN job[p].plan : live'[job[p].plan[i].file] = job[p].plan[i].before]_vars

\* The order in which the locks are taken lets every command that has its files
\* finish: none waits forever for the undo stack, also when a process dies while
\* it holds a lock.  No two wait for each other; that others overtake one for ever
\* is excluded by MaxIds here, and by the deadline of 120 seconds in the code.
LockedCommandReturns ==
  \A p \in Proc : (job[p].step \notin {"idle", "barrier", "file"}) ~> At(p, "idle")

\* What edit_journal_restore says: an undo that is accepted overwrites no bytes
\* other than those its transaction published.
UndoSparesUnseenBytes ==
  [][\A p \in Proc : At(p, "guard") /\ job'[p].step = "restore" =>
       \A i \in DOMAIN job[p].plan :
         \E c \in applied : /\ c.id = job[p].tid /\ c.file = job[p].plan[i].file
                            /\ c.after = live[c.file]]_vars

=============================================================================
