--------------------------- MODULE ProposalsProofs ---------------------------
(***************************************************************************)
(* Proofs about Proposals, for any number of processes, runs and paths and *)
(* any bounds.  The invariant is built in layers:                          *)
(*                                                                         *)
(*   Phases     which command a process executes where its pc is           *)
(*   Holds      where the operation lease is held                          *)
(*   Transact   what a publication or its rollback has done so far         *)
(*   Runs       the run a process works on has its baseline                *)
(*   Checked    what the process that writes the tree knows of its path    *)
(*   Others     the types of the variables the other layers leave open     *)
(*   Snapshots  a baseline covers the whole tree                           *)
(*   Values     a baseline holds only what existed when it was captured    *)
(*   Placed     what an application has put in place so far                *)
(*   Tracked    what the tree and the baselines have of each proposal      *)
(***************************************************************************)
EXTENDS Proposals, TLAPS

\* Recovery only, the steps of a publication, and of the rollback of one.
Starting == {"pub_list", "pub_read", "pub_lease", "apply_list", "apply_read", "apply_lease"}
Publishing == {"publish_journal", "publish_base", "publish_record", "publish_ref", "publish_done"}
Applying == {"begin", "journal", "preflight", "check", "write", "verify", "final"}
Undoing == {"pub_recover", "del_ref", "del_base", "del_record", "del_journal"}

Types ==
  /\ pc \in [Proc -> Label] /\ cmd \in [Proc -> Command]
  /\ cur = [x \in Proc |-> cur[x]]
  /\ lease \in Proc \cup {NoProc}

Phases ==
  \A x \in Proc :
    /\ pc[x] \in Starting => x \in recovering
    /\ pc[x] \in {"idle", "ready"} \cup Applying => x \notin recovering
    /\ x \in recovering \/ pc[x] \in {"idle", "ready"} => cmd[x].op = "none"
    /\ pc[x] \in Publishing \cup {"publish_lease"} => cmd[x].op = "run"
    /\ pc[x] \in Undoing => x \in recovering \/ cmd[x].op = "run"

Holds ==
  \A x \in Proc :
    /\ pc[x] \in Publishing \cup Undoing => lease = x
    /\ pc[x] \in Writing /\ cmd[x].op # "run" => lease = x

Leased == Types /\ Phases /\ Holds

\* Where a process works on a run that exists.
Bound == {"pub_lease", "apply_lease", "publish_lease"} \cup Publishing \cup Undoing
           \cup (Writing \ {"begin"})

Runs ==
  /\ used \subseteq Run /\ pubJournal \subseteq used /\ applyJournal \subseteq used
  /\ record \subseteq used
  /\ \A x \in Proc : pc[x] \in Bound => cur[x] \in used

\* What the process that publishes a proposal, or rolls one back, has done so far.
Transact ==
  \A x \in Proc :
    LET r == cur[x] IN
    /\ pc[x] \in Publishing \ {"publish_journal"} => r \in pubJournal
    /\ pc[x] \in {"publish_record", "publish_ref", "publish_done"} => r \in baseRef
    /\ pc[x] \in {"publish_ref", "publish_done"} => r \in record
    /\ pc[x] = "publish_done" => r \in ref
    /\ pc[x] \in {"del_base", "del_record", "del_journal"} => r \notin ref
    /\ pc[x] \in {"del_record", "del_journal"} => r \notin baseRef
    /\ pc[x] = "del_journal" => r \notin record
    /\ pc[x] \in {"del_ref", "del_base", "del_record"} =>
         r \in pubJournal \/ r \notin ref \cup baseRef \cup record

Publications == Transact /\ PublicationWhole /\ RefIsBacked

\* While writers do not overlap, the path about to be written is as it was checked.
Checked ==
  "overlap" \notin lapses =>
    /\ \A x, y \in Proc : pc[x] \in Writing /\ pc[y] \in Writing => x = y
    /\ \A x \in Proc \ late :
         LET p == First(left[x]) IN
         pc[x] = "write" /\ p \in Path => tree[p] = base[cur[x]][p]
    /\ \A x \in Proc \ late :
         LET p == NextRestored(base[cur[x]], left[x]) IN
         pc[x] = "restore_write" /\ p \in Path => tree[p] \in {base[cur[x]][p], cur[x]}

TreeTypes ==
  /\ tree = [p \in Path |-> tree[p]] /\ base = [r \in Run |-> base[r]]
  /\ left = [x \in Proc |-> left[x]] /\ edits \in Nat

Writers == TreeTypes /\ Checked

IInv == Leased /\ Runs /\ Publications /\ Writers

-----------------------------------------------------------------------------
\* Every step keeps the lease with the process that needs it.
LEMMA LeasedNext ==
  ASSUME Leased, [Next]_vars PROVE Leased'
<1>0. Types /\ Phases /\ Holds
  BY Zenon DEF Leased
<1>1. UNCHANGED vars => Leased'
  BY Zenon, <1>0 DEF Leased, Types, Phases, Holds, vars, local
<1>2. ASSUME NEW p \in Path, UserEdit(p) PROVE Leased'
  BY Zenon, <1>0, <1>2 DEF Leased, Types, Phases, Holds, UserEdit
<1>3. ASSUME NEW x \in Proc, End(x) PROVE Leased'
  <2>1. cur' = [y \in Proc |-> cur'[y]]
    BY Zenon, <1>0, <1>3 DEF Types, End
  <2>2. /\ cmd' \in [Proc -> Command] /\ cmd'[x].op = "none"
        /\ \A y \in Proc \ {x} : cmd'[y] = cmd[y]
    BY Zenon, <1>0, <1>3, ProposalAssumption DEF Types, End, Command, NoCommand
  <2>3. pc' \in [Proc -> Label] /\ pc'[x] = "idle" /\ \A y \in Proc \ {x} : pc'[y] = pc[y]
    BY Zenon, <1>0, <1>3 DEF Types, End, Goto, Label
  <2> QED
    BY SMTT(30), <1>0, <1>3, <2>1, <2>2, <2>3, ProposalAssumption
      DEF Leased, Types, Phases, Holds, End, Release, Starting, Publishing, Undoing, Applying, Writing
<1>4. ASSUME NEW x \in Proc, OpenCore(x) PROVE Leased'
  BY <1>0, <1>4, Zenon
    DEF Leased, Types, Phases, Holds, OpenCore, At, Goto, Label, Starting, Publishing, Undoing, Applying, Writing
<1>5. ASSUME NEW x \in Proc, ListPublications(x) \/ ListApplications(x) PROVE Leased'
  BY SMTT(30), <1>0, <1>5
    DEF Leased, Types, Phases, Holds, ListPublications, ListApplications, Recovered, At, Goto, Label,
        Starting, Publishing, Undoing, Applying, Writing
<1>6. ASSUME NEW x \in Proc, ReadPublication(x) \/ ReadApplication(x) PROVE Leased'
  BY SMTT(30), <1>0, <1>3, <1>6
    DEF Leased, Types, Phases, Holds, ReadPublication, ReadApplication, At, Goto, Label,
        Starting, Publishing, Undoing, Applying, Writing
<1>7. ASSUME NEW x \in Proc, LeasePublication(x) \/ LeaseApplication(x) \/ PublishLease(x) PROVE Leased'
  BY SMTT(30), <1>0, <1>3, <1>7, ProposalAssumption
    DEF Leased, Types, Phases, Holds, LeasePublication, LeaseApplication, PublishLease, PublishError, Keep,
        At, Goto, Label, Starting, Publishing, Undoing, Applying, Writing
<1>8. ASSUME NEW x \in Proc, RecoverPublication(x) PROVE Leased'
  BY SMTT(30), <1>0, <1>3, <1>8, ProposalAssumption
    DEF Leased, Types, Phases, Holds, RecoverPublication, PublicationError, PublishError, NextPublication,
        Published, Meets, Keep, At, Goto, Label, Starting, Publishing, Undoing, Applying, Writing
<1>9. ASSUME NEW x \in Proc, DeleteRef(x) \/ DeleteBaseRef(x) \/ RemoveRecord(x) PROVE Leased'
  BY SMTT(30), <1>0, <1>9
    DEF Leased, Types, Phases, Holds, DeleteRef, DeleteBaseRef, RemoveRecord, Keep, At, Goto, Label,
        Starting, Publishing, Undoing, Applying, Writing
<1>10. ASSUME NEW x \in Proc, DeleteJournal(x) PROVE Leased'
  BY SMTT(30), <1>0, <1>3, <1>10, ProposalAssumption
    DEF Leased, Types, Phases, Holds, DeleteJournal, PublicationError, PublishError, NextPublication,
        At, Goto, Label, Starting, Publishing, Undoing, Applying, Writing
<1>11. ASSUME NEW x \in Proc, ApplyReturns(x), pc[x] \in Writing, x \notin recovering PROVE Leased'
  BY SMTT(30), <1>0, <1>3, <1>11, ProposalAssumption
    DEF Leased, Types, Phases, Holds, ApplyReturns, Release, Goto, Label, Starting, Publishing, Undoing, Applying,
        Writing
<1>12. ASSUME NEW x \in Proc, RestoreError(x), pc[x] \in Writing PROVE Leased'
  BY Zenon, <1>3, <1>11, <1>12 DEF RestoreError
<1>13. ASSUME NEW x \in Proc, Restore(x) \/ RestoreCheck(x) \/ RestoreWrite(x) PROVE Leased'
  BY SMTT(30), <1>0, <1>12, <1>13
    DEF Leased, Types, Phases, Holds, Restore, RestoreCheck, RestoreWrite, Keep, At, Goto, Label,
        Starting, Publishing, Undoing, Applying, Writing
<1>14. ASSUME NEW x \in Proc, RestoreDone(x) PROVE Leased'
  BY SMTT(30), <1>0, <1>11, <1>12, <1>14, ProposalAssumption
    DEF Leased, Types, Phases, Holds, RestoreDone, NextApplication, Recovered, At, Goto, Label,
        Starting, Publishing, Undoing, Applying, Writing
<1>15. ASSUME NEW x \in Proc, NEW r \in Run, NEW f \in Flags[r], CreateWorkspace(x, r, f) PROVE Leased'
  <2>1. cur' = [y \in Proc |-> cur'[y]]
    BY Zenon, <1>0, <1>15 DEF Types, CreateWorkspace
  <2>2. /\ cmd' \in [Proc -> Command] /\ cmd'[x].op = "run"
        /\ \A y \in Proc \ {x} : cmd'[y] = cmd[y]
    BY SMTT(30), <1>0, <1>15, ProposalAssumption DEF Types, CreateWorkspace, Command
  <2> QED
    BY SMTT(30), <1>0, <1>15, <2>1, <2>2
      DEF Leased, Types, Phases, Holds, CreateWorkspace, At, Goto, Label, Starting, Publishing, Undoing,
          Applying, Writing
<1>16. ASSUME NEW x \in Proc, PublishJournal(x) \/ PublishStep(x) PROVE Leased'
  BY SMTT(30), <1>0, <1>16
    DEF Leased, Types, Phases, Holds, PublishJournal, PublishStep, PublishBase, PublishRecord, PublishRef,
        AfterPublish, Keep, At, Goto, Label, Starting, Publishing, Undoing, Applying, Writing
<1>17. ASSUME NEW x \in Proc, PublishDone(x) \/ Cleanup(x) PROVE Leased'
  BY SMTT(30), <1>0, <1>3, <1>17, ProposalAssumption
    DEF Leased, Types, Phases, Holds, PublishDone, Cleanup, Published, Meets, Keep, At, Goto, Label,
        Starting, Publishing, Undoing, Applying, Writing
<1>18. ASSUME NEW x \in Proc, PublishFails(x) PROVE Leased'
  BY SMTT(30), <1>0, <1>3, <1>18
    DEF Leased, Types, Phases, Holds, PublishFails, PublishBase, PublishRecord, PublishRef, AfterPublish,
        PublicationError, PublishError, Keep, At, Goto, Label, Starting, Publishing, Undoing, Applying, Writing
<1>19. ASSUME NEW x \in Proc, NEW r \in Run, TakeLease(x, r) PROVE Leased'
  <2>1. CASE lease # NoProc
    BY Zenon, <1>3, <1>19, <2>1 DEF TakeLease
  <2>2. CASE lease = NoProc
    <3>1. cur' = [y \in Proc |-> cur'[y]]
      BY Zenon, <1>0, <1>19, <2>2 DEF Types, TakeLease
    <3>2. cmd' \in [Proc -> Command] /\ \A y \in Proc \ {x} : cmd'[y] = cmd[y]
      BY SMTT(30), <1>0, <1>19, <2>2 DEF Types, TakeLease, Command
    <3> QED
      BY SMTT(30), <1>0, <1>19, <2>2, <3>1, <3>2, ProposalAssumption
        DEF Leased, Types, Phases, Holds, TakeLease, At, Goto, Label, Starting, Publishing, Undoing,
            Applying, Writing
  <2> QED
    BY Zenon, <2>1, <2>2
<1>20. ASSUME NEW x \in Proc, Begin(x) \/ ApplyJournal(x) \/ Preflight(x) PROVE Leased'
  BY SMTT(30), <1>0, <1>11, <1>20
    DEF Leased, Types, Phases, Holds, Begin, ApplyJournal, Preflight, Keep, At, Goto, Label,
        Starting, Publishing, Undoing, Applying, Writing
<1>21. ASSUME NEW x \in Proc, CheckPath(x) \/ WritePath(x) \/ VerifyPath(x) PROVE Leased'
  BY SMTT(30), <1>0, <1>11, <1>21
    DEF Leased, Types, Phases, Holds, CheckPath, WritePath, VerifyPath, Keep, At, Goto, Label,
        Starting, Publishing, Undoing, Applying, Writing
<1>22. ASSUME NEW x \in Proc, FinalCheck(x) \/ ApplyFails(x) PROVE Leased'
  BY SMTT(30), <1>0, <1>11, <1>12, <1>22
    DEF Leased, Types, Phases, Holds, FinalCheck, ApplyFails, Keep, At, Goto, Label,
        Starting, Publishing, Undoing, Applying, Writing
<1>23. ASSUME NEW x \in Proc, Die(x) PROVE Leased'
  BY Zenon, <1>3, <1>23 DEF Die
<1> QED
  BY Zenon, <1>1, <1>2, <1>4, <1>5, <1>6, <1>7, <1>8, <1>9, <1>10, <1>13, <1>14, <1>15, <1>16, <1>17, <1>18,
     <1>19, <1>20, <1>21, <1>22, <1>23
    DEF Next, Step, Recover, Publish, Apply

\* Every step keeps to the runs that have their baseline: journals and records are theirs.
LEMMA RunsNext ==
  ASSUME Leased, Runs, [Next]_vars PROVE Runs'
<1>0. Types /\ Runs
  BY Zenon DEF Leased
<1>1. UNCHANGED vars => Runs'
  BY Zenon, <1>0 DEF Runs, vars, local, published, counts
<1>2. ASSUME NEW p \in Path, UserEdit(p) PROVE Runs'
  BY Zenon, <1>0, <1>2 DEF Runs, UserEdit, published
<1>3. ASSUME NEW x \in Proc, End(x), used' = used,
             pubJournal' \subseteq used, applyJournal' \subseteq used, record' \subseteq used
      PROVE Runs'
  BY Zenon, <1>0, <1>3 DEF Runs, Types, End, Goto, Bound, Publishing, Undoing, Writing
<1>4. ASSUME NEW x \in Proc, ApplyReturns(x), used' = used,
             pubJournal' \subseteq used, applyJournal' \subseteq used, record' \subseteq used
      PROVE Runs'
  BY SMTT(30), <1>0, <1>3, <1>4 DEF Runs, Types, ApplyReturns, Goto, Bound, Publishing, Undoing, Writing
<1>5. ASSUME NEW x \in Proc, OpenCore(x) \/ ListPublications(x) \/ ListApplications(x) PROVE Runs'
  BY SMTT(30), <1>0, <1>5
    DEF Runs, Types, OpenCore, ListPublications, ListApplications, Recovered, published, counts, Goto,
        Bound, Publishing, Undoing, Writing
<1>6. ASSUME NEW x \in Proc, ReadPublication(x) \/ ReadApplication(x) PROVE Runs'
  BY SMTT(30), <1>0, <1>3, <1>6
    DEF Runs, Types, ReadPublication, ReadApplication, published, counts, Goto, Bound, Publishing, Undoing,
        Writing
<1>7. ASSUME NEW x \in Proc, LeasePublication(x) \/ LeaseApplication(x) \/ PublishLease(x) PROVE Runs'
  BY SMTT(30), <1>0, <1>3, <1>7
    DEF Runs, Types, LeasePublication, LeaseApplication, PublishLease, PublishError, Keep, published,
        counts, At, Goto, Bound, Publishing, Undoing, Writing
<1>8. ASSUME NEW x \in Proc, RecoverPublication(x) PROVE Runs'
  BY SMTT(30), <1>0, <1>3, <1>8
    DEF Runs, Types, RecoverPublication, PublicationError, PublishError, NextPublication, Published, Keep,
        counts, At, Goto, Bound, Publishing, Undoing, Writing
<1>9. ASSUME NEW x \in Proc, DeleteRef(x) \/ DeleteBaseRef(x) \/ RemoveRecord(x) PROVE Runs'
  BY Zenon, <1>0, <1>9
    DEF Runs, Types, DeleteRef, DeleteBaseRef, RemoveRecord, Keep, counts, At, Goto, Bound, Publishing,
        Undoing, Writing
<1>10. ASSUME NEW x \in Proc, DeleteJournal(x) PROVE Runs'
  BY SMTT(30), <1>0, <1>3, <1>10
    DEF Runs, Types, DeleteJournal, PublicationError, PublishError, NextPublication, counts, Goto,
        Bound, Publishing, Undoing, Writing
<1>11. ASSUME NEW x \in Proc, Restore(x) \/ RestoreCheck(x) \/ RestoreWrite(x) PROVE Runs'
  BY SMTT(30), <1>0, <1>3, <1>4, <1>11
    DEF Runs, Types, Restore, RestoreCheck, RestoreWrite, RestoreError, Keep, published, counts, At, Goto,
        Bound, Publishing, Undoing, Writing
<1>12. ASSUME NEW x \in Proc, RestoreDone(x) PROVE Runs'
  BY SMTT(30), <1>0, <1>3, <1>4, <1>12
    DEF Runs, Types, RestoreDone, RestoreError, NextApplication, Recovered, published, counts, Goto,
        Bound, Publishing, Undoing, Writing
<1>13. ASSUME NEW x \in Proc, NEW r \in Run, NEW f \in Flags[r], CreateWorkspace(x, r, f) PROVE Runs'
  BY <1>0, <1>13, Zenon
    DEF Runs, Types, CreateWorkspace, published, Goto, Bound, Publishing, Undoing, Writing
<1>14. ASSUME NEW x \in Proc, PublishJournal(x) \/ PublishStep(x) PROVE Runs'
  BY SMTT(30), <1>0, <1>14
    DEF Runs, Types, PublishJournal, PublishStep, PublishBase, PublishRecord, PublishRef, AfterPublish,
        Keep, counts, At, Goto, Bound, Publishing, Undoing, Writing
<1>15. ASSUME NEW x \in Proc, PublishDone(x) \/ Cleanup(x) PROVE Runs'
  BY SMTT(30), <1>0, <1>3, <1>15
    DEF Runs, Types, PublishDone, Cleanup, Published, Keep, published, counts, Goto, Bound, Publishing,
        Undoing, Writing
<1>16. ASSUME NEW x \in Proc, PublishFails(x) PROVE Runs'
  BY SMTT(30), <1>0, <1>3, <1>16
    DEF Runs, Types, PublishFails, PublishBase, PublishRecord, PublishRef, AfterPublish, PublicationError,
        PublishError, Keep, published, At, Goto, Bound, Publishing, Undoing, Writing
<1>17. ASSUME NEW x \in Proc, NEW r \in Run, TakeLease(x, r) PROVE Runs'
  <2>0. UNCHANGED <<used, pubJournal, applyJournal, record>>
    BY Zenon, <1>17 DEF TakeLease, published, counts
  <2>1. CASE End(x)
    BY Zenon, <1>0, <1>3, <2>0, <2>1 DEF Runs
  <2>2. CASE ~End(x)
    <3>1. Goto(x, "begin") /\ cur' = [cur EXCEPT ![x] = r]
      BY Zenon, <1>17, <2>2 DEF TakeLease
    <3>2. pc'[x] \notin Bound /\ \A y \in Proc \ {x} : pc'[y] = pc[y] /\ cur'[y] = cur[y]
      BY Zenon, <1>0, <3>1 DEF Types, Goto, Bound, Publishing, Undoing, Writing
    <3> QED
      BY Zenon, <1>0, <2>0, <3>2 DEF Runs
  <2> QED
    BY Zenon, <2>1, <2>2
<1>18. ASSUME NEW x \in Proc, Begin(x) \/ ApplyJournal(x) \/ Preflight(x) PROVE Runs'
  <2>0. UNCHANGED <<used, pubJournal, record>>
    BY Zenon, <1>18 DEF Begin, ApplyJournal, Preflight, published, counts
  <2>1. CASE ApplyReturns(x) /\ UNCHANGED applyJournal
    BY Zenon, <1>0, <1>4, <2>0, <2>1 DEF Runs
  <2>2. CASE ~(ApplyReturns(x) /\ UNCHANGED applyJournal)
    <3>1. cur[x] \in used
      <4>1. CASE Begin(x)
        BY Zenon, <1>0, <2>2, <4>1 DEF Runs, Begin
      <4>2. CASE ~Begin(x)
        BY Zenon, <1>0, <1>18, <4>2 DEF Runs, ApplyJournal, Preflight, At, Bound, Writing
      <4> QED
        BY Zenon, <4>1, <4>2
    <3>2. applyJournal' \subseteq used
      BY Zenon, <1>0, <1>18, <3>1 DEF Runs, Begin, ApplyJournal, Preflight
    <3>3. (\E l \in Label : Goto(x, l)) /\ UNCHANGED cur
      BY Zenon, <1>18, <2>2 DEF Begin, ApplyJournal, Preflight, Keep, Label
    <3>4. \A y \in Proc \ {x} : pc'[y] = pc[y]
      BY Zenon, <1>0, <3>3 DEF Types, Goto
    <3> QED
      BY Zenon, <1>0, <2>0, <3>1, <3>2, <3>3, <3>4 DEF Runs
  <2> QED
    BY Zenon, <2>1, <2>2
<1>19. ASSUME NEW x \in Proc, CheckPath(x) \/ WritePath(x) \/ VerifyPath(x) PROVE Runs'
  BY <1>0, <1>4, <1>19, Zenon
    DEF Runs, Types, CheckPath, WritePath, VerifyPath, Keep, published, counts, At, Goto, Bound, Publishing,
        Undoing, Writing
<1>20. ASSUME NEW x \in Proc, FinalCheck(x) \/ ApplyFails(x) \/ Die(x) PROVE Runs'
  BY SMTT(30), <1>0, <1>3, <1>4, <1>20
    DEF Runs, Types, FinalCheck, ApplyFails, Die, RestoreError, Keep, published, counts, At, Goto, Bound,
        Publishing, Undoing, Writing
<1> QED
  BY Zenon, <1>1, <1>2, <1>5, <1>6, <1>7, <1>8, <1>9, <1>10, <1>11, <1>12, <1>13, <1>14, <1>15, <1>16, <1>17,
     <1>18, <1>19, <1>20
    DEF Next, Step, Recover, Publish, Apply

\* Every step keeps publications whole: one that publishes or rolls back holds the lease,
\* so that no other process does either.
LEMMA PublicationsNext ==
  ASSUME Leased, Runs, Publications, [Next]_vars PROVE Publications'
<1>0. Types /\ Phases /\ Holds /\ Runs /\ Transact /\ PublicationWhole /\ RefIsBacked
  BY Zenon DEF Leased, Publications
<1>1. ASSUME UNCHANGED published,
             \A y \in Proc : pc'[y] \in (Publishing \cup Undoing) \ {"publish_journal", "pub_recover"} =>
                               pc'[y] = pc[y] /\ cur'[y] = cur[y]
      PROVE Publications'
  BY SMTT(30), <1>0, <1>1
    DEF Publications, Transact, PublicationWhole, RefIsBacked, published, Publishing, Undoing
<1>2. UNCHANGED vars => Publications'
  BY Zenon, <1>0, <1>1 DEF vars, local
<1>3. ASSUME NEW p \in Path, UserEdit(p) PROVE Publications'
  BY Zenon, <1>0, <1>1, <1>3 DEF UserEdit
<1>4. ASSUME NEW x \in Proc, End(x) \/ ApplyReturns(x), UNCHANGED published PROVE Publications'
  BY Zenon, <1>0, <1>1, <1>4 DEF Types, End, ApplyReturns, Goto, Publishing, Undoing
<1>5. ASSUME NEW x \in Proc, OpenCore(x) \/ ListPublications(x) \/ ListApplications(x) PROVE Publications'
  BY <1>0, <1>1, <1>5, Zenon
    DEF Types, OpenCore, ListPublications, ListApplications, Recovered, Goto, Publishing, Undoing
<1>6. ASSUME NEW x \in Proc, ReadPublication(x) \/ ReadApplication(x) PROVE Publications'
  BY Zenon, <1>0, <1>1, <1>4, <1>6
    DEF Types, ReadPublication, ReadApplication, Goto, Publishing, Undoing
<1>7. ASSUME NEW x \in Proc, LeasePublication(x) \/ LeaseApplication(x) \/ PublishLease(x)
      PROVE Publications'
  BY Zenon, <1>0, <1>1, <1>4, <1>7
    DEF Types, LeasePublication, LeaseApplication, PublishLease, PublishError, Keep, Goto, Publishing,
        Undoing
<1>8. ASSUME NEW x \in Proc, pc[x] \in Publishing \cup Undoing
      PROVE \A y \in Proc \ {x} : pc[y] \notin Publishing \cup Undoing
  BY Zenon, <1>0, <1>8 DEF Holds
<1>9. ASSUME NEW x \in Proc, RecoverPublication(x) PROVE Publications'
  <2>1. cur[x] \in Run
    BY Zenon, <1>0, <1>9 DEF Runs, RecoverPublication, At, Bound, Undoing
  <2>2. \A y \in Proc \ {x} : pc[y] \notin Publishing \cup Undoing
    BY Zenon, <1>8, <1>9 DEF RecoverPublication, At, Undoing
  <2>3. CASE pubJournal' = pubJournal /\ pc'[x] # "del_ref"
    BY Zenon, <1>0, <1>1, <1>4, <1>9, <2>3
      DEF Types, RecoverPublication, PublicationError, PublishError, NextPublication, Published, Keep,
          published, At, Goto, Publishing, Undoing
  <2>4. CASE pubJournal' # pubJournal
    BY SMTT(30), <1>0, <1>9, <2>1, <2>2, <2>4
      DEF Publications, Transact, PublicationWhole, RefIsBacked, Types, RecoverPublication, Complete,
          NextPublication, Published, Keep, At, Goto, Publishing, Undoing
  <2>5. CASE pc'[x] = "del_ref"
    BY SMTT(30), <1>0, <1>9, <2>1, <2>2, <2>5
      DEF Publications, Transact, PublicationWhole, RefIsBacked, Types, RecoverPublication, Complete, PublicationError,
          PublishError, End, NextPublication, Published, Keep, At, Goto, Publishing, Undoing
  <2> QED
    BY Zenon, <2>3, <2>4, <2>5
<1>10. ASSUME NEW x \in Proc, DeleteRef(x) \/ DeleteBaseRef(x) \/ RemoveRecord(x) PROVE Publications'
  <2>1. \A y \in Proc \ {x} : pc[y] \notin Publishing \cup Undoing
    BY Zenon, <1>8, <1>10 DEF DeleteRef, DeleteBaseRef, RemoveRecord, At, Undoing
  <2> QED
    BY SMTT(30), <1>0, <1>10, <2>1
      DEF Publications, Transact, PublicationWhole, RefIsBacked, Types, DeleteRef, DeleteBaseRef,
          RemoveRecord, Keep, At, Goto, Publishing, Undoing
<1>11. ASSUME NEW x \in Proc, DeleteJournal(x) PROVE Publications'
  <2>1. \A y \in Proc \ {x} : pc[y] \notin Publishing \cup Undoing
    BY Zenon, <1>8, <1>11 DEF DeleteJournal, At, Undoing
  <2>2. /\ pc'[x] \notin Publishing \cup Undoing
        /\ \A y \in Proc \ {x} : pc'[y] = pc[y]
    BY <1>0, <1>11, Zenon
      DEF Types, DeleteJournal, PublicationError, PublishError, End, NextPublication, Goto, Publishing, Undoing
  <2> QED
    BY SMTT(30), <1>0, <1>11, <2>1, <2>2
      DEF Publications, Transact, PublicationWhole, RefIsBacked, DeleteJournal, At, Publishing, Undoing
<1>12. ASSUME NEW x \in Proc, PublishJournal(x) \/ PublishStep(x) PROVE Publications'
  <2>1. \A y \in Proc \ {x} : pc[y] \notin Publishing \cup Undoing
    BY Zenon, <1>8, <1>12
      DEF PublishJournal, PublishStep, PublishBase, PublishRecord, PublishRef, At, Publishing
  <2> QED
    BY SMTT(30), <1>0, <1>12, <2>1
      DEF Publications, Transact, PublicationWhole, RefIsBacked, Types, PublishJournal, PublishStep,
          PublishBase, PublishRecord, PublishRef, AfterPublish, Keep, At, Goto, Publishing, Undoing
<1>13. ASSUME NEW x \in Proc, PublishDone(x) PROVE Publications'
  <2>1. \A y \in Proc \ {x} : pc[y] \notin Publishing \cup Undoing
    BY Zenon, <1>8, <1>13 DEF PublishDone, At, Publishing
  <2> QED
    BY SMTT(30), <1>0, <1>13, <2>1
      DEF Publications, Transact, PublicationWhole, RefIsBacked, Types, PublishDone, Published, Keep,
          At, Goto, Publishing, Undoing
<1>14. ASSUME NEW x \in Proc, PublishFails(x) PROVE Publications'
  <2>1. CASE UNCHANGED published
    BY Zenon, <1>0, <1>1, <1>4, <1>14, <2>1
      DEF Types, PublishFails, PublicationError, PublishError, Keep, Goto, Publishing, Undoing
  <2>2. CASE pc[x] = "publish_journal"
    <3>1. pc'[x] = "idle" /\ \A y \in Proc \ {x} : pc'[y] = pc[y] /\ pc[y] \notin Publishing \cup Undoing
      BY <1>0, <1>8, <1>14, <2>2, Zenon
        DEF Types, PublishFails, PublishBase, PublishRecord, PublishRef, AfterPublish, PublishError, End,
            At, Goto, Publishing
    <3>2. pubJournal \subseteq pubJournal' /\ UNCHANGED <<baseRef, record, ref>>
      BY <1>14, <2>2, Zenon
        DEF PublishFails, PublishBase, PublishRecord, PublishRef, AfterPublish, published, At
    <3> QED
      BY <1>0, <3>1, <3>2, Zenon
        DEF Publications, Transact, PublicationWhole, RefIsBacked, Publishing, Undoing
  <2>3. CASE Unlinks(x) /\ PublicationError(x) /\ pubJournal' = pubJournal \ {cur[x]} /\ UNCHANGED <<baseRef, record, ref>>
    <3>1. pc[x] \in {"pub_recover", "del_journal", "publish_done"}
      BY Zenon, <2>3 DEF Unlinks, At
    <3>2. /\ pc'[x] = "idle"
          /\ \A y \in Proc \ {x} : pc'[y] = pc[y] /\ pc[y] \notin Publishing \cup Undoing
      BY Zenon, <1>0, <1>8, <2>3, <3>1 DEF Types, PublicationError, PublishError, End, Goto, Publishing, Undoing
    <3>3. (cur[x] \in baseRef <=> cur[x] \in record) /\ (cur[x] \in record <=> cur[x] \in ref)
      <4>1. CASE pc[x] = "pub_recover"
        BY Zenon, <2>3, <4>1 DEF Unlinks, Complete
      <4>2. CASE pc[x] = "del_journal"
        BY Zenon, <1>0, <4>2 DEF Transact, Undoing, RefIsBacked
      <4>3. CASE pc[x] = "publish_done"
        BY Zenon, <1>0, <4>3 DEF Transact, Publishing
      <4> QED
        BY Zenon, <3>1, <4>1, <4>2, <4>3
    <3>4. PublicationWhole'
      BY Zenon, <1>0, <2>3, <3>3 DEF PublicationWhole
    <3>5. Transact'
      BY Zenon, <3>2 DEF Transact, Publishing, Undoing
    <3> QED
      BY Zenon, <1>0, <2>3, <3>4, <3>5 DEF Publications, RefIsBacked
  <2>4. CASE ~UNCHANGED published /\ pc[x] # "publish_journal" /\ ~(Unlinks(x) /\ PublicationError(x)
          /\ pubJournal' = pubJournal \ {cur[x]} /\ UNCHANGED <<baseRef, record, ref>>)
    <3>1. /\ pc[x] \in Publishing /\ pc' = [pc EXCEPT ![x] = "pub_recover"]
          /\ PublishBase(x) \/ PublishRecord(x) \/ PublishRef(x)
          /\ UNCHANGED <<cur, pubJournal>>
      BY Zenon, <1>0, <1>14, <2>4
        DEF PublishFails, PublishBase, PublishRecord, PublishRef, published, Keep, At, Goto, Publishing
    <3>2. \A y \in Proc \ {x} : pc[y] \notin Publishing \cup Undoing
      BY Zenon, <1>8, <3>1
    <3> QED
      BY SMTT(30), <1>0, <3>1, <3>2
        DEF Publications, Transact, PublicationWhole, RefIsBacked, Types, PublishBase, PublishRecord,
            PublishRef, At, Publishing, Undoing
  <2> QED
    BY Zenon, <2>1, <2>2, <2>3, <2>4
<1>15. ASSUME NEW x \in Proc, Restore(x) \/ RestoreCheck(x) \/ RestoreWrite(x) PROVE Publications'
  BY <1>0, <1>1, <1>4, <1>15, Zenon
    DEF Types, Restore, RestoreCheck, RestoreWrite, RestoreError, Keep, Goto, Publishing, Undoing
<1>16. ASSUME NEW x \in Proc, RestoreDone(x) PROVE Publications'
  BY SMTT(30), <1>0, <1>1, <1>4, <1>16
    DEF Types, RestoreDone, RestoreError, NextApplication, Recovered, Goto, Publishing, Undoing
<1>17. ASSUME NEW x \in Proc, NEW r \in Run, NEW f \in Flags[r], CreateWorkspace(x, r, f)
       PROVE Publications'
  BY Zenon, <1>0, <1>1, <1>17 DEF Types, CreateWorkspace, Goto, Publishing, Undoing
<1>18. ASSUME NEW x \in Proc, NEW r \in Run, TakeLease(x, r) PROVE Publications'
  BY <1>0, <1>1, <1>4, <1>18, Zenon DEF Types, TakeLease, Goto, Publishing, Undoing
<1>19. ASSUME NEW x \in Proc, Begin(x) \/ ApplyJournal(x) \/ Preflight(x) \/ CheckPath(x)
       PROVE Publications'
  BY SMTT(30), <1>0, <1>1, <1>4, <1>19
    DEF Types, Begin, ApplyJournal, Preflight, CheckPath, Keep, Goto, Publishing, Undoing
<1>20. ASSUME NEW x \in Proc, WritePath(x) \/ VerifyPath(x) \/ FinalCheck(x) \/ ApplyFails(x)
       PROVE Publications'
  BY Zenon, <1>0, <1>1, <1>4, <1>20
    DEF Types, WritePath, VerifyPath, FinalCheck, ApplyFails, RestoreError, Keep, Goto, Publishing, Undoing
<1>21. ASSUME NEW x \in Proc, Cleanup(x) \/ Die(x) PROVE Publications'
  BY Zenon, <1>4, <1>21 DEF Cleanup, Die
<1> QED
  BY Zenon, <1>2, <1>3, <1>5, <1>6, <1>7, <1>9, <1>10, <1>11, <1>12, <1>13, <1>14, <1>15, <1>16, <1>17, <1>18,
     <1>19, <1>20, <1>21
    DEF Next, Step, Recover, Publish, Apply

\* Every step keeps what a writer knows of its path: only the writer changes the tree
\* while no other one is there, and an edit of the user is recorded in late.
LEMMA WritersNext ==
  ASSUME Leased, Runs, Writers, [Next]_vars PROVE Writers'
<1>0. Types /\ Runs /\ TreeTypes /\ Checked
  BY Zenon DEF Leased, Writers
<1>1. ASSUME TreeTypes', UNCHANGED <<tree, base>>, lapses \subseteq lapses',
             \A y \in Proc : pc'[y] \in Writing => pc[y] \in Writing,
             \A y \in Proc : pc'[y] \in {"write", "restore_write"} =>
               pc'[y] = pc[y] /\ cur'[y] = cur[y] /\ left'[y] = left[y] /\ (y \in late => y \in late')
      PROVE Writers'
  BY SMTT(30), <1>0, <1>1 DEF Writers, Checked
<1>2. UNCHANGED vars => Writers'
  <2>1. UNCHANGED vars => UNCHANGED <<tree, base, left, edits, lapses, pc, cur, late>>
    BY Zenon DEF vars, local, counts, ghost
  <2>2. UNCHANGED <<tree, base, left, edits>> => TreeTypes'
    BY Zenon, <1>0 DEF TreeTypes
  <2>3. UNCHANGED <<lapses, pc, cur, left, late>> =>
          /\ lapses \subseteq lapses'
          /\ \A y \in Proc : pc'[y] \in Writing => pc[y] \in Writing
          /\ \A y \in Proc : pc'[y] \in {"write", "restore_write"} =>
               pc'[y] = pc[y] /\ cur'[y] = cur[y] /\ left'[y] = left[y] /\ (y \in late => y \in late')
    BY Zenon
  <2> QED
    BY Zenon, <1>1, <2>1, <2>2, <2>3
<1>3. ASSUME NEW p \in Path, UserEdit(p) PROVE Writers'
  <2>1. UNCHANGED <<base, pc, cur, left, lapses>> /\ tree' = [tree EXCEPT ![p] = edits + 1]
    BY Zenon, <1>3 DEF UserEdit, ghost
  <2>2. TreeTypes'
    <3>1. edits' \in Nat
      BY SMTT(30), <1>0, <1>3 DEF UserEdit, TreeTypes
    <3> QED
      BY Zenon, <1>0, <2>1, <3>1 DEF TreeTypes
  <2>3. \A q \in Path \ {p} : tree'[q] = tree[q]
    BY Zenon, <1>0, <2>1 DEF TreeTypes
  <2>4. ASSUME NEW x \in Proc \ late'
        PROVE /\ x \notin late
              /\ pc[x] = "write" => First(left[x]) # p
              /\ pc[x] = "restore_write" => NextRestored(base[cur[x]], left[x]) # p
    BY Zenon, <1>3, <2>4 DEF UserEdit
  <2>5. UNCHANGED <<base, pc, cur, left, lapses>>
    BY Zenon, <2>1
  <2>6. Checked'
    <3> SUFFICES ASSUME "overlap" \notin lapses
                 PROVE /\ \A x, y \in Proc : pc[x] \in Writing /\ pc[y] \in Writing => x = y
                       /\ \A x \in Proc \ late' :
                            pc[x] = "write" /\ First(left[x]) \in Path =>
                              tree'[First(left[x])] = base[cur[x]][First(left[x])]
                       /\ \A x \in Proc \ late' :
                            LET q == NextRestored(base[cur[x]], left[x]) IN
                            pc[x] = "restore_write" /\ q \in Path => tree'[q] \in {base[cur[x]][q], cur[x]}
      BY Zenon, <2>5 DEF Checked
    <3> QED
      BY Zenon, <1>0, <2>3, <2>4 DEF Checked
  <2> QED
    BY Zenon, <2>2, <2>6 DEF Writers
<1>4. ASSUME NEW x \in Proc, End(x) \/ ApplyReturns(x), UNCHANGED <<tree, base, edits, lapses>> PROVE Writers'
  BY SMTT(30), <1>0, <1>1, <1>4 DEF Types, TreeTypes, End, ApplyReturns, Goto, Writing
<1>5. ASSUME NEW x \in Proc, OpenCore(x) \/ ListPublications(x) \/ ListApplications(x) PROVE Writers'
  BY SMTT(30), <1>0, <1>1, <1>5
    DEF Types, TreeTypes, OpenCore, ListPublications, ListApplications, Recovered, counts, ghost, Goto, Writing
<1>6. ASSUME NEW x \in Proc, ReadPublication(x) \/ ReadApplication(x) PROVE Writers'
  BY ZenonT(30), <1>0, <1>1, <1>4, <1>6
    DEF Types, TreeTypes, ReadPublication, ReadApplication, counts, ghost, Goto, Writing
<1>7. ASSUME NEW x \in Proc, LeasePublication(x) \/ PublishLease(x) PROVE Writers'
  BY SMTT(20), <1>0, <1>1, <1>4, <1>7
    DEF Types, TreeTypes, LeasePublication, PublishLease, PublishError, Keep, counts, ghost, Goto, Writing
\* A process begins to write the tree.
<1>8. ASSUME NEW x \in Proc, NEW l \in {"begin", "restore"}, pc' = [pc EXCEPT ![x] = l],
             UNCHANGED <<tree, base, left, late, edits>>, \A y \in Proc \ {x} : cur'[y] = cur[y],
             lapses \subseteq lapses',
             (\E y \in Proc \ {x} : pc[y] \in Writing) => "overlap" \in lapses'
      PROVE Writers'
  BY SMTT(30), <1>0, <1>8 DEF Types, Writers, TreeTypes, Checked, Writing
<1>9. ASSUME NEW x \in Proc, LeaseApplication(x) PROVE Writers'
  <2>1. CASE lease # NoProc
    BY Zenon, <1>4, <1>9, <2>1 DEF LeaseApplication, counts
  <2>2. CASE lease = NoProc
    BY Zenon, <1>8, <1>9, <2>2 DEF LeaseApplication, Keep, counts, Goto
  <2> QED
    BY Zenon, <2>1, <2>2
<1>10. ASSUME NEW x \in Proc, NEW r \in Run, TakeLease(x, r) PROVE Writers'
  <2>1. CASE lease # NoProc
    BY Zenon, <1>4, <1>10, <2>1 DEF TakeLease, counts
  <2>2. CASE lease = NoProc
    BY Zenon, <1>0, <1>8, <1>10, <2>2 DEF Types, TakeLease, Meets, counts, Goto
  <2> QED
    BY Zenon, <2>1, <2>2
<1>11. ASSUME NEW x \in Proc, Published(x), UNCHANGED <<tree, base, edits>> PROVE Writers'
  <2>1. CASE "apply" \in cmd[x].flags
    BY Zenon, <1>8, <1>11, <2>1 DEF Published, Meets, Keep, Goto
  <2>2. CASE "apply" \notin cmd[x].flags
    BY Zenon, <1>0, <1>1, <1>11, <2>2 DEF Types, TreeTypes, Published, Keep, Goto, Writing
  <2> QED
    BY Zenon, <2>1, <2>2
<1>12. ASSUME NEW x \in Proc, RecoverPublication(x) PROVE Writers'
  BY SMTT(30), <1>0, <1>1, <1>4, <1>11, <1>12
    DEF Types, TreeTypes, RecoverPublication, PublicationError, PublishError, NextPublication, Keep, counts,
        Goto, Writing
<1>13. ASSUME NEW x \in Proc, DeleteRef(x) \/ DeleteBaseRef(x) \/ RemoveRecord(x) \/ DeleteJournal(x)
       PROVE Writers'
  BY <1>0, <1>1, <1>4, <1>13, Zenon
    DEF Types, TreeTypes, DeleteRef, DeleteBaseRef, RemoveRecord, DeleteJournal, PublicationError,
        PublishError, NextPublication, Keep, counts, ghost, Goto, Writing
<1>14. ASSUME NEW x \in Proc, PublishJournal(x) \/ PublishStep(x) PROVE Writers'
  BY SMTT(30), <1>0, <1>1, <1>14
    DEF Types, TreeTypes, PublishJournal, PublishStep, PublishBase, PublishRecord, PublishRef, AfterPublish,
        Keep, counts, ghost, At, Goto, Writing
<1>15. ASSUME NEW x \in Proc, PublishDone(x) PROVE Writers'
  BY Zenon, <1>11, <1>15 DEF PublishDone, counts
<1>16. ASSUME NEW x \in Proc, PublishFails(x) PROVE Writers'
  BY SMTT(20), <1>0, <1>1, <1>4, <1>16
    DEF Types, TreeTypes, PublishFails, PublicationError, PublishError, Keep, ghost, Goto, Writing
<1>17. ASSUME NEW x \in Proc, NEW r \in Run, NEW f \in Flags[r], CreateWorkspace(x, r, f) PROVE Writers'
  <2>1. TreeTypes'
    BY Zenon, <1>0, <1>17 DEF TreeTypes, CreateWorkspace
  <2>2. \A y \in Proc : pc'[y] \in Writing =>
          pc'[y] = pc[y] /\ cur'[y] = cur[y] /\ (pc[y] # "begin" => base'[cur[y]] = base[cur[y]])
    BY SMTT(20), <1>0, <1>17 DEF Types, TreeTypes, Runs, CreateWorkspace, Goto, Writing, Bound
  <2>3. UNCHANGED <<tree, left, late, lapses>>
    BY Zenon, <1>17 DEF CreateWorkspace, ghost
  <2> QED
    BY SMTT(30), <1>0, <2>1, <2>2, <2>3 DEF Writers, Checked, Writing
<1>18. ASSUME NEW x \in Proc, Cleanup(x) \/ Die(x) PROVE Writers'
  BY Zenon, <1>4, <1>18 DEF Cleanup, Die, counts, ghost
<1>19. ASSUME NEW x \in Proc, Restore(x) PROVE Writers'
  BY ZenonT(30), <1>0, <1>1, <1>4, <1>19
    DEF Types, TreeTypes, Restore, RestoreError, counts, ghost, At, Goto, Writing
<1>20. ASSUME NEW x \in Proc, RestoreCheck(x) PROVE Writers'
  <2>1. CASE ~Known(cur[x], NextRestored(base[cur[x]], left[x]))
    BY Zenon, <1>4, <1>20, <2>1 DEF RestoreCheck, RestoreError, counts, ghost
  <2>2. CASE Known(cur[x], NextRestored(base[cur[x]], left[x]))
    <3>1. \A p \in Path : Known(cur[x], p) => tree[p] \in {base[cur[x]][p], cur[x]}
      BY Zenon DEF Known, Final
    <3>2. pc' = [pc EXCEPT ![x] = "restore_write"] /\ pc[x] = "restore_check"
          /\ UNCHANGED <<tree, base, cur, left, late, edits, lapses>>
      BY Zenon, <1>20, <2>2 DEF RestoreCheck, Keep, counts, ghost, At, Goto
    <3>3. LET p == NextRestored(base[cur[x]], left[x]) IN p \in Path => tree[p] \in {base[cur[x]][p], cur[x]}
      BY Zenon, <2>2, <3>1
    <3> QED
      BY SMTT(30), <1>0, <3>2, <3>3 DEF Types, Writers, TreeTypes, Checked, Writing
  <2> QED
    BY Zenon, <2>1, <2>2
<1>21. ASSUME NEW x \in Proc, RestoreWrite(x) PROVE Writers'
  <2>1. TreeTypes'
    BY Zenon, <1>0, <1>21 DEF TreeTypes, RestoreWrite, counts
  <2>2. pc[x] = "restore_write" /\ \E l \in {"restore_check", "restore_done"} : pc' = [pc EXCEPT ![x] = l]
    BY Zenon, <1>21 DEF RestoreWrite, At, Goto
  <2>3. UNCHANGED <<base, cur, lapses>>
    BY Zenon, <1>21 DEF RestoreWrite, ghost
  <2> QED
    BY SMTT(30), <1>0, <2>1, <2>2, <2>3 DEF Types, Writers, Checked, Writing
<1>22. ASSUME NEW x \in Proc, RestoreDone(x) PROVE Writers'
  BY SMTT(20), <1>0, <1>1, <1>4, <1>22
    DEF Types, TreeTypes, RestoreDone, RestoreError, NextApplication, Recovered, counts, ghost, Goto, Writing
<1>23. ASSUME NEW x \in Proc, Begin(x) \/ ApplyJournal(x) \/ Preflight(x) PROVE Writers'
  BY SMTT(30), <1>0, <1>1, <1>4, <1>23
    DEF Types, TreeTypes, Begin, ApplyJournal, Preflight, Keep, counts, ghost, At, Goto, Writing
<1>24. ASSUME NEW x \in Proc, CheckPath(x) PROVE Writers'
  <2>1. CASE tree[First(left[x])] # base[cur[x]][First(left[x])]
    BY ZenonT(30), <1>4, <1>24, <2>1 DEF CheckPath, counts, ghost
  <2>2. CASE tree[First(left[x])] = base[cur[x]][First(left[x])]
    <3>1. pc' = [pc EXCEPT ![x] = "write"] /\ pc[x] = "check"
          /\ UNCHANGED <<tree, base, cur, left, late, edits, lapses>>
      BY ZenonT(30), <1>24, <2>2 DEF CheckPath, Keep, counts, ghost, At, Goto
    <3> QED
      BY SMTT(30), <1>0, <2>2, <3>1 DEF Types, Writers, TreeTypes, Checked, Writing
  <2> QED
    BY Zenon, <2>1, <2>2
<1>25. ASSUME NEW x \in Proc, WritePath(x) PROVE Writers'
  BY SMTT(20), <1>0, <1>25
    DEF Types, Writers, TreeTypes, Checked, WritePath, counts, ghost, At, Goto, Writing
<1>26. ASSUME NEW x \in Proc, VerifyPath(x) \/ FinalCheck(x) \/ ApplyFails(x) PROVE Writers'
  BY Zenon, <1>0, <1>1, <1>4, <1>26
    DEF Types, TreeTypes, VerifyPath, FinalCheck, ApplyFails, RestoreError, Keep, counts, ghost, At, Goto,
        Writing
<1> QED
  BY Zenon, <1>2, <1>3, <1>5, <1>6, <1>7, <1>9, <1>10, <1>12, <1>13, <1>14, <1>15, <1>16, <1>17, <1>18, <1>19,
     <1>20, <1>21, <1>22, <1>23, <1>24, <1>25, <1>26
    DEF Next, Step, Recover, Publish, Apply

\* The layers hold together in every reachable state.
THEOREM InductiveInvariant == Spec => []IInv
<1>1. Init => IInv
  <2> SUFFICES ASSUME Init PROVE IInv
    OBVIOUS
  <2>1. Leased
    BY Zenon DEF Init, Leased, Types, Phases, Holds, Label, Command, NoCommand, Starting, Publishing, Undoing,
           Applying, Writing
  <2>2. Runs /\ Publications
    BY Zenon DEF Init, Runs, Publications, Transact, PublicationWhole, RefIsBacked, Bound, Publishing, Undoing,
           Writing
  <2>3. Writers
    BY Zenon DEF Init, Writers, TreeTypes, Checked, Writing
  <2> QED
    BY Zenon, <2>1, <2>2, <2>3 DEF IInv
<1>2. IInv /\ [Next]_vars => IInv'
  BY Zenon, LeasedNext, RunsNext, PublicationsNext, WritersNext DEF IInv
<1> QED
  BY <1>1, <1>2, PTL DEF Spec

\* A proposal without a publication journal is whole or absent, whatever number of
\* processes publish, recover, fail and die (publish_proposal_transaction,
\* recover_proposal_publish_journal_locked).
THEOREM PublicationWholeHolds == Spec => []PublicationWhole
<1>1. IInv => PublicationWhole
  BY Zenon DEF IInv, Publications
<1> QED
  BY <1>1, InductiveInvariant, PTL

\* A public ref always has its record and its baseline ref (the order of the steps of a
\* publication and of its rollback).
THEOREM RefIsBackedHolds == Spec => []RefIsBacked
<1>1. IInv => RefIsBacked
  BY Zenon DEF IInv, Publications
<1> QED
  BY <1>1, InductiveInvariant, PTL

\* Of two processes that write the working tree at once, one applies its own run's
\* proposal (every writer but apply_to holds the operation lease).
THEOREM LeaseExcludesWritersHolds == Spec => []LeaseExcludesWriters
<1>1. IInv => LeaseExcludesWriters
  BY Zenon DEF IInv, Leased, Holds, LeaseExcludesWriters
<1> QED
  BY <1>1, InductiveInvariant, PTL

\* No application and no recovery overwrites an edit of the user that it could have seen
\* (the checks of apply_from_core and restore_apply_journal before each path).
THEOREM UserEditKeptHolds == Spec => UserEditKept
<1> DEFINE Kept ==
      \A p \in Path :
        tree[p] \in Edited /\ tree'[p] # tree[p] /\ "overlap" \notin lapses =>
          \/ edits' # edits
          \/ \E x \in Proc : pc'[x] # pc[x] /\ (x \in late \/ base[cur[x]][p] = tree[p])
<1>1. ASSUME IInv, [Next]_vars PROVE Kept
  <2>1. Types /\ Runs /\ TreeTypes /\ Checked
    BY Zenon, <1>1 DEF IInv, Leased, Writers
  <2>2. CASE UNCHANGED tree
    BY Zenon, <2>2
  <2>3. ASSUME NEW p \in Path, UserEdit(p) PROVE Kept
    BY SMTT(20), <2>1, <2>3 DEF UserEdit, TreeTypes
  <2>4. ASSUME NEW x \in Proc, WritePath(x) PROVE Kept
    <3>1. pc[x] = "write" /\ pc'[x] # pc[x]
      BY Zenon, <2>1, <2>4 DEF WritePath, Types, At, Goto
    <3>2. \A p \in Path : tree'[p] # tree[p] => p = First(left[x])
      BY Zenon, <2>1, <2>4 DEF WritePath, TreeTypes
    <3> QED
      BY SMTT(30), <2>1, <3>1, <3>2 DEF Checked
  <2>5. ASSUME NEW x \in Proc, RestoreWrite(x) PROVE Kept
    <3>1. cur[x] \in Run
      BY Zenon, <2>1, <2>5 DEF Runs, RestoreWrite, At, Bound, Writing
    <3>2. \A p \in Path : tree[p] \in Edited => tree[p] # cur[x]
      BY SMTT(30), <3>1, ProposalAssumption DEF Edited
    <3>3. pc'[x] # pc[x]
      BY Zenon, <2>1, <2>5 DEF RestoreWrite, Types, At, Goto
    <3>4. \A p \in Path : tree'[p] # tree[p] => p = NextRestored(base[cur[x]], left[x])
      BY Zenon, <2>1, <2>5 DEF RestoreWrite, TreeTypes
    <3> QED
      BY Zenon, <2>1, <2>5, <3>2, <3>3, <3>4 DEF Checked, RestoreWrite, At
  <2>6. ASSUME NEW x \in Proc, OpenCore(x) \/ Recover(x), ~RestoreWrite(x) PROVE UNCHANGED tree
    BY Zenon, <2>6
      DEF OpenCore, Recover, ListPublications, ReadPublication, LeasePublication, RecoverPublication,
          DeleteRef, DeleteBaseRef, RemoveRecord, DeleteJournal, ListApplications, ReadApplication,
          LeaseApplication, Restore, RestoreCheck, RestoreDone
  <2>7. ASSUME NEW x \in Proc, Publish(x) \/ PublishFails(x) PROVE UNCHANGED tree
    BY Zenon, <2>7
      DEF Publish, PublishFails, CreateWorkspace, PublishLease, PublishJournal, PublishStep, PublishDone,
          Cleanup
  <2>8. ASSUME NEW x \in Proc, Apply(x) \/ ApplyFails(x) \/ Die(x), ~WritePath(x) PROVE UNCHANGED tree
    BY Zenon, <2>8
      DEF Apply, ApplyFails, Die, TakeLease, Begin, ApplyJournal, Preflight, CheckPath, VerifyPath,
          FinalCheck
  <2>9. UNCHANGED vars => UNCHANGED tree
    BY Zenon DEF vars
  <2> QED
    BY Zenon, <1>1, <2>2, <2>3, <2>4, <2>5, <2>6, <2>7, <2>8, <2>9 DEF Next, Step
<1>2. [][Kept]_vars => UserEditKept
  BY Zenon DEF UserEditKept
<1> QED
  BY <1>1, <1>2, InductiveInvariant, PTL DEF Spec

-----------------------------------------------------------------------------
(* The contents of the tree.                                               *)

\* The types of what the other layers leave open.
Others ==
  /\ ws \in [Run -> {"none", "ready", "kept"}] /\ baseRef \subseteq Run
  /\ recovering \subseteq Proc /\ late \subseteq Proc
  /\ todo \in [Proc -> SUBSET Run] /\ cur \in [Proc -> Run \cup {NoRun}] /\ left \in [Proc -> SUBSET Path]
  /\ edits \in 0..MaxEdits /\ faults \in 0..MaxFaults /\ lapses \subseteq {"overlap", "stale", "behind"}

\* A process remembers no more than before.
Forgets(x) ==
  /\ todo' \in {todo, [todo EXCEPT ![x] = {}], [todo EXCEPT ![x] = @ \ {cur[x]}]}
  /\ cur' \in {cur, [cur EXCEPT ![x] = NoRun]}
  /\ left' \in {left, [left EXCEPT ![x] = {}]}
  /\ recovering' \subseteq recovering /\ late' \subseteq late

\* Every step keeps these types: what a process remembers is of its journals and paths.
LEMMA OthersNext ==
  ASSUME Leased, Runs, Others, [Next]_vars PROVE Others'
<1> DEFINE Lists == todo \in [Proc -> SUBSET Run] /\ cur \in [Proc -> Run \cup {NoRun}] /\ left \in [Proc -> SUBSET Path]
           Sets == baseRef \subseteq Run /\ recovering \subseteq Proc /\ late \subseteq Proc
           States == ws \in [Run -> {"none", "ready", "kept"}]
           Counts == edits \in 0..MaxEdits /\ faults \in 0..MaxFaults
           Lapses == lapses \subseteq {"overlap", "stale", "behind"}
<1>0. Types /\ Runs /\ Lists /\ Sets /\ States /\ Counts /\ Lapses
  BY Zenon DEF Leased, Others
<1>a. Lists' /\ Sets' /\ States' /\ Counts' /\ Lapses' => Others'
  BY Zenon DEF Others
\* What each step does to the memory of its process.
<1>1. ASSUME NEW x \in Proc, Forgets(x), baseRef' \subseteq baseRef PROVE Lists' /\ Sets'
  <2>1. todo' \in [Proc -> SUBSET Run]
    BY SMTT(30), <1>0, <1>1 DEF Forgets
  <2>2. cur' \in [Proc -> Run \cup {NoRun}]
    BY SMTT(30), <1>0, <1>1 DEF Forgets
  <2>3. left' \in [Proc -> SUBSET Path]
    BY SMTT(30), <1>0, <1>1 DEF Forgets
  <2> QED
    BY Zenon, <1>0, <1>1, <2>1, <2>2, <2>3 DEF Forgets
<1>2. ASSUME NEW x \in Proc, End(x) \/ ApplyReturns(x) \/ PublishError(x) \/ PublicationError(x) \/ Keep \/ Published(x)
                             \/ RestoreError(x)
      PROVE Forgets(x)
  <2>1. End(x) => Forgets(x)
    BY Zenon DEF Forgets, End
  <2>2. Keep => Forgets(x)
    BY Zenon DEF Forgets, Keep
  <2>3. ApplyReturns(x) => Forgets(x)
    BY Zenon, <2>1 DEF Forgets, ApplyReturns
  <2> QED
    BY Zenon, <1>2, <2>1, <2>2, <2>3 DEF PublishError, PublicationError, Published, RestoreError
<1>3. ASSUME NEW x \in Proc, NextPublication(x) \/ NextApplication(x) \/ (Recovered(x) /\ UNCHANGED <<left, late>>)
      PROVE Forgets(x)
  BY Zenon, <1>3 DEF Forgets, NextPublication, NextApplication, Recovered
<1>4. ASSUME NEW x \in Proc, PublishError(x) \/ PublicationError(x) PROVE States'
  <2>1. ws' = ws \/ ws' = [ws EXCEPT ![cur[x]] = IF @ = "ready" THEN "kept" ELSE @]
    BY Zenon, <1>4 DEF PublishError, PublicationError
  <2> QED
    BY SMTT(30), <1>0, <2>1
<1>5. ASSUME NEW x \in Proc, Meets(x) \/ UNCHANGED lapses PROVE Lapses'
  BY Zenon, <1>0, <1>5 DEF Meets
<1>6. UNCHANGED vars => Others'
  BY Zenon, <1>0, <1>a DEF vars, local, published, counts, ghost
<1>7. ASSUME NEW p \in Path, UserEdit(p) PROVE Others'
  <2>1. Counts'
    BY SMTT(30), <1>0, <1>7, ProposalAssumption DEF UserEdit
  <2> QED
    BY Zenon, <1>0, <1>7, <1>a, <2>1 DEF UserEdit, published, ghost
<1>8. ASSUME NEW x \in Proc, OpenCore(x) PROVE Others'
  <2>1. States'
    BY SMTT(30), <1>0, <1>8 DEF OpenCore
  <2> QED
    BY Zenon, <1>0, <1>8, <1>a, <2>1 DEF OpenCore, published, counts, ghost
<1>9. ASSUME NEW x \in Proc, ListPublications(x) \/ ListApplications(x) PROVE Others'
  <2>1. Lists' /\ Sets'
    <3>1. CASE ListApplications(x) /\ applyJournal = {}
      BY Zenon, <1>1, <1>3, <3>1 DEF ListApplications, published
    <3>2. CASE ~(ListApplications(x) /\ applyJournal = {})
      <4>1. \E S \in SUBSET Run : todo' = [todo EXCEPT ![x] = S]
        BY Zenon, <1>0, <1>9, <3>2 DEF Runs, ListPublications, ListApplications
      <4>2. todo' \in [Proc -> SUBSET Run]
        BY Zenon, <1>0, <4>1
      <4> QED
        BY Zenon, <1>0, <1>9, <3>2, <4>2 DEF ListPublications, ListApplications, published
    <3> QED
      BY Zenon, <3>1, <3>2
  <2> QED
    BY Zenon, <1>0, <1>9, <1>a, <2>1 DEF ListPublications, ListApplications, counts, ghost
<1>10. ASSUME NEW x \in Proc, ReadPublication(x) \/ ReadApplication(x) PROVE Others'
  <2>1. todo[x] \subseteq Run
    BY Zenon, <1>0
  <2>2. \/ End(x)
        \/ (\E r \in Run : cur' = [cur EXCEPT ![x] = r]) /\ UNCHANGED <<recovering, todo, left, late>>
    BY Zenon, <1>10, <2>1 DEF ReadPublication, ReadApplication
  <2>3. UNCHANGED <<ws, baseRef, edits, faults, lapses>>
    BY Zenon, <1>10 DEF ReadPublication, ReadApplication, published, counts, ghost
  <2>4. Lists' /\ Sets'
    <3>1. CASE End(x)
      BY Zenon, <1>1, <1>2, <2>3, <3>1
    <3>2. CASE ~End(x)
      <4>1. cur' \in [Proc -> Run \cup {NoRun}]
        BY Zenon, <1>0, <2>2, <3>2
      <4> QED
        BY Zenon, <1>0, <2>2, <2>3, <3>2, <4>1
    <3> QED
      BY Zenon, <3>1, <3>2
  <2> QED
    BY Zenon, <1>0, <1>a, <2>3, <2>4
<1>11. ASSUME NEW x \in Proc, LeasePublication(x) \/ LeaseApplication(x) \/ PublishLease(x) PROVE Others'
  <2>1. Lists' /\ Sets'
    BY Zenon, <1>1, <1>2, <1>11 DEF LeasePublication, LeaseApplication, PublishLease, published
  <2>2. States'
    BY Zenon, <1>0, <1>4, <1>11 DEF LeasePublication, LeaseApplication, PublishLease
  <2>3. Lapses'
    BY Zenon, <1>0, <1>11 DEF LeasePublication, LeaseApplication, PublishLease, ghost
  <2> QED
    BY Zenon, <1>0, <1>11, <1>a, <2>1, <2>2, <2>3 DEF LeasePublication, LeaseApplication, PublishLease, counts
<1>12. ASSUME NEW x \in Proc, RecoverPublication(x) PROVE Others'
  <2>1. Lists' /\ Sets'
    BY Zenon, <1>1, <1>2, <1>3, <1>12 DEF RecoverPublication
  <2>2. States'
    BY Zenon, <1>0, <1>4, <1>12 DEF RecoverPublication
  <2>3. Lapses'
    BY Zenon, <1>5, <1>12 DEF RecoverPublication, Published
  <2> QED
    BY Zenon, <1>0, <1>12, <1>a, <2>1, <2>2, <2>3 DEF RecoverPublication, counts
<1>13. ASSUME NEW x \in Proc, DeleteRef(x) \/ DeleteBaseRef(x) \/ RemoveRecord(x) PROVE Others'
  <2>1. Lists' /\ Sets'
    BY Zenon, <1>1, <1>2, <1>13 DEF DeleteRef, DeleteBaseRef, RemoveRecord
  <2> QED
    BY Zenon, <1>0, <1>13, <1>a, <2>1 DEF DeleteRef, DeleteBaseRef, RemoveRecord, counts, ghost
<1>14. ASSUME NEW x \in Proc, DeleteJournal(x) PROVE Others'
  <2>1. Lists' /\ Sets' /\ States'
    BY Zenon, <1>0, <1>1, <1>2, <1>3, <1>4, <1>14 DEF DeleteJournal
  <2> QED
    BY Zenon, <1>0, <1>14, <1>a, <2>1 DEF DeleteJournal, counts, ghost
\* A process sets out to write the paths its run changes.
<1>15. ASSUME NEW x \in Proc, Restore(x) \/ Preflight(x) PROVE Others'
  <2>1. cur[x] \in Run
    BY Zenon, <1>0, <1>15 DEF Runs, Restore, Preflight, At, Bound, Writing
  <2>2. Delta[cur[x]] \subseteq Path
    BY SMTT(30), <2>1, ProposalAssumption
  <2>3. UNCHANGED <<ws, baseRef, edits, faults, lapses>>
    BY Zenon, <1>15 DEF Restore, Preflight, published, counts, ghost
  <2>4. \/ RestoreError(x) \/ ApplyReturns(x)
        \/ (\E S \in SUBSET Path : left' = [left EXCEPT ![x] = S]) /\ UNCHANGED <<recovering, todo, cur, late>>
    BY Zenon, <1>15, <2>2 DEF Restore, Preflight
  <2>5. Lists' /\ Sets'
    <3>1. CASE RestoreError(x) \/ ApplyReturns(x)
      BY Zenon, <1>1, <1>2, <2>3, <3>1
    <3>2. CASE ~(RestoreError(x) \/ ApplyReturns(x))
      <4>1. left' \in [Proc -> SUBSET Path]
        BY Zenon, <1>0, <2>4, <3>2
      <4> QED
        BY Zenon, <1>0, <2>3, <2>4, <3>2, <4>1
    <3> QED
      BY Zenon, <3>1, <3>2
  <2> QED
    BY Zenon, <1>0, <1>a, <2>3, <2>5
<1>16. ASSUME NEW x \in Proc, RestoreCheck(x) \/ Begin(x) \/ CheckPath(x) PROVE Others'
  <2>1. Lists' /\ Sets'
    BY Zenon, <1>1, <1>2, <1>16 DEF RestoreCheck, Begin, CheckPath, published
  <2> QED
    BY Zenon, <1>0, <1>16, <1>a, <2>1 DEF RestoreCheck, Begin, CheckPath, counts, ghost
<1>17. ASSUME NEW x \in Proc, RestoreWrite(x) \/ WritePath(x) \/ VerifyPath(x) PROVE Others'
  <2>1. left' \in [Proc -> SUBSET Path]
    BY SMTT(30), <1>0, <1>17 DEF RestoreWrite, WritePath, VerifyPath
  <2> QED
    BY Zenon, <1>0, <1>17, <1>a, <2>1 DEF RestoreWrite, WritePath, VerifyPath, published, counts, ghost
<1>18. ASSUME NEW x \in Proc, RestoreDone(x) PROVE Others'
  <2>1. Lists' /\ Sets'
    BY Zenon, <1>1, <1>2, <1>3, <1>18 DEF RestoreDone, published
  <2> QED
    BY Zenon, <1>0, <1>18, <1>a, <2>1 DEF RestoreDone, counts, ghost
<1>19. ASSUME NEW x \in Proc, NEW r \in Run, NEW f \in Flags[r], CreateWorkspace(x, r, f) PROVE Others'
  <2>1. States'
    BY SMTT(30), <1>0, <1>19 DEF CreateWorkspace
  <2>2. cur' \in [Proc -> Run \cup {NoRun}]
    BY Zenon, <1>0, <1>19 DEF CreateWorkspace
  <2> QED
    <3>1. UNCHANGED <<baseRef, recovering, todo, left, late, edits, faults, lapses>>
      BY Zenon, <1>19 DEF CreateWorkspace, published, ghost
    <3> QED
      BY Zenon, <1>0, <1>a, <2>1, <2>2, <3>1
<1>20. ASSUME NEW x \in Proc, PublishBase(x) \/ PublishRecord(x) \/ PublishRef(x) PROVE baseRef' \subseteq Run
  BY Zenon, <1>0, <1>20 DEF Runs, PublishBase, PublishRecord, PublishRef, At, Bound, Publishing
<1>21. ASSUME NEW x \in Proc, PublishJournal(x) \/ PublishStep(x) PROVE Others'
  <2>1. baseRef' \subseteq Run
    BY Zenon, <1>0, <1>20, <1>21 DEF PublishJournal, PublishStep
  <2> QED
    BY Zenon, <1>0, <1>21, <1>a, <2>1 DEF PublishJournal, PublishStep, Keep, counts, ghost
<1>22. ASSUME NEW x \in Proc, PublishDone(x) PROVE Others'
  <2>1. Lists' /\ Sets' /\ Lapses'
    BY Zenon, <1>1, <1>2, <1>5, <1>22 DEF PublishDone, Published
  <2> QED
    BY Zenon, <1>0, <1>22, <1>a, <2>1 DEF PublishDone, counts
<1>23. ASSUME NEW x \in Proc, Cleanup(x) PROVE Others'
  <2>1. Lists' /\ Sets'
    BY Zenon, <1>1, <1>2, <1>23 DEF Cleanup, published
  <2>2. \E v \in {"kept", "none"} : ws' = [ws EXCEPT ![cur[x]] = v]
    BY Zenon, <1>23 DEF Cleanup
  <2>3. States'
    BY Zenon, <1>0, <2>2
  <2> QED
    BY Zenon, <1>0, <1>23, <1>a, <2>1, <2>3 DEF Cleanup, counts, ghost
<1>24. ASSUME NEW x \in Proc, PublishFails(x) PROVE Others'
  <2>1. Counts'
    BY SMTT(30), <1>0, <1>24, ProposalAssumption DEF PublishFails
  <2>2. Lists' /\ Sets'
    <3>1. CASE Keep
      <4>1. baseRef' \subseteq Run
        BY Zenon, <1>0, <1>20, <1>24 DEF PublishFails, published
      <4> QED
        BY Zenon, <1>0, <3>1, <4>1 DEF Keep
    <3>2. CASE ~Keep
      BY Zenon, <1>1, <1>2, <1>24, <3>2 DEF PublishFails, published
    <3> QED
      BY Zenon, <3>1, <3>2
  <2>3. States'
    BY Zenon, <1>0, <1>4, <1>24 DEF PublishFails
  <2> QED
    BY Zenon, <1>0, <1>24, <1>a, <2>1, <2>2, <2>3 DEF PublishFails, ghost
<1>25. ASSUME NEW x \in Proc, NEW r \in Run, TakeLease(x, r) PROVE Others'
  <2>1. CASE lease = NoProc
    <3>1. cur' \in [Proc -> Run \cup {NoRun}]
      BY Zenon, <1>0, <1>25, <2>1 DEF TakeLease
    <3>2. Lapses'
      BY Zenon, <1>5, <1>25, <2>1 DEF TakeLease
    <3> QED
      BY Zenon, <1>0, <1>25, <1>a, <2>1, <3>1, <3>2 DEF TakeLease, published, counts
  <2>2. CASE lease # NoProc
    <3>1. Lists' /\ Sets'
      BY Zenon, <1>1, <1>2, <1>25, <2>2 DEF TakeLease, published
    <3> QED
      BY Zenon, <1>0, <1>25, <1>a, <2>2, <3>1 DEF TakeLease, counts
  <2> QED
    BY Zenon, <2>1, <2>2
<1>26. ASSUME NEW x \in Proc, ApplyJournal(x) PROVE Others'
  <2>1. Lapses'
    BY SMTT(30), <1>0, <1>26 DEF ApplyJournal
  <2> QED
    BY Zenon, <1>0, <1>26, <1>a, <2>1 DEF ApplyJournal, Keep, published, counts
<1>27. ASSUME NEW x \in Proc, FinalCheck(x) PROVE Others'
  <2>1. Lists' /\ Sets'
    BY Zenon, <1>1, <1>2, <1>27 DEF FinalCheck, published
  <2> QED
    BY Zenon, <1>0, <1>27, <1>a, <2>1 DEF FinalCheck, counts
<1>28. ASSUME NEW x \in Proc, ApplyFails(x) \/ Die(x) PROVE Others'
  <2>1. Counts'
    BY SMTT(30), <1>0, <1>28, ProposalAssumption DEF ApplyFails, Die
  <2>2. Forgets(x)
    BY Zenon, <1>2, <1>28 DEF ApplyFails, Die, Forgets
  <2>3. Lists' /\ Sets'
    BY Zenon, <1>1, <1>28, <2>2 DEF ApplyFails, Die, published
  <2> QED
    BY Zenon, <1>0, <1>28, <1>a, <2>1, <2>3 DEF ApplyFails, Die, ghost
<1> QED
  BY Zenon, <1>6, <1>7, <1>8, <1>9, <1>10, <1>11, <1>12, <1>13, <1>14, <1>15, <1>16, <1>17, <1>18, <1>19,
     <1>21, <1>22, <1>23, <1>24, <1>25, <1>26, <1>27, <1>28
    DEF Next, Step, Recover, Publish, Apply

\* Where a process has its journal on disk, or takes one back.
Midway == Writing \ {"begin", "journal"}

\* A baseline is a snapshot of the whole tree.
Snapshots == \A r \in Run : base[r] = [p \in Path |-> base[r][p]]

\* The contents that exist, and a set of them with the baselines of its runs.
Old == 0..edits \cup used
Down(C) == C \subseteq Old /\ \A r \in C \cap Run : \A p \in Path : base[r][p] \in C

\* The tree t does not hold part of the proposal of run s.
Whole(t, s) == \A p, q \in Delta[s] : ~(t[p] = s /\ t[q] = base[s][q])

\* The runs an application or a rollback of which goes on.
Target == applyJournal \cup {cur[x] : x \in {y \in Proc : pc[y] = "journal"}}

\* Every path is as before or as after run r, or holds a new edit of the user.
Own(r) ==
  \A q \in Path :
    \/ tree[q] \in {base[r][q], r}
    \/ /\ tree[q] \notin Run
       /\ \A s \in Run : (\E p \in Path : base[r][p] = s) => base[s][q] # tree[q]

\* A baseline holds what existed when it was captured: runs follow their baselines.
Values ==
  /\ \A p \in Path : tree[p] \in Old
  /\ \A r \in Run, p \in Path : base[r][p] \in Old
  /\ applied \subseteq used
  /\ \A r \in used : \E C \in SUBSET Old : Down(C) /\ r \notin C /\ \A p \in Path : base[r][p] \in C

\* At most one journal is on disk, and it is the one of the process past its writing.
Journaled ==
  /\ \A r, s \in applyJournal : r = s
  /\ \A x \in Proc : pc[x] \in Midway => cur[x] \in applyJournal

\* Each target owns the tree, and its baseline holds part of no other proposal.
Targets == \A r \in Target : Own(r) /\ \A s \in Run \ applyJournal : Whole(base[r], s)

\* The tree holds part of no proposal without its journal.
Wholes == \A s \in Run \ applyJournal : Whole(tree, s)

\* What an applied run replaced, and all that came before it, is gone from its paths,
\* and comes back with no rollback.
Superseded ==
  \A s \in applied : \E C \in SUBSET Old :
    /\ Down(C)
    /\ \A p \in Delta[s] : base[s][p] \in C /\ tree[p] \notin C /\ \A r \in Target : base[r][p] \notin C

\* Where an application puts its paths in place, one after the other.
Placing == {"check", "write", "verify", "final"}

\* What an application replaced, and all that came before it, is gone from the paths it
\* has put in place, also from those the user edited since.
Replaced(x) ==
  \E C \in SUBSET Old :
    /\ Down(C) /\ cur[x] \notin C /\ \A p \in Path : base[cur[x]][p] \in C
    /\ \A q \in Delta[cur[x]] \ left[x] : tree[q] \notin C

Placed ==
  /\ \A x \in Proc : pc[x] = "final" => left[x] = {}
  /\ lapses = {} => \A x \in Proc : pc[x] \in Placing => Replaced(x)

\* All this while no operation went past the lease.
Tracked == lapses = {} => Journaled /\ Targets /\ Wholes /\ Superseded

\* Nothing of the tree, the baselines and the journals changes.
Quiet ==
  /\ UNCHANGED <<tree, base, used, edits, applyJournal, applied>> /\ lapses \subseteq lapses'
  /\ \A x \in Proc : /\ pc'[x] = "journal" => pc[x] = "journal" /\ cur'[x] = cur[x]
                     /\ pc'[x] \in Midway => pc[x] \in Midway /\ cur'[x] = cur[x]

\* The steps that do change them: the successful outcomes of their actions.
Begins(x) == Begin(x) /\ pc'[x] = "journal"
TakesBack(x) == LeaseApplication(x) /\ lease = NoProc
Completes(x) == FinalCheck(x) /\ Matches(cur[x]) /\ cur[x] \in applyJournal
Restores(x) == RestoreDone(x) /\ tree = base[cur[x]] /\ cur[x] \in applyJournal
Unsynced(x) ==
  /\ ApplyFails(x) /\ RestoreError(x) /\ applyJournal' = applyJournal \ {cur[x]}
  /\ pc[x] = "final" \/ (pc[x] = "restore_done" /\ tree = base[cur[x]])
Creates(x) == \E r \in Run : \E f \in Flags[r] : CreateWorkspace(x, r, f)

\* The steps that matter to the tree, its baselines and its journals.
LEMMA TreeSteps ==
  ASSUME Types, [Next]_vars
  PROVE \/ Quiet
        \/ \E p \in Path : UserEdit(p)
        \/ \E x \in Proc :
             \/ Creates(x) \/ Begins(x) \/ ApplyJournal(x) \/ TakesBack(x) \/ WritePath(x) \/ RestoreWrite(x)
             \/ Completes(x) \/ Restores(x) \/ Unsynced(x)
<1> DEFINE Same == UNCHANGED <<tree, base, used, edits, applyJournal, applied>> /\ lapses \subseteq lapses'
<1>1. ASSUME NEW x \in Proc, Same, pc' = [pc EXCEPT ![x] = pc'[x]],
             pc'[x] # "journal", pc'[x] \in Midway => pc[x] \in Midway /\ cur'[x] = cur[x],
             \A y \in Proc \ {x} : cur'[y] = cur[y]
      PROVE Quiet
  <2>1. \A y \in Proc \ {x} : pc'[y] = pc[y]
    BY Zenon, <1>1 DEF Types
  <2> QED
    BY Zenon, <1>1, <2>1 DEF Quiet
<1>2. UNCHANGED vars => Quiet
  BY Zenon DEF Quiet, vars, local, counts, ghost
<1>3. ASSUME NEW x \in Proc, End(x) \/ ApplyReturns(x) \/ RestoreError(x) \/ PublishError(x) \/ PublicationError(x)
                            \/ NextPublication(x) \/ NextApplication(x) \/ Recovered(x) \/ Published(x), Same
      PROVE Quiet
  <2>1. \E l \in {"idle", "cleanup", "pub_read", "apply_read", "apply_list", "ready", "begin"} : Goto(x, l)
    BY Zenon, <1>3 DEF End, ApplyReturns, RestoreError, PublishError, PublicationError, NextPublication,
      NextApplication, Recovered, Published
  <2>2. \A y \in Proc \ {x} : cur'[y] = cur[y]
    BY Zenon, <1>3 DEF Types, End, ApplyReturns, RestoreError, PublishError, PublicationError, NextPublication,
      NextApplication, Recovered, Published, Keep
  <2>3. pc' = [pc EXCEPT ![x] = pc'[x]] /\ pc'[x] # "journal" /\ pc'[x] \notin Midway
    BY Zenon, <2>1 DEF Types, Goto, Midway, Writing
  <2> QED
    BY Zenon, <1>1, <1>3, <2>2, <2>3
<1>4. ASSUME NEW x \in Proc, OpenCore(x) \/ ListPublications(x) \/ ListApplications(x) PROVE Quiet
  <2>1. Same
    BY Zenon, <1>4 DEF OpenCore, ListPublications, ListApplications, counts, ghost
  <2>2. CASE ListApplications(x) /\ applyJournal = {}
    BY Zenon, <1>3, <2>1, <2>2 DEF ListApplications
  <2>3. CASE ~(ListApplications(x) /\ applyJournal = {})
    <3>1. /\ \E l \in {"pub_list", "apply_list", "pub_read", "apply_read"} : Goto(x, l)
          /\ UNCHANGED cur
      BY Zenon, <1>4, <2>3 DEF OpenCore, ListPublications, ListApplications
    <3>2. pc' = [pc EXCEPT ![x] = pc'[x]] /\ pc'[x] # "journal" /\ pc'[x] \notin Midway
      BY Zenon, <3>1 DEF Types, Goto, Midway, Writing
    <3> QED
      BY Zenon, <1>1, <2>1, <3>1, <3>2
  <2> QED
    BY Zenon, <2>2, <2>3
<1>5. ASSUME NEW x \in Proc, ReadPublication(x) \/ ReadApplication(x) \/ LeasePublication(x) \/ PublishLease(x)
      PROVE Quiet
  <2>1. Same
    BY Zenon, <1>5 DEF ReadPublication, ReadApplication, LeasePublication, PublishLease, counts, ghost
  <2>2. CASE End(x) \/ PublishError(x)
    BY Zenon, <1>3, <2>1, <2>2
  <2>3. CASE ~(End(x) \/ PublishError(x))
    <3>1. /\ \E l \in {"pub_lease", "apply_lease", "pub_recover", "publish_journal"} : Goto(x, l)
          /\ cur' = cur \/ \E r : cur' = [cur EXCEPT ![x] = r]
      BY Zenon, <1>5, <2>3 DEF ReadPublication, ReadApplication, LeasePublication, PublishLease, Keep
    <3>2. pc' = [pc EXCEPT ![x] = pc'[x]] /\ pc'[x] # "journal" /\ pc'[x] \notin Midway
      BY Zenon, <3>1 DEF Types, Goto, Midway, Writing
    <3>3. \A y \in Proc \ {x} : cur'[y] = cur[y]
      BY Zenon, <3>1 DEF Types
    <3> QED
      BY Zenon, <1>1, <2>1, <3>2, <3>3
  <2> QED
    BY Zenon, <2>2, <2>3
<1>6. ASSUME NEW x \in Proc, LeaseApplication(x) PROVE Quiet \/ TakesBack(x)
  BY Zenon, <1>3, <1>6 DEF LeaseApplication, TakesBack, counts
<1>7. ASSUME NEW x \in Proc, RecoverPublication(x) \/ PublishDone(x) \/ DeleteJournal(x) PROVE Quiet
  <2>1. Same
    <3>1. Published(x) => lapses \subseteq lapses'
      BY SMTT(30) DEF Published, Meets
    <3> QED
      BY Zenon, <1>7, <3>1 DEF RecoverPublication, PublishDone, DeleteJournal, counts, ghost
  <2>2. CASE Published(x) \/ NextPublication(x) \/ PublicationError(x)
    BY Zenon, <1>3, <2>1, <2>2
  <2>3. CASE ~(Published(x) \/ NextPublication(x) \/ PublicationError(x))
    <3>1. Goto(x, "del_ref") /\ UNCHANGED cur
      BY Zenon, <1>7, <2>3 DEF RecoverPublication, PublishDone, DeleteJournal, Keep
    <3>2. pc' = [pc EXCEPT ![x] = pc'[x]] /\ pc'[x] # "journal" /\ pc'[x] \notin Midway
      BY Zenon, <3>1 DEF Types, Goto, Midway, Writing
    <3> QED
      BY Zenon, <1>1, <2>1, <3>1, <3>2
  <2> QED
    BY Zenon, <2>2, <2>3
<1>8. ASSUME NEW x \in Proc, DeleteRef(x) \/ DeleteBaseRef(x) \/ RemoveRecord(x) \/ PublishJournal(x) \/ PublishStep(x)
      PROVE Quiet
  <2>1. Same /\ UNCHANGED cur
    BY Zenon, <1>8 DEF DeleteRef, DeleteBaseRef, RemoveRecord, PublishJournal, PublishStep, Keep, counts, ghost
  <2>2. \E l \in {"del_base", "del_record", "del_journal", "publish_base", "publish_record", "publish_ref", "publish_done"} :
          Goto(x, l)
    <3>1. /\ AfterPublish["publish_base"] = "publish_record" /\ AfterPublish["publish_record"] = "publish_ref"
          /\ AfterPublish["publish_ref"] = "publish_done"
      BY SMT DEF AfterPublish
    <3> QED
      BY Zenon, <1>8, <3>1 DEF DeleteRef, DeleteBaseRef, RemoveRecord, PublishJournal, PublishStep, PublishBase,
        PublishRecord, PublishRef, At
  <2>3. pc' = [pc EXCEPT ![x] = pc'[x]] /\ pc'[x] # "journal" /\ pc'[x] \notin Midway
    BY Zenon, <2>2 DEF Types, Goto, Midway, Writing
  <2> QED
    BY Zenon, <1>1, <2>1, <2>3
<1>9. ASSUME NEW x \in Proc, PublishFails(x) \/ Cleanup(x) \/ Die(x) PROVE Quiet
  <2>1. Same
    BY Zenon, <1>9 DEF PublishFails, Cleanup, Die, counts, ghost
  <2>2. CASE PublicationError(x) \/ PublishError(x) \/ End(x)
    BY Zenon, <1>3, <2>1, <2>2
  <2>3. CASE ~(PublicationError(x) \/ PublishError(x) \/ End(x))
    <3>1. Goto(x, "pub_recover") /\ UNCHANGED cur
      BY Zenon, <1>9, <2>3 DEF PublishFails, Cleanup, Die, Keep
    <3>2. pc' = [pc EXCEPT ![x] = pc'[x]] /\ pc'[x] # "journal" /\ pc'[x] \notin Midway
      BY Zenon, <3>1 DEF Types, Goto, Midway, Writing
    <3> QED
      BY Zenon, <1>1, <2>1, <3>1, <3>2
  <2> QED
    BY Zenon, <2>2, <2>3
<1>10. ASSUME NEW x \in Proc, NEW r \in Run, TakeLease(x, r) PROVE Quiet
  <2>1. Same
    BY SMTT(30), <1>10 DEF TakeLease, Meets, counts
  <2>2. CASE End(x)
    BY Zenon, <1>3, <2>1, <2>2
  <2>3. CASE ~End(x)
    <3>1. Goto(x, "begin") /\ cur' = [cur EXCEPT ![x] = r]
      BY Zenon, <1>10, <2>3 DEF TakeLease
    <3>2. pc' = [pc EXCEPT ![x] = pc'[x]] /\ pc'[x] # "journal" /\ pc'[x] \notin Midway
      BY Zenon, <3>1 DEF Types, Goto, Midway, Writing
    <3>3. \A y \in Proc \ {x} : cur'[y] = cur[y]
      BY Zenon, <3>1 DEF Types
    <3> QED
      BY Zenon, <1>1, <2>1, <3>2, <3>3
  <2> QED
    BY Zenon, <2>2, <2>3
\* The steps of an application or a rollback that leave the tree alone.
<1>11. ASSUME NEW x \in Proc, Restore(x) \/ RestoreCheck(x) \/ Preflight(x) \/ CheckPath(x) \/ VerifyPath(x)
                              \/ (ApplyFails(x) /\ ~Unsynced(x))
       PROVE Quiet
  <2>0. ASSUME ApplyFails(x), ~Unsynced(x) PROVE UNCHANGED applyJournal
    BY Zenon, <2>0 DEF ApplyFails, Unsynced, At
  <2>1. Same
    BY Zenon, <1>11, <2>0 DEF Restore, RestoreCheck, Preflight, CheckPath, VerifyPath, ApplyFails, counts, ghost
  <2>2. CASE RestoreError(x) \/ ApplyReturns(x)
    BY Zenon, <1>3, <2>1, <2>2
  <2>3. CASE ~(RestoreError(x) \/ ApplyReturns(x))
    <3>1. /\ \E l \in {"restore_done", "restore_check", "restore_write", "check", "write", "final", "restore"} : Goto(x, l)
          /\ UNCHANGED cur /\ pc[x] \in Midway
      BY Zenon, <1>11, <2>3 DEF Restore, RestoreCheck, Preflight, CheckPath, VerifyPath, ApplyFails, Keep, At,
        Midway, Writing
    <3>2. pc' = [pc EXCEPT ![x] = pc'[x]] /\ pc'[x] # "journal"
      BY Zenon, <3>1 DEF Types, Goto
    <3> QED
      BY Zenon, <1>1, <2>1, <3>1, <3>2
  <2> QED
    BY Zenon, <2>2, <2>3
<1>12. ASSUME NEW x \in Proc, Begin(x) PROVE Quiet \/ Begins(x)
  <2>1. Same
    BY Zenon, <1>12 DEF Begin, counts, ghost
  <2>2. CASE ApplyReturns(x)
    BY Zenon, <1>3, <2>1, <2>2
  <2>3. CASE ~ApplyReturns(x)
    BY Zenon, <1>12, <2>3 DEF Begin, Begins, Goto, Types
  <2> QED
    BY Zenon, <2>2, <2>3
<1>13. ASSUME NEW x \in Proc, FinalCheck(x) PROVE Quiet \/ Completes(x)
  <2>1. CASE Matches(cur[x]) /\ cur[x] \in applyJournal
    BY Zenon, <1>13, <2>1 DEF Completes
  <2>2. CASE ~(Matches(cur[x]) /\ cur[x] \in applyJournal)
    <3>1. Same
      BY Zenon, <1>13, <2>2 DEF FinalCheck, counts
    <3>2. CASE ApplyReturns(x)
      BY Zenon, <1>3, <3>1, <3>2
    <3>3. CASE ~ApplyReturns(x)
      <4>1. Goto(x, "restore") /\ UNCHANGED cur /\ pc[x] \in Midway
        BY Zenon, <1>13, <3>3 DEF FinalCheck, Keep, At, Midway, Writing
      <4>2. pc' = [pc EXCEPT ![x] = pc'[x]] /\ pc'[x] # "journal"
        BY Zenon, <4>1 DEF Types, Goto
      <4> QED
        BY Zenon, <1>1, <3>1, <4>1, <4>2
    <3> QED
      BY Zenon, <3>2, <3>3
  <2> QED
    BY Zenon, <2>1, <2>2
<1>14. ASSUME NEW x \in Proc, RestoreDone(x) PROVE Quiet \/ Restores(x)
  BY Zenon, <1>3, <1>14 DEF RestoreDone, Restores, counts, ghost
<1> QED
  BY Zenon, <1>2, <1>4, <1>5, <1>6, <1>7, <1>8, <1>9, <1>10, <1>11, <1>12, <1>13, <1>14
    DEF Next, Step, Recover, Publish, Apply, Creates

\* A run changes paths of the tree, and at least one.
LEMMA DeltaPaths ==
  ASSUME NEW s \in Run PROVE Delta[s] \subseteq Path /\ Delta[s] # {}
<1>1. Delta[s] \in (SUBSET Path) \ {{}}
  BY SMTT(30), ProposalAssumption
<1> QED
  BY Zenon, <1>1

\* A run is no number: the old contents that are runs are the used ones.
LEMMA OldRuns ==
  ASSUME edits \in Nat
  PROVE Old \cap Run \subseteq used /\ used \subseteq Old
BY SMTT(30), ProposalAssumption DEF Old

\* A run and the runs of its baseline: no run is in its own, nor in that of one of its own.
LEMMA NoCycle ==
  ASSUME Values, edits \in Nat, NEW r \in Run, NEW s \in Run, NEW p \in Path, NEW q \in Path, base[r][p] = s
  PROVE s # r /\ base[s][q] \notin {r, s}
<1>1. ASSUME NEW t \in used PROVE \E C \in SUBSET Old :
        Down(C) /\ t \notin C /\ \A u \in Path : base[t][u] \in C
  BY Zenon, <1>1 DEF Values
<1>2. s \in used
  BY Zenon, OldRuns DEF Values
<1>4. base[s][q] # s
  BY Zenon, <1>1, <1>2
<1>5. s # r
  BY Zenon, <1>1, <1>2
<1>6. base[s][q] # r
  <2>1. SUFFICES ASSUME base[s][q] = r PROVE FALSE
    OBVIOUS
  <2>2. r \in used
    BY Zenon, OldRuns, <2>1 DEF Values
  <2>3. PICK C \in SUBSET Old : Down(C) /\ r \notin C /\ \A u \in Path : base[r][u] \in C
    BY Zenon, <1>1, <2>2
  <2> QED
    BY Zenon, <2>1, <2>3 DEF Down
<1> QED
  BY Zenon, <1>4, <1>5, <1>6

\* Every step keeps the baselines whole: one is captured once, from the tree
\* (CreateWorkspace, the snapshot of a new run).
LEMMA SnapshotsNext ==
  ASSUME Leased, TreeTypes, Snapshots, [Next]_vars PROVE Snapshots'
<1>0. Types
  BY Zenon DEF Leased
<1>1. UNCHANGED base => Snapshots'
  BY Zenon DEF Snapshots
<1>2. UNCHANGED base \/ \E x \in Proc : Creates(x)
  BY Zenon, <1>0, TreeSteps
    DEF Quiet, UserEdit, Begins, Begin, ApplyJournal, TakesBack, LeaseApplication, WritePath, RestoreWrite,
        Completes, FinalCheck, Restores, RestoreDone, Unsynced, ApplyFails
<1>3. ASSUME NEW x \in Proc, NEW r \in Run, NEW f \in Flags[r], CreateWorkspace(x, r, f) PROVE Snapshots'
  <2>1. base' = [base EXCEPT ![r] = tree]
    BY Zenon, <1>3 DEF CreateWorkspace
  <2>2. base'[r] = tree /\ \A s \in Run \ {r} : base'[s] = base[s]
    BY Zenon, <2>1 DEF TreeTypes
  <2>3. tree = [p \in Path |-> tree[p]]
    BY Zenon DEF TreeTypes
  <2>4. ASSUME NEW s \in Run PROVE base'[s] = [p \in Path |-> base'[s][p]]
    <3>1. CASE s = r
      BY Zenon, <2>2, <2>3, <3>1
    <3>2. CASE s # r
      BY Zenon, <2>2, <3>2 DEF Snapshots
    <3> QED
      BY Zenon, <3>1, <3>2
  <2> QED
    BY Zenon, <2>4 DEF Snapshots
<1> QED
  BY Zenon, <1>1, <1>2, <1>3 DEF Creates

\* Every step keeps the order of baselines and runs.
LEMMA ValuesNext ==
  ASSUME Leased, Runs, TreeTypes, Values, [Next]_vars PROVE Values'
<1>0. Types /\ Runs /\ TreeTypes /\ Values /\ edits \in Nat
  BY Zenon DEF Leased, TreeTypes
<1>1. ASSUME UNCHANGED <<base, used, edits>>, \A p \in Path : tree'[p] \in Old, applied' \subseteq used PROVE Values'
  <2>1. Old' = Old /\ \A C : Down(C)' <=> Down(C)
    BY Zenon, <1>1 DEF Old, Down
  <2> QED
    BY Zenon, <1>0, <1>1, <2>1 DEF Values
<1>2. Quiet => Values'
  BY Zenon, <1>0, <1>1 DEF Quiet, Values
<1>3. ASSUME NEW p \in Path, UserEdit(p) PROVE Values'
  <2>1. Old \subseteq Old' /\ edits + 1 \in Old'
    BY SMTT(30), <1>0, <1>3 DEF Old, UserEdit
  <2>2. \A q \in Path : tree'[q] \in {tree[q], edits + 1}
    BY Zenon, <1>0, <1>3 DEF TreeTypes, UserEdit
  <2>3. \A C : Down(C) => Down(C)'
    BY Zenon, <1>3, <2>1 DEF Down, UserEdit
  <2>4. UNCHANGED <<base, used, applied>>
    BY Zenon, <1>3 DEF UserEdit, ghost
  <2> QED
    BY Zenon, <1>0, <2>1, <2>2, <2>3, <2>4 DEF Values
<1>4. ASSUME NEW x \in Proc, NEW r \in Run, NEW f \in Flags[r], CreateWorkspace(x, r, f) PROVE Values'
  <2>0. r \notin used /\ used' = used \cup {r} /\ base' = [base EXCEPT ![r] = tree] /\ UNCHANGED <<tree, edits, applied>>
    BY Zenon, <1>4 DEF CreateWorkspace, ghost
  <2>1. Old' = Old \cup {r} /\ r \notin Old
    <3>1. Old' = Old \cup {r}
      BY Zenon, <2>0 DEF Old
    <3> QED
      BY Zenon, <1>0, <2>0, <3>1, OldRuns
  <2>2. base'[r] = tree /\ \A s \in Run \ {r} : base'[s] = base[s]
    BY Zenon, <1>0, <2>0 DEF TreeTypes
  <2>3. \A C : Down(C) => Down(C)'
    BY Zenon, <2>1, <2>2 DEF Down
  <2>4. \A s \in used : \E C \in SUBSET Old' : Down(C)' /\ s \notin C /\ \A p \in Path : base'[s][p] \in C
    <3> SUFFICES ASSUME NEW s \in used
                 PROVE \E C \in SUBSET Old' : Down(C)' /\ s \notin C /\ \A p \in Path : base'[s][p] \in C
      OBVIOUS
    <3>1. PICK C \in SUBSET Old : Down(C) /\ s \notin C /\ \A p \in Path : base[s][p] \in C
      BY Zenon, <1>0 DEF Values
    <3>2. s \in Run \ {r}
      BY Zenon, <1>0, <2>0 DEF Runs
    <3> QED
      BY Zenon, <2>1, <2>2, <2>3, <3>1, <3>2
  <2>5. PICK C : C = Old
    OBVIOUS
  <2>6. C \in SUBSET Old' /\ Down(C)' /\ r \notin C /\ \A p \in Path : base'[r][p] \in C
    <3>1. \A s \in C \cap Run : s # r /\ \A p \in Path : base'[s][p] \in C
      BY Zenon, <1>0, <2>1, <2>2, <2>5 DEF Values
    <3> QED
      BY Zenon, <1>0, <2>1, <2>2, <2>5, <3>1 DEF Down, Values
  <2>7. \A s \in used' : \E D \in SUBSET Old' : Down(D)' /\ s \notin D /\ \A p \in Path : base'[s][p] \in D
    BY Zenon, <2>0, <2>4, <2>6
  <2>8. (\A p \in Path : tree'[p] \in Old') /\ (\A s \in Run, p \in Path : base'[s][p] \in Old') /\ applied' \subseteq used'
    BY SMTT(30), <1>0, <2>0, <2>1, <2>2 DEF Values
  <2> QED
    BY Zenon, <2>7, <2>8 DEF Values
<1>5. ASSUME NEW x \in Proc, Begins(x) \/ ApplyJournal(x) \/ TakesBack(x) \/ Restores(x) \/ Unsynced(x) PROVE Values'
  <2>1. UNCHANGED <<tree, base, used, edits, applied>>
    BY Zenon, <1>5 DEF Begins, Begin, ApplyJournal, TakesBack, LeaseApplication, Restores, RestoreDone, Unsynced,
      ApplyFails, counts, ghost
  <2> QED
    BY Zenon, <1>0, <1>1, <2>1 DEF Values
<1>6. ASSUME NEW x \in Proc, WritePath(x) \/ RestoreWrite(x) PROVE Values'
  <2>1. UNCHANGED <<base, used, edits, applied>>
    BY Zenon, <1>6 DEF WritePath, RestoreWrite, counts, ghost
  <2>2. cur[x] \in used
    BY Zenon, <1>0, <1>6 DEF WritePath, RestoreWrite, At, Runs, Bound, Writing
  <2>3. \A q \in Path : tree'[q] \in {tree[q], cur[x], base[cur[x]][q]}
    BY Zenon, <1>0, <1>6 DEF TreeTypes, WritePath, RestoreWrite
  <2>4. \A q \in Path : tree'[q] \in Old
    BY Zenon, <1>0, <2>2, <2>3, OldRuns DEF Values, Runs
  <2> QED
    BY Zenon, <1>0, <1>1, <2>1, <2>4 DEF Values
<1>7. ASSUME NEW x \in Proc, Completes(x) PROVE Values'
  <2>1. UNCHANGED <<tree, base, used, edits>> /\ applied' \subseteq applied \cup {cur[x]}
    BY Zenon, <1>7 DEF Completes, FinalCheck, counts
  <2>2. cur[x] \in used
    BY Zenon, <1>0, <1>7 DEF Completes, Runs
  <2> QED
    BY Zenon, <1>0, <1>1, <2>1, <2>2 DEF Values
<1> QED
  BY Zenon, <1>0, <1>2, <1>3, <1>4, <1>5, <1>6, <1>7, TreeSteps DEF Creates

\* How a process comes to put paths in place, and how it gets on.
LEMMA PlacingSteps ==
  ASSUME Types, TreeTypes, [Next]_vars, NEW y \in Proc, pc'[y] \in Placing
  PROVE /\ cur'[y] = cur[y]
        /\ \/ Preflight(y) \/ VerifyPath(y)
           \/ pc[y] \in Placing /\ left'[y] = left[y] /\ (pc'[y] = "final" => pc[y] = "final")
<1> DEFINE Goal == /\ cur'[y] = cur[y]
                   /\ \/ Preflight(y) \/ VerifyPath(y)
                      \/ pc[y] \in Placing /\ left'[y] = left[y] /\ (pc'[y] = "final" => pc[y] = "final")
\* A step of another process, or one that ends elsewhere.
<1>1. ASSUME NEW x \in Proc, NEW l \in Label \ Placing, Goto(x, l),
             \A z \in Proc \ {x} : cur'[z] = cur[z] /\ left'[z] = left[z]
      PROVE Goal
  BY Zenon, <1>1 DEF Types, Goto
<1>2. UNCHANGED vars => Goal
  BY Zenon DEF vars, local
<1>3. ASSUME NEW p \in Path, UserEdit(p) PROVE Goal
  BY Zenon, <1>3 DEF UserEdit
<1>4. ASSUME NEW x \in Proc, End(x) \/ ApplyReturns(x) \/ RestoreError(x) \/ PublishError(x) \/ PublicationError(x)
                            \/ NextPublication(x) \/ NextApplication(x) \/ Published(x)
                            \/ (Recovered(x) /\ UNCHANGED left)
      PROVE Goal
  <2>1. \E l \in {"idle", "cleanup", "pub_read", "apply_read", "apply_list", "ready", "begin"} : Goto(x, l)
    BY Zenon, <1>4 DEF End, ApplyReturns, RestoreError, PublishError, PublicationError, NextPublication,
      NextApplication, Recovered, Published
  <2>2. \A z \in Proc \ {x} : cur'[z] = cur[z] /\ left'[z] = left[z]
    BY Zenon, <1>4 DEF Types, TreeTypes, End, ApplyReturns, RestoreError, PublishError, PublicationError,
      NextPublication, NextApplication, Recovered, Published, Keep
  <2>3. {"idle", "cleanup", "pub_read", "apply_read", "apply_list", "ready", "begin"} \subseteq Label \ Placing
    BY Zenon DEF Label, Placing
  <2> QED
    BY Zenon, <1>1, <2>1, <2>2, <2>3
<1>5. ASSUME NEW x \in Proc, OpenCore(x) \/ ListPublications(x) \/ ListApplications(x) \/ ReadPublication(x)
                            \/ ReadApplication(x) \/ LeasePublication(x) \/ LeaseApplication(x) \/ PublishLease(x)
      PROVE Goal
  <2>1. CASE End(x) \/ PublishError(x) \/ (Recovered(x) /\ UNCHANGED left)
    BY Zenon, <1>4, <2>1
  <2>2. CASE ~(End(x) \/ PublishError(x) \/ (Recovered(x) /\ UNCHANGED left))
    <3>1. /\ \E l \in {"pub_list", "apply_list", "pub_read", "apply_read", "pub_lease", "apply_lease", "pub_recover",
                       "restore", "publish_journal"} : Goto(x, l)
          /\ UNCHANGED left /\ (cur' = cur \/ \E r : cur' = [cur EXCEPT ![x] = r])
      BY Zenon, <1>5, <2>2 DEF OpenCore, ListPublications, ListApplications, ReadPublication, ReadApplication,
        LeasePublication, LeaseApplication, PublishLease, Keep
    <3>2. \A z \in Proc \ {x} : cur'[z] = cur[z] /\ left'[z] = left[z]
      BY Zenon, <3>1 DEF Types
    <3>3. {"pub_list", "apply_list", "pub_read", "apply_read", "pub_lease", "apply_lease", "pub_recover", "restore",
           "publish_journal"} \subseteq Label \ Placing
      BY Zenon DEF Label, Placing
    <3> QED
      BY Zenon, <1>1, <3>1, <3>2, <3>3
  <2> QED
    BY Zenon, <2>1, <2>2
<1>6. ASSUME NEW x \in Proc, RecoverPublication(x) \/ DeleteRef(x) \/ DeleteBaseRef(x) \/ RemoveRecord(x)
                            \/ DeleteJournal(x) \/ PublishJournal(x) \/ PublishStep(x) \/ PublishDone(x)
                            \/ PublishFails(x) \/ Cleanup(x) \/ Die(x)
      PROVE Goal
  <2>1. CASE End(x) \/ PublicationError(x) \/ PublishError(x) \/ NextPublication(x) \/ Published(x)
    BY Zenon, <1>4, <2>1
  <2>2. CASE ~(End(x) \/ PublicationError(x) \/ PublishError(x) \/ NextPublication(x) \/ Published(x))
    <3>1. Keep /\ \E l \in {"pub_recover", "del_ref", "del_base", "del_record", "del_journal", "publish_base",
                            "publish_record", "publish_ref", "publish_done"} : Goto(x, l)
      <4>1. CASE PublishStep(x)
        <5>1. Keep /\ Goto(x, AfterPublish[pc[x]]) /\ pc[x] \in {"publish_base", "publish_record", "publish_ref"}
          BY Zenon, <4>1 DEF PublishStep, PublishBase, PublishRecord, PublishRef, At
        <5>2. AfterPublish[pc[x]] \in {"publish_record", "publish_ref", "publish_done"}
          BY SMTT(30), <5>1 DEF AfterPublish
        <5> QED
          BY Zenon, <5>1, <5>2
      <4>2. CASE ~PublishStep(x)
        BY Zenon, <1>6, <2>2, <4>2 DEF RecoverPublication, DeleteRef, DeleteBaseRef, RemoveRecord, DeleteJournal,
          PublishJournal, PublishDone, PublishFails, Cleanup, Die
      <4> QED
        BY Zenon, <4>1, <4>2
    <3>2. {"pub_recover", "del_ref", "del_base", "del_record", "del_journal", "publish_base", "publish_record",
           "publish_ref", "publish_done"} \subseteq Label \ Placing
      BY Zenon DEF Label, Placing
    <3> QED
      BY Zenon, <1>1, <3>1, <3>2 DEF Keep
  <2> QED
    BY Zenon, <2>1, <2>2
<1>7. ASSUME NEW x \in Proc, Restore(x) \/ RestoreCheck(x) \/ RestoreWrite(x) \/ RestoreDone(x) PROVE Goal
  <2>1. CASE RestoreError(x) \/ NextApplication(x) \/ ApplyReturns(x)
    BY Zenon, <1>4, <2>1
  <2>2. CASE ~(RestoreError(x) \/ NextApplication(x) \/ ApplyReturns(x))
    <3>1. /\ \E l \in {"restore_done", "restore_check", "restore_write"} : Goto(x, l)
          /\ cur' = cur /\ \E S : left' = left \/ left' = [left EXCEPT ![x] = S]
      BY Zenon, <1>7, <2>2 DEF Restore, RestoreCheck, RestoreWrite, RestoreDone, Keep
    <3>2. \A z \in Proc \ {x} : cur'[z] = cur[z] /\ left'[z] = left[z]
      BY Zenon, <3>1 DEF TreeTypes
    <3>3. {"restore_done", "restore_check", "restore_write"} \subseteq Label \ Placing
      BY Zenon DEF Label, Placing
    <3> QED
      BY Zenon, <1>1, <3>1, <3>2, <3>3
  <2> QED
    BY Zenon, <2>1, <2>2
<1>8. ASSUME NEW x \in Proc, NEW r \in Run,
             TakeLease(x, r) \/ \E f \in Flags[r] : CreateWorkspace(x, r, f) PROVE Goal
  <2>1. CASE End(x)
    BY Zenon, <1>4, <2>1
  <2>2. CASE ~End(x)
    <3>1. /\ \E l \in {"begin", "publish_lease", "cleanup"} : Goto(x, l)
          /\ UNCHANGED left /\ cur' = [cur EXCEPT ![x] = r]
      BY Zenon, <1>8, <2>2 DEF TakeLease, CreateWorkspace
    <3>2. \A z \in Proc \ {x} : cur'[z] = cur[z] /\ left'[z] = left[z]
      BY Zenon, <3>1 DEF Types
    <3>3. {"begin", "publish_lease", "cleanup"} \subseteq Label \ Placing
      BY Zenon DEF Label, Placing
    <3> QED
      BY Zenon, <1>1, <3>1, <3>2, <3>3
  <2> QED
    BY Zenon, <2>1, <2>2
<1>9. ASSUME NEW x \in Proc, Begin(x) \/ ApplyJournal(x) \/ FinalCheck(x) \/ ApplyFails(x) PROVE Goal
  <2>1. CASE RestoreError(x) \/ ApplyReturns(x)
    BY Zenon, <1>4, <2>1
  <2>2. CASE ~(RestoreError(x) \/ ApplyReturns(x))
    <3>1. UNCHANGED <<cur, left>> /\ \E l \in {"journal", "preflight", "restore"} : Goto(x, l)
      BY Zenon, <1>9, <2>2 DEF Begin, ApplyJournal, FinalCheck, ApplyFails, Keep
    <3>2. {"journal", "preflight", "restore"} \subseteq Label \ Placing
      BY Zenon DEF Label, Placing
    <3> QED
      BY Zenon, <1>1, <3>1, <3>2
  <2> QED
    BY Zenon, <2>1, <2>2
\* The steps that lead to another path, or to the next step for this one.
<1>10. ASSUME NEW x \in Proc, Preflight(x) \/ CheckPath(x) \/ WritePath(x) \/ VerifyPath(x) PROVE Goal
  <2>1. CASE ApplyReturns(x)
    BY Zenon, <1>4, <2>1
  <2>2. CASE ~ApplyReturns(x)
    <3>1. /\ cur' = cur /\ (\E l : Goto(x, l)) /\ \E S : left' = left \/ left' = [left EXCEPT ![x] = S]
      BY Zenon, <1>10, <2>2 DEF Preflight, CheckPath, WritePath, VerifyPath, Keep
    <3>2. CASE x # y
      BY Zenon, <3>1, <3>2 DEF Types, TreeTypes, Goto
    <3>3. CASE x = y
      <4>1. CASE CheckPath(x) \/ WritePath(x)
        <5>1. left' = left /\ pc[x] \in {"check", "write"} /\ (Goto(x, "write") \/ Goto(x, "verify"))
          BY Zenon, <2>2, <4>1 DEF CheckPath, WritePath, At, Keep
        <5>2. pc'[x] # "final" /\ pc[x] \in Placing
          BY Zenon, <5>1 DEF Types, Goto, Placing
        <5> QED
          BY Zenon, <3>1, <3>3, <5>1, <5>2
      <4> QED
        BY Zenon, <1>10, <3>1, <3>3, <4>1
    <3> QED
      BY Zenon, <3>2, <3>3
  <2> QED
    BY Zenon, <2>1, <2>2
<1> QED
  BY Zenon, <1>2, <1>3, <1>5, <1>6, <1>7, <1>8, <1>9, <1>10 DEF Next, Step, Recover, Publish, Apply

\* Every step keeps what an application has put in place: the process that writes is
\* alone, and an edit of the user is a content that was nowhere before.
LEMMA PlacedNext ==
  ASSUME Leased, Runs, Writers, Values, Placed, [Next]_vars PROVE Placed'
<1>0. Types /\ Runs /\ TreeTypes /\ Values /\ edits \in Nat
  BY Zenon DEF Leased, Writers, TreeTypes
<1>1. lapses \subseteq lapses'
  BY Zenon, <1>0, TreeSteps DEF Quiet, UserEdit, Creates, CreateWorkspace, Begins, Begin, ApplyJournal, TakesBack,
    LeaseApplication, WritePath, RestoreWrite, Completes, FinalCheck, Restores, RestoreDone, Unsynced, ApplyFails, ghost
<1>2. ASSUME NEW y \in Proc, pc'[y] = "final" PROVE left'[y] = {}
  <2>1. CASE VerifyPath(y)
    <3>1. pc[y] = "verify" /\ \/ /\ left[y] = {First(left[y])} /\ left' = [left EXCEPT ![y] = @ \ {First(left[y])}]
                              \/ \E l \in {"check", "restore"} : Goto(y, l)
      BY Zenon, <2>1 DEF VerifyPath, At
    <3>2. left[y] = {First(left[y])} /\ left' = [left EXCEPT ![y] = @ \ {First(left[y])}]
      BY Zenon, <1>0, <1>2, <3>1 DEF Types, Goto
    <3> QED
      BY Zenon, <1>0, <3>2 DEF TreeTypes
  <2>2. CASE Preflight(y)
    <3>1. \E l \in {"check", "idle", "cleanup"} : Goto(y, l)
      BY Zenon, <2>2 DEF Preflight, ApplyReturns, End
    <3> QED
      BY Zenon, <1>0, <1>2, <3>1 DEF Types, Goto
  <2>3. CASE left'[y] = left[y] /\ pc[y] = "final"
    BY Zenon, <2>3 DEF Placed
  <2> QED
    BY Zenon, <1>0, <1>2, <2>1, <2>2, <2>3, PlacingSteps DEF Placing
<1>3. SUFFICES ASSUME lapses' = {}, NEW y \in Proc, pc'[y] \in Placing PROVE Replaced(y)'
  BY Zenon, <1>2 DEF Placed
<1>4. lapses = {} /\ \A x, z \in Proc : pc[x] \in Writing /\ pc[z] \in Writing => x = z
  BY Zenon, <1>1, <1>3 DEF Writers, Checked
<1>5. /\ cur'[y] = cur[y]
      /\ \/ Preflight(y) \/ VerifyPath(y)
         \/ pc[y] \in Placing /\ left'[y] = left[y]
  BY Zenon, <1>0, <1>3, PlacingSteps
<1>6. pc[y] \in Writing /\ pc[y] \notin {"begin", "restore_write"}
  BY Zenon, <1>5 DEF Preflight, VerifyPath, At, Placing, Writing
<1>7. cur[y] \in used /\ cur[y] \in Run /\ Delta[cur[y]] \subseteq Path
  BY Zenon, <1>0, <1>6, DeltaPaths DEF Runs, Bound
\* What existed still does, and a baseline is captured for a new run only.
<1>8. /\ \A C \in SUBSET Old : Down(C) => C \in SUBSET Old' /\ Down(C)'
      /\ base'[cur[y]] = base[cur[y]]
  <2>1. ASSUME UNCHANGED base, Old \subseteq Old'
        PROVE /\ \A C \in SUBSET Old : Down(C) => C \in SUBSET Old' /\ Down(C)'
              /\ base'[cur[y]] = base[cur[y]]
    BY Zenon, <2>1 DEF Down
  <2>2. ASSUME NEW x \in Proc, NEW r \in Run, NEW f \in Flags[r], CreateWorkspace(x, r, f)
        PROVE /\ \A C \in SUBSET Old : Down(C) => C \in SUBSET Old' /\ Down(C)'
              /\ base'[cur[y]] = base[cur[y]]
    <3>1. r \notin used /\ used' = used \cup {r} /\ base' = [base EXCEPT ![r] = tree] /\ UNCHANGED edits
      BY Zenon, <2>2 DEF CreateWorkspace
    <3>2. Old \subseteq Old' /\ r \notin Old
      BY Zenon, <1>0, <3>1, OldRuns DEF Old
    <3>3. \A s \in Run \ {r} : base'[s] = base[s]
      BY Zenon, <1>0, <3>1 DEF TreeTypes
    <3>4. r # cur[y]
      BY Zenon, <1>7, <3>1
    <3> QED
      BY Zenon, <1>7, <3>2, <3>3, <3>4 DEF Down
  <2>3. ASSUME NEW p \in Path, UserEdit(p) PROVE UNCHANGED base /\ Old \subseteq Old'
    BY SMTT(30), <1>0, <2>3 DEF Old, UserEdit
  <2>4. UNCHANGED <<used, edits>> => Old \subseteq Old'
    BY Zenon DEF Old
  <2>5. UNCHANGED <<base, used, edits>> \/ (\E p \in Path : UserEdit(p)) \/ \E x \in Proc : Creates(x)
    BY Zenon, <1>0, TreeSteps
      DEF Quiet, Begins, Begin, ApplyJournal, TakesBack, LeaseApplication, WritePath, RestoreWrite, Completes,
          FinalCheck, Restores, RestoreDone, Unsynced, ApplyFails, counts
  <2> QED
    BY Zenon, <2>1, <2>2, <2>3, <2>4, <2>5 DEF Creates
\* A path keeps its content, or gets one that was nowhere, or that of the run.
<1>9. \A q \in Path : tree'[q] = tree[q] \/ tree'[q] \notin Old \/ tree'[q] = cur[y]
  <2>1. UNCHANGED tree => \A q \in Path : tree'[q] = tree[q]
    BY Zenon
  <2>2. ASSUME NEW p \in Path, UserEdit(p) PROVE \A q \in Path : tree'[q] = tree[q] \/ tree'[q] \notin Old
    <3>1. edits + 1 \notin Old
      BY SMTT(30), <1>0, ProposalAssumption DEF Old, Runs
    <3>2. tree' = [tree EXCEPT ![p] = edits + 1]
      BY Zenon, <2>2 DEF UserEdit
    <3> QED
      BY Zenon, <1>0, <3>1, <3>2 DEF TreeTypes
  <2>3. ASSUME NEW x \in Proc, WritePath(x) PROVE \A q \in Path : tree'[q] = tree[q] \/ tree'[q] = cur[y]
    <3>1. x = y
      BY Zenon, <1>4, <1>6, <2>3 DEF WritePath, At, Writing
    <3> QED
      BY Zenon, <1>0, <2>3, <3>1 DEF WritePath, TreeTypes
  <2>4. ASSUME NEW x \in Proc, RestoreWrite(x) PROVE FALSE
    BY Zenon, <1>4, <1>6, <2>4 DEF RestoreWrite, At, Writing
  <2>5. UNCHANGED tree \/ (\E p \in Path : UserEdit(p)) \/ \E x \in Proc : WritePath(x) \/ RestoreWrite(x)
    BY Zenon, <1>0, TreeSteps
      DEF Quiet, Creates, CreateWorkspace, Begins, Begin, ApplyJournal, TakesBack, LeaseApplication, Completes,
          FinalCheck, Restores, RestoreDone, Unsynced, ApplyFails
  <2> QED
    BY Zenon, <2>1, <2>2, <2>3, <2>4, <2>5
<1>10. ASSUME NEW C \in SUBSET Old, Down(C), cur[y] \notin C, \A p \in Path : base[cur[y]][p] \in C,
              \A q \in Delta[cur[y]] \ left'[y] : tree[q] \notin C
       PROVE Replaced(y)'
  <2>1. C \in SUBSET Old' /\ Down(C)' /\ cur'[y] \notin C /\ \A p \in Path : base'[cur'[y]][p] \in C
    BY Zenon, <1>5, <1>8, <1>10
  <2>2. \A q \in Delta[cur'[y]] \ left'[y] : tree'[q] \notin C
    BY Zenon, <1>5, <1>7, <1>9, <1>10
  <2> QED
    BY Zenon, <2>1, <2>2 DEF Replaced
<1>11. CASE Preflight(y)
  <2>1. left' = [left EXCEPT ![y] = Delta[cur[y]]]
    <3>1. ~ApplyReturns(y)
      BY Zenon, <1>0, <1>3 DEF ApplyReturns, End, Goto, Types, Placing
    <3> QED
      BY Zenon, <1>11, <3>1 DEF Preflight
  <2>2. left'[y] = Delta[cur[y]]
    BY Zenon, <1>0, <2>1 DEF TreeTypes
  <2>3. PICK C \in SUBSET Old : Down(C) /\ cur[y] \notin C /\ \A p \in Path : base[cur[y]][p] \in C
    BY Zenon, <1>0, <1>7 DEF Values
  <2> QED
    BY Zenon, <1>10, <2>2, <2>3
<1>12. CASE VerifyPath(y)
  <2>1. pc[y] \in Placing
    BY Zenon, <1>12 DEF VerifyPath, At, Placing
  <2>2. PICK C \in SUBSET Old :
          /\ Down(C) /\ cur[y] \notin C /\ \A p \in Path : base[cur[y]][p] \in C
          /\ \A q \in Delta[cur[y]] \ left[y] : tree[q] \notin C
    BY Zenon, <1>4, <2>1 DEF Placed, Replaced
  <2>3. ~Goto(y, "restore")
    BY Zenon, <1>0, <1>3 DEF Goto, Types, Placing
  <2>4. tree[First(left[y])] = cur[y] /\ left' = [left EXCEPT ![y] = @ \ {First(left[y])}]
    BY Zenon, <1>12, <2>3 DEF VerifyPath
  <2>5. left'[y] = left[y] \ {First(left[y])}
    BY Zenon, <1>0, <2>4 DEF TreeTypes
  <2>6. \A q \in Delta[cur[y]] \ left'[y] : tree[q] \notin C
    BY Zenon, <2>2, <2>4, <2>5
  <2> QED
    BY Zenon, <1>10, <2>2, <2>6
<1>13. CASE pc[y] \in Placing /\ left'[y] = left[y]
  <2>1. PICK C \in SUBSET Old :
          /\ Down(C) /\ cur[y] \notin C /\ \A p \in Path : base[cur[y]][p] \in C
          /\ \A q \in Delta[cur[y]] \ left[y] : tree[q] \notin C
    BY Zenon, <1>4, <1>13 DEF Placed, Replaced
  <2>2. \A q \in Delta[cur[y]] \ left'[y] : tree[q] \notin C
    BY Zenon, <1>13, <2>1
  <2> QED
    BY Zenon, <1>10, <2>1, <2>2
<1> QED
  BY Zenon, <1>5, <1>11, <1>12, <1>13

\* Every step keeps what the tree and the baselines have of each proposal: the process
\* that writes is alone, works for the one journal on disk, and writes what its run or
\* the baseline of its run has.
LEMMA TrackedNext ==
  ASSUME Leased, Runs, Writers, Values, Placed, Tracked, [Next]_vars PROVE Tracked'
<1> SUFFICES ASSUME lapses' = {} PROVE Journaled' /\ Targets' /\ Wholes' /\ Superseded'
  BY Zenon DEF Tracked
<1>0. Types /\ Runs /\ TreeTypes /\ Values /\ edits \in Nat
  BY Zenon DEF Leased, Writers, TreeTypes
<1>1. lapses \subseteq lapses'
  BY Zenon, <1>0, TreeSteps DEF Quiet, UserEdit, Creates, CreateWorkspace, Begins, Begin, ApplyJournal, TakesBack,
    LeaseApplication, WritePath, RestoreWrite, Completes, FinalCheck, Restores, RestoreDone, Unsynced, ApplyFails, ghost
<1>2. Journaled /\ Targets /\ Wholes /\ Superseded /\ \A x, y \in Proc : pc[x] \in Writing /\ pc[y] \in Writing => x = y
  BY Zenon, <1>1 DEF Tracked, Writers, Checked
<1>3. Target \subseteq used
  BY Zenon, <1>0 DEF Target, Runs, Bound, Writing
\* A step that changes neither the tree nor a baseline.
<1>4. ASSUME UNCHANGED <<tree, base, used, edits>>, Journaled', Wholes', Superseded', Target' \subseteq Target,
             applyJournal \subseteq applyJournal' \/ Target' = {}
      PROVE Targets'
  <2> SUFFICES ASSUME NEW r \in Target' PROVE Own(r)' /\ \A s \in Run \ applyJournal' : Whole(base[r], s)'
    BY Zenon DEF Targets
  <2>1. Own(r) /\ \A s \in Run \ applyJournal : Whole(base[r], s)
    BY Zenon, <1>2, <1>4 DEF Targets
  <2>2. Own(r)'
    BY Zenon, <1>4, <2>1 DEF Own
  <2>3. \A s \in Run : Whole(base[r], s) => Whole(base[r], s)'
    BY Zenon, <1>4 DEF Whole
  <2> QED
    BY Zenon, <1>4, <2>1, <2>2, <2>3
<1>5. ASSUME UNCHANGED <<tree, base, used, edits, applied>>, Target' \subseteq Target PROVE Superseded'
  <2>1. Old' = Old /\ \A C : Down(C)' <=> Down(C)
    BY Zenon, <1>5 DEF Old, Down
  <2> QED
    BY Zenon, <1>2, <1>5, <2>1 DEF Superseded
<1>6. ASSUME UNCHANGED <<tree, base>>, applyJournal \subseteq applyJournal' PROVE Wholes'
  BY Zenon, <1>2, <1>6 DEF Wholes, Whole
<1>7. ASSUME Quiet PROVE Journaled' /\ Targets' /\ Wholes' /\ Superseded'
  <2>1. Target' \subseteq Target
    BY Zenon, <1>7 DEF Quiet, Target
  <2>2. Journaled'
    BY Zenon, <1>2, <1>7 DEF Quiet, Journaled
  <2> QED
    BY Zenon, <1>4, <1>5, <1>6, <1>7, <2>1, <2>2 DEF Quiet
<1>8. ASSUME NEW x \in Proc, TakesBack(x) PROVE Journaled' /\ Targets' /\ Wholes' /\ Superseded'
  <2>1. UNCHANGED <<tree, base, used, edits, applied, applyJournal, cur>> /\ Goto(x, "restore")
    BY Zenon, <1>8 DEF TakesBack, LeaseApplication, Keep, counts
  <2>2. cur[x] \in applyJournal
    BY Zenon, <1>8 DEF TakesBack, LeaseApplication
  <2>3. pc'[x] = "restore" /\ \A y \in Proc \ {x} : pc'[y] = pc[y]
    BY Zenon, <1>0, <2>1 DEF Types, Goto
  <2>4. Target' \subseteq Target
    BY Zenon, <2>1, <2>3 DEF Target
  <2>5. Journaled'
    BY Zenon, <1>2, <2>1, <2>2, <2>3 DEF Journaled
  <2> QED
    BY Zenon, <1>4, <1>5, <1>6, <2>1, <2>4, <2>5
<1>9. ASSUME NEW x \in Proc, ApplyJournal(x) PROVE Journaled' /\ Targets' /\ Wholes' /\ Superseded'
  <2>1. /\ UNCHANGED <<tree, base, used, edits, applied, cur>> /\ Goto(x, "preflight") /\ pc[x] = "journal"
        /\ applyJournal' = applyJournal \cup {cur[x]}
    BY Zenon, <1>9 DEF ApplyJournal, Keep, counts, At
  <2>2. applyJournal = {}
    BY SMTT(30), <1>9 DEF ApplyJournal
  <2>3. pc'[x] = "preflight" /\ \A y \in Proc \ {x} : pc'[y] = pc[y]
    BY Zenon, <1>0, <2>1 DEF Types, Goto
  <2>4. Target' \subseteq Target
    BY Zenon, <2>1, <2>3 DEF Target
  <2>5. Journaled'
    BY Zenon, <1>2, <2>1, <2>2, <2>3 DEF Journaled
  <2> QED
    BY Zenon, <1>4, <1>5, <1>6, <2>1, <2>4, <2>5
<1>10. ASSUME NEW x \in Proc, Begins(x) PROVE Journaled' /\ Targets' /\ Wholes' /\ Superseded'
  <2>1. /\ UNCHANGED <<tree, base, used, edits, applied, applyJournal, cur>> /\ Goto(x, "journal")
        /\ tree = base[cur[x]] /\ cur[x] \in used
    <3>1. pc'[x] # "idle" /\ pc'[x] # "cleanup"
      BY Zenon, <1>10 DEF Begins
    <3>2. ~ApplyReturns(x)
      BY Zenon, <1>0, <3>1 DEF ApplyReturns, End, Goto, Types
    <3> QED
      BY Zenon, <1>0, <1>10, <3>2 DEF Begins, Begin, Keep, counts, ghost, Runs
  <2>2. pc'[x] = "journal" /\ \A y \in Proc \ {x} : pc'[y] = pc[y]
    BY Zenon, <1>0, <2>1 DEF Types, Goto
  <2>3. Target' = Target \cup {cur[x]}
    BY Zenon, <2>1, <2>2 DEF Target
  <2>4. Journaled'
    BY Zenon, <1>2, <2>1, <2>2 DEF Journaled, Midway
  <2>5. Wholes'
    BY Zenon, <1>6, <2>1
  <2>6. Targets'
    <3> SUFFICES ASSUME NEW r \in Target' PROVE Own(r)' /\ \A s \in Run \ applyJournal' : Whole(base[r], s)'
      BY Zenon DEF Targets
    <3>1. Own(r) /\ \A s \in Run \ applyJournal : Whole(base[r], s)
      <4>1. CASE r \in Target
        BY Zenon, <1>2, <4>1 DEF Targets
      <4>2. CASE r = cur[x]
        BY Zenon, <1>2, <2>1, <4>2 DEF Wholes, Own
      <4> QED
        BY Zenon, <2>3, <4>1, <4>2
    <3>2. Own(r)'
      BY Zenon, <2>1, <3>1 DEF Own
    <3>3. \A s \in Run : Whole(base[r], s) => Whole(base[r], s)'
      BY Zenon, <2>1 DEF Whole
    <3> QED
      BY Zenon, <2>1, <3>1, <3>2, <3>3
  <2>7. Superseded'
    <3>1. Old' = Old /\ \A C : Down(C)' <=> Down(C)
      BY Zenon, <2>1 DEF Old, Down
    <3> QED
      BY Zenon, <1>2, <2>1, <2>3, <3>1 DEF Superseded
  <2> QED
    BY Zenon, <2>4, <2>5, <2>6, <2>7
\* An edit of the user: a content that was nowhere before.
<1>11. ASSUME NEW p \in Path, UserEdit(p) PROVE Journaled' /\ Targets' /\ Wholes' /\ Superseded'
  <2>1. UNCHANGED <<base, used, applied, applyJournal, cur, pc>> /\ tree' = [tree EXCEPT ![p] = edits + 1]
    BY Zenon, <1>11 DEF UserEdit, ghost
  <2>2. Old \subseteq Old' /\ edits + 1 \notin Old /\ edits + 1 \notin Run
    BY SMTT(30), <1>0, <1>11, ProposalAssumption DEF Old, UserEdit, Runs
  <2>3. tree'[p] = edits + 1 /\ \A q \in Path \ {p} : tree'[q] = tree[q]
    BY Zenon, <1>0, <2>1 DEF TreeTypes
  <2>4. Target' = Target
    BY Zenon, <2>1 DEF Target
  <2>5. Journaled'
    BY Zenon, <1>2, <2>1 DEF Journaled
  <2>6. \A r \in Run, q \in Path : base[r][q] \in Old
    BY Zenon, <1>0 DEF Values
  <2>7. ASSUME NEW s \in Run, Whole(tree, s) PROVE Whole(tree, s)'
    <3>1. SUFFICES ASSUME NEW u \in Delta[s], NEW q \in Delta[s], tree'[u] = s, tree'[q] = base[s][q] PROVE FALSE
      BY Zenon, <2>1 DEF Whole
    <3>2. Delta[s] \subseteq Path
      BY Zenon, DeltaPaths
    <3>3. u # p /\ q # p
      BY Zenon, <2>2, <2>3, <2>6, <3>1, <3>2
    <3> QED
      BY Zenon, <2>3, <2>7, <3>1, <3>2, <3>3 DEF Whole
  <2>8. Targets'
    <3>1. ASSUME NEW r \in Target PROVE Own(r)'
      <4>1. Own(r)
        BY Zenon, <1>2, <3>1 DEF Targets
      <4>2. SUFFICES ASSUME NEW q \in Path
                     PROVE \/ tree'[q] \in {base[r][q], r}
                           \/ /\ tree'[q] \notin Run
                              /\ \A s \in Run : (\E u \in Path : base[r][u] = s) => base[s][q] # tree'[q]
        BY Zenon, <2>1 DEF Own
      <4>3. CASE q = p
        BY Zenon, <2>2, <2>3, <2>6, <4>3
      <4>4. CASE q # p
        BY Zenon, <2>3, <4>1, <4>4 DEF Own
      <4> QED
        BY Zenon, <4>3, <4>4
    <3>2. ASSUME NEW r \in Target, NEW s \in Run \ applyJournal PROVE Whole(base[r], s)'
      BY Zenon, <1>2, <2>1, <3>2 DEF Targets, Whole
    <3> QED
      BY Zenon, <2>1, <2>4, <3>1, <3>2 DEF Targets
  <2>9. Superseded'
    <3> SUFFICES ASSUME NEW s \in applied
                 PROVE \E C \in SUBSET Old' :
                         /\ Down(C)'
                         /\ \A q \in Delta[s] :
                              base[s][q] \in C /\ tree'[q] \notin C /\ \A r \in Target : base[r][q] \notin C
      BY Zenon, <2>1, <2>4 DEF Superseded
    <3>1. PICK C \in SUBSET Old :
            /\ Down(C)
            /\ \A q \in Delta[s] : base[s][q] \in C /\ tree[q] \notin C /\ \A r \in Target : base[r][q] \notin C
      BY Zenon, <1>2 DEF Superseded
    <3>2. Down(C)' /\ C \in SUBSET Old' /\ edits + 1 \notin C
      BY Zenon, <2>1, <2>2, <3>1 DEF Down
    <3>3. Delta[s] \subseteq Path
      BY Zenon, <1>0, DeltaPaths DEF Values, Runs
    <3>4. \A q \in Delta[s] : tree'[q] \notin C
      BY Zenon, <2>3, <3>1, <3>2, <3>3
    <3> QED
      BY Zenon, <3>1, <3>2, <3>4
  <2> QED
    BY Zenon, <1>2, <2>1, <2>5, <2>7, <2>8, <2>9 DEF Wholes
\* A new workspace: a run that was nowhere before.
<1>12. ASSUME NEW x \in Proc, NEW r \in Run, NEW f \in Flags[r], CreateWorkspace(x, r, f)
       PROVE Journaled' /\ Targets' /\ Wholes' /\ Superseded'
  <2>1. /\ r \notin used /\ used' = used \cup {r} /\ base' = [base EXCEPT ![r] = tree]
        /\ UNCHANGED <<tree, edits, applied, applyJournal>> /\ cur' = [cur EXCEPT ![x] = r]
        /\ (Goto(x, "publish_lease") \/ Goto(x, "cleanup")) /\ pc[x] = "ready"
    BY Zenon, <1>12 DEF CreateWorkspace, ghost, At
  <2>2. Old \subseteq Old' /\ r \notin Old
    BY Zenon, <1>0, <2>1, OldRuns DEF Old
  <2>3. base'[r] = tree /\ \A s \in Run \ {r} : base'[s] = base[s]
    BY Zenon, <1>0, <2>1 DEF TreeTypes
  <2>4. pc'[x] \notin Writing /\ \A y \in Proc \ {x} : pc'[y] = pc[y] /\ cur'[y] = cur[y]
    BY Zenon, <1>0, <2>1 DEF Types, Goto, Writing
  <2>5. Target' = Target
    BY Zenon, <2>1, <2>4 DEF Target, Writing
  <2>6. Journaled'
    <3>1. \A y \in Proc : pc'[y] \in Midway => pc[y] \in Midway /\ cur'[y] = cur[y]
      BY Zenon, <2>4 DEF Midway
    <3>2. applyJournal' = applyJournal
      BY Zenon, <2>1
    <3> QED
      BY Zenon, <1>2, <3>1, <3>2 DEF Journaled
  <2>7. (\A q \in Path : tree[q] \in Old) /\ \A s \in Run, q \in Path : base[s][q] \in Old
    BY Zenon, <1>0 DEF Values
  <2>8. Wholes'
    <3> SUFFICES ASSUME NEW s \in Run \ applyJournal, NEW p \in Delta[s], NEW q \in Delta[s],
                        tree[p] = s, tree[q] = base'[s][q]
                 PROVE FALSE
      BY Zenon, <2>1 DEF Wholes, Whole
    <3>1. Delta[s] \subseteq Path
      BY Zenon, DeltaPaths
    <3>2. s # r
      BY Zenon, <2>2, <2>7, <3>1
    <3>3. Whole(tree, s)
      BY Zenon, <1>2 DEF Wholes
    <3>4. base'[s] = base[s]
      BY Zenon, <2>3, <3>2
    <3> QED
      BY Zenon, <3>3, <3>4 DEF Whole
  <2>9. Targets'
    <3> SUFFICES ASSUME NEW t \in Target PROVE Own(t)' /\ \A s \in Run \ applyJournal : Whole(base[t], s)'
      BY Zenon, <2>1, <2>5 DEF Targets
    <3>1. t \in Run \ {r} /\ base'[t] = base[t]
      BY Zenon, <1>0, <1>3, <2>1, <2>3 DEF Runs
    <3>2. \A s \in Run : (\E p \in Path : base[t][p] = s) => base'[s] = base[s]
      BY Zenon, <2>2, <2>3, <2>7, <3>1
    <3>3. Own(t)'
      <4>1. Own(t)
        BY Zenon, <1>2 DEF Targets
      <4>2. tree' = tree /\ base'[t] = base[t]
        BY Zenon, <2>1, <3>1
      <4> QED
        BY Zenon, <3>2, <4>1, <4>2 DEF Own
    <3>4. ASSUME NEW s \in Run \ applyJournal, NEW p \in Delta[s], NEW q \in Delta[s],
                 base'[t][p] = s, base'[t][q] = base'[s][q]
          PROVE FALSE
      <4>1. Delta[s] \subseteq Path
        BY Zenon, DeltaPaths
      <4>2. base'[s] = base[s]
        BY Zenon, <3>1, <3>2, <3>4, <4>1
      <4>3. Whole(base[t], s)
        BY Zenon, <1>2 DEF Targets
      <4> QED
        BY Zenon, <3>1, <3>4, <4>2, <4>3 DEF Whole
    <3> QED
      BY Zenon, <3>3, <3>4 DEF Whole
  <2>10. Superseded'
    <3> SUFFICES ASSUME NEW s \in applied
                 PROVE \E C \in SUBSET Old' :
                         /\ Down(C)'
                         /\ \A q \in Delta[s] :
                              base'[s][q] \in C /\ tree[q] \notin C /\ \A t \in Target : base'[t][q] \notin C
      BY Zenon, <2>1, <2>5 DEF Superseded
    <3>1. PICK C \in SUBSET Old :
            /\ Down(C)
            /\ \A q \in Delta[s] : base[s][q] \in C /\ tree[q] \notin C /\ \A t \in Target : base[t][q] \notin C
      BY Zenon, <1>2 DEF Superseded
    <3>2. Down(C)' /\ C \in SUBSET Old'
      BY SMTT(30), <2>2, <2>3, <3>1 DEF Down
    <3>3. base'[s] = base[s] /\ \A t \in Target : base'[t] = base[t]
      BY Zenon, <1>0, <1>3, <2>1, <2>3 DEF Runs, Values
    <3> QED
      BY Zenon, <3>1, <3>2, <3>3
  <2> QED
    BY Zenon, <2>6, <2>8, <2>9, <2>10
\* The one process that writes, and the one journal it works for.
<1>13. ASSUME NEW x \in Proc, pc[x] \in Midway
       PROVE /\ cur[x] \in used \cap Run /\ applyJournal = {cur[x]} /\ Target = {cur[x]}
             /\ \A y \in Proc \ {x} : pc[y] \notin Writing
  <2>1. \A y \in Proc \ {x} : pc[y] \notin Writing
    BY Zenon, <1>2, <1>13 DEF Midway
  <2>2. applyJournal = {cur[x]}
    BY Zenon, <1>2, <1>13 DEF Journaled
  <2>3. pc[x] # "journal" /\ "journal" \in Writing
    BY Zenon, <1>13 DEF Midway, Writing
  <2>4. Target = {cur[x]}
    BY Zenon, <2>1, <2>2, <2>3 DEF Target
  <2> QED
    BY Zenon, <1>0, <2>1, <2>2, <2>4 DEF Runs
\* The end of an application or a rollback: no journal is left.
<1>14. ASSUME NEW x \in Proc, Completes(x) \/ Restores(x) \/ Unsynced(x)
       PROVE Journaled' /\ Targets' /\ Wholes' /\ Superseded'
  <2>1. /\ pc[x] \in Midway /\ UNCHANGED <<tree, base, used, edits>>
        /\ applyJournal' = applyJournal \ {cur[x]}
        /\ ApplyReturns(x) \/ NextApplication(x) \/ End(x)
        /\ pc[x] = "final" \/ (tree = base[cur[x]] /\ UNCHANGED applied)
        /\ applied' \subseteq applied \cup {cur[x]}
    BY Zenon, <1>14 DEF Completes, FinalCheck, Restores, RestoreDone, Unsynced, ApplyFails, RestoreError, Midway,
      Writing, At, counts, ghost
  <2>2. \E l \in {"idle", "cleanup", "apply_read", "ready"} : Goto(x, l)
    BY Zenon, <2>1 DEF ApplyReturns, NextApplication, Recovered, End
  <2>3. pc'[x] \notin Writing /\ \A y \in Proc \ {x} : pc'[y] = pc[y]
    BY Zenon, <1>0, <2>2 DEF Types, Goto, Writing
  <2>4. (\A y \in Proc : pc'[y] \notin Writing) /\ applyJournal' = {}
    BY Zenon, <1>13, <2>1, <2>3
  <2>5. Target' = {}
    BY Zenon, <2>4 DEF Target, Writing
  <2>6. Journaled' /\ Targets'
    BY Zenon, <2>4, <2>5 DEF Journaled, Targets, Midway
  <2>7. ASSUME pc[x] = "final"
        PROVE \E C \in SUBSET Old : Down(C) /\ \A q \in Delta[cur[x]] : base[cur[x]][q] \in C /\ tree[q] \notin C
    <3>1. left[x] = {} /\ Replaced(x)
      BY Zenon, <1>1, <2>7 DEF Placed, Placing
    <3>2. Delta[cur[x]] \subseteq Path
      BY Zenon, <1>13, <2>1, DeltaPaths
    <3> QED
      BY Zenon, <3>1, <3>2 DEF Replaced
  <2>8. Wholes'
    <3> SUFFICES ASSUME NEW s \in Run PROVE Whole(tree, s)
      BY Zenon, <2>1 DEF Wholes, Whole
    <3>1. CASE s # cur[x]
      BY Zenon, <1>2, <1>13, <2>1, <3>1 DEF Wholes
    <3>2. CASE s = cur[x]
      <4> SUFFICES ASSUME NEW p \in Delta[s], NEW q \in Delta[s], tree[p] = s, tree[q] = base[s][q] PROVE FALSE
        BY Zenon DEF Whole
      <4>1. Delta[s] \subseteq Path
        BY Zenon, DeltaPaths
      <4>2. \A u \in Path : base[s][u] # s
        BY Zenon, <1>0, NoCycle
      <4> QED
        BY Zenon, <2>1, <2>7, <3>2, <4>1, <4>2
    <3> QED
      BY Zenon, <3>1, <3>2
  <2>9. Superseded'
    <3>1. Old' = Old /\ \A C : Down(C)' <=> Down(C)
      BY Zenon, <2>1 DEF Old, Down
    <3> SUFFICES ASSUME NEW s \in applied'
                 PROVE \E C \in SUBSET Old : Down(C) /\ \A q \in Delta[s] : base[s][q] \in C /\ tree[q] \notin C
      BY Zenon, <2>1, <2>5, <3>1 DEF Superseded
    <3>2. CASE s \in applied
      BY Zenon, <1>2, <3>2 DEF Superseded
    <3>3. CASE s \notin applied
      <4>1. s = cur[x] /\ pc[x] = "final"
        BY Zenon, <2>1, <3>3
      <4> QED
        BY Zenon, <2>7, <4>1
    <3> QED
      BY Zenon, <3>2, <3>3
  <2> QED
    BY Zenon, <2>6, <2>8, <2>9
\* A process writes a path: what its run has there, or what its baseline has.
<1>15. ASSUME NEW x \in Proc, WritePath(x) \/ RestoreWrite(x) PROVE Journaled' /\ Targets' /\ Wholes' /\ Superseded'
  <2> DEFINE r == cur[x]
  <2>1. /\ UNCHANGED <<base, used, edits, applied, applyJournal, cur>> /\ pc[x] \in Midway
        /\ \E l \in {"verify", "restore_done", "restore_check"} : Goto(x, l)
    BY Zenon, <1>15 DEF WritePath, RestoreWrite, counts, ghost, Midway, Writing, At
  <2>2. pc'[x] \in Midway /\ pc'[x] # "journal" /\ \A y \in Proc \ {x} : pc'[y] = pc[y]
    BY Zenon, <1>0, <2>1 DEF Types, Goto, Midway, Writing
  <2>3. r \in used /\ r \in Run /\ applyJournal = {r} /\ Target = {r}
    BY Zenon, <1>13, <2>1
  <2>4. Target' = {r}
    <3>1. \A y \in Proc : pc'[y] # "journal"
      BY Zenon, <1>13, <2>1, <2>2 DEF Writing
    <3> QED
      BY Zenon, <2>1, <2>3, <3>1 DEF Target
  <2>5. Journaled'
    <3>1. \A y \in Proc : pc'[y] \in Midway => pc[y] \in Midway
      BY Zenon, <2>1, <2>2
    <3> QED
      BY Zenon, <1>2, <2>1, <3>1 DEF Journaled
  <2>6. PICK p : \A q \in Path : tree'[q] = tree[q] \/ (q = p /\ tree'[q] \in {r, base[r][q]})
    BY Zenon, <1>0, <1>15 DEF TreeTypes, WritePath, RestoreWrite
  <2>8. Own(r) /\ \A s \in Run \ {r} : Whole(base[r], s) /\ Whole(tree, s)
    BY Zenon, <1>2, <2>3 DEF Targets, Wholes
  <2>9. Targets'
    <3>1. Own(r)'
      BY Zenon, <2>1, <2>6, <2>8 DEF Own
    <3>2. \A s \in Run : Whole(base[r], s) => Whole(base[r], s)'
      BY Zenon, <2>1 DEF Whole
    <3> QED
      BY Zenon, <2>1, <2>3, <2>4, <2>8, <3>1, <3>2 DEF Targets
  <2>10. Wholes'
    <3> SUFFICES ASSUME NEW s \in Run \ {r}, NEW u \in Delta[s], NEW q \in Delta[s],
                        tree'[u] = s, tree'[q] = base[s][q]
                 PROVE FALSE
      BY Zenon, <2>1, <2>3 DEF Wholes, Whole
    <3>1. u \in Path /\ q \in Path
      BY Zenon, DeltaPaths
    \* Run s is in the baseline of r, or the tree had part of s before.
    <3>2. base[r][u] = s
      <4>1. CASE tree'[u] = tree[u] /\ tree'[q] = tree[q]
        BY Zenon, <2>8, <4>1 DEF Whole
      <4>2. CASE tree'[u] # tree[u]
        BY Zenon, <2>6, <3>1, <4>2
      <4>3. CASE tree'[u] = tree[u]
        BY Zenon, <2>8, <3>1, <4>3 DEF Own
      <4> QED
        BY Zenon, <4>1, <4>2, <4>3
    <3>3. base[s][q] # r /\ base[s][q] # s
      BY Zenon, <1>0, <2>3, <3>1, <3>2, NoCycle
    <3>4. base[r][q] # base[s][q]
      BY Zenon, <2>8, <3>2 DEF Whole
    <3>5. CASE tree'[q] # tree[q]
      BY Zenon, <2>6, <3>1, <3>3, <3>4, <3>5
    <3>6. CASE tree'[q] = tree[q]
      BY Zenon, <2>8, <3>1, <3>2, <3>3, <3>4, <3>6 DEF Own
    <3> QED
      BY Zenon, <3>5, <3>6
  <2>11. Superseded'
    <3>1. Old' = Old /\ \A C : Down(C)' <=> Down(C)
      BY Zenon, <2>1 DEF Old, Down
    <3> SUFFICES ASSUME NEW s \in applied
                 PROVE \E C \in SUBSET Old :
                         /\ Down(C)
                         /\ \A q \in Delta[s] : base[s][q] \in C /\ tree'[q] \notin C /\ base[r][q] \notin C
      BY Zenon, <2>1, <2>4, <3>1 DEF Superseded
    <3>2. PICK C \in SUBSET Old :
            /\ Down(C)
            /\ \A q \in Delta[s] : base[s][q] \in C /\ tree[q] \notin C /\ base[r][q] \notin C
      BY Zenon, <1>2, <2>3 DEF Superseded
    <3>3. Delta[s] \subseteq Path /\ Delta[s] # {}
      <4>1. s \in Run
        BY Zenon, <1>0 DEF Values, Runs
      <4> QED
        BY Zenon, <4>1, DeltaPaths
    <3>4. r \notin C
      BY Zenon, <2>3, <3>2, <3>3 DEF Down
    <3>5. \A q \in Delta[s] : tree'[q] \notin C
      BY Zenon, <2>6, <3>2, <3>3, <3>4
    <3> QED
      BY Zenon, <3>2, <3>5
  <2> QED
    BY Zenon, <2>5, <2>9, <2>10, <2>11
<1> QED
  BY Zenon, <1>0, <1>7, <1>8, <1>9, <1>10, <1>11, <1>12, <1>14, <1>15, TreeSteps DEF Creates

-----------------------------------------------------------------------------
\* The inductive invariant with the layers on the contents of the tree.
IInvTree == IInv /\ Others /\ Snapshots /\ Values /\ Placed /\ Tracked

\* The layers on the tree hold together with the others in every reachable state.
THEOREM TreeInvariant == Spec => []IInvTree
<1>1. Init => Others /\ Snapshots /\ Values /\ Placed /\ Tracked
  <2> SUFFICES ASSUME Init PROVE Others /\ Snapshots /\ Values /\ Placed /\ Tracked
    OBVIOUS
  <2>1. Others
    <3>1. edits \in 0..MaxEdits /\ faults \in 0..MaxFaults
      BY SMTT(30), ProposalAssumption DEF Init
    <3> QED
      BY Zenon, <3>1 DEF Init, Others
  <2>2. \A p \in Path : tree[p] = 0 /\ \A r \in Run : base[r][p] = 0
    BY Zenon DEF Init
  <2>3. 0 \in Old /\ 0 \notin Run
    BY SMTT(30), ProposalAssumption DEF Init, Old
  <2>4. Values
    BY Zenon, <2>2, <2>3 DEF Init, Values
  <2>5. Target = {}
    BY Zenon DEF Init, Target
  <2>6. Wholes
    BY Zenon, <2>2, <2>3, DeltaPaths DEF Wholes, Whole
  <2>7. Journaled /\ Targets /\ Superseded
    BY Zenon, <2>5 DEF Init, Journaled, Targets, Superseded, Midway, Writing
  <2>8. Snapshots
    BY Zenon DEF Init, Snapshots
  <2>9. Placed
    BY Zenon DEF Init, Placed, Placing
  <2> QED
    BY Zenon, <2>1, <2>4, <2>6, <2>7, <2>8, <2>9 DEF Tracked
<1>2. IInv /\ Others /\ Snapshots /\ Values /\ Placed /\ Tracked /\ [Next]_vars => Others' /\ Snapshots' /\ Values' /\ Placed' /\ Tracked'
  BY Zenon, OthersNext, SnapshotsNext, ValuesNext, PlacedNext, TrackedNext DEF IInv, Writers
<1> QED
  BY <1>1, <1>2, InductiveInvariant, PTL DEF Spec, IInvTree

\* Every variable has its type: the tree and the baselines hold the first content, edits
\* of the user and contents of runs, and the journals, refs and records are those of runs.
THEOREM TypeCorrect == Spec => []TypeOK
<1>1. IInvTree => TypeOK
  <2> SUFFICES ASSUME IInvTree PROVE TypeOK
    OBVIOUS
  <2>1. Types /\ Runs /\ RefIsBacked /\ TreeTypes /\ Others /\ Snapshots /\ Values
    BY Zenon DEF IInvTree, IInv, Leased, Publications, Writers
  <2>2. Old \subseteq Content
    <3>1. edits \in 0..MaxEdits /\ used \subseteq Run
      BY Zenon, <2>1 DEF Others, Runs
    <3>2. 0..edits \subseteq {0} \cup Edited
      BY SMTT(30), <3>1, ProposalAssumption DEF Edited
    <3> QED
      BY Zenon, <3>1, <3>2 DEF Old, Content
  <2>3. tree \in Tree
    BY Zenon, <2>1, <2>2 DEF TreeTypes, Values, Tree
  <2>4. base \in [Run -> Tree]
    <3>1. \A r \in Run : base[r] \in Tree
      BY Zenon, <2>1, <2>2 DEF Snapshots, Values, Tree
    <3> QED
      BY Zenon, <2>1, <3>1 DEF TreeTypes
  <2>5. \A S \in {pubJournal, applyJournal, baseRef, record, ref, applied, used} : S \subseteq Run
    BY Zenon, <2>1 DEF Runs, RefIsBacked, Others, Values
  <2> QED
    BY Zenon, <2>1, <2>3, <2>4, <2>5 DEF TypeOK, Types, Others
<1> QED
  BY <1>1, TreeInvariant, PTL

\* While no operation went past the lease, the tree holds part of a proposal only with
\* the journal of its application on disk, whoever edits, fails or dies in between
\* (apply_from_core, restore_apply_journal).
THEOREM HalfAppliedHasJournalHolds == Spec => []HalfAppliedHasJournal
<1>1. IInvTree => HalfAppliedHasJournal
  BY Zenon DEF IInvTree, Tracked, Wholes, Whole, HalfAppliedHasJournal
<1> QED
  BY <1>1, TreeInvariant, PTL

\* While no operation went past the lease, no later application and no recovery brings
\* back what an applied proposal replaced (remove_apply_journal at the end of
\* apply_from_core).
THEOREM AppliedStaysHolds == Spec => []AppliedStays
<1>1. IInvTree => AppliedStays
  BY Zenon DEF IInvTree, Tracked, Superseded, AppliedStays
<1> QED
  BY <1>1, TreeInvariant, PTL
=============================================================================
