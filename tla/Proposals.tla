------------------------------ MODULE Proposals ------------------------------
(***************************************************************************)
(* Agent proposals, from crates/agent/src/portable_workspace.rs and        *)
(* crates/workspace-core/src/namespace.rs.  Several greppy processes work  *)
(* on one repository:                                                      *)
(*                                                                         *)
(*   run    greppy -p: recovers, captures the working tree as the baseline *)
(*          of a workspace, publishes what the agent changed as a proposal *)
(*          (a baseline ref, a record in the workspace core, a public ref) *)
(*          and, with --apply, writes it into the working tree             *)
(*   apply  greppy agent apply REF: recovers and applies a proposal        *)
(*                                                                         *)
(* A publication and an application each have a journal on disk, and the   *)
(* repository has one operation lease, an operating system lock that a     *)
(* process loses when it dies.  The user edits files at any time and takes *)
(* no lease.                                                               *)
(***************************************************************************)
EXTENDS Naturals, FiniteSets

CONSTANTS
  Proc,       \* greppy processes
  NoProc,     \* nobody
  Run,        \* run ids; a run has one workspace and at most one proposal
  NoRun,      \* no run
  Path,       \* the paths of the working tree, numbered in sorted order
  Delta,      \* the paths the agent of a run changes
  Deleted,    \* those of them that it deletes
  Flags,      \* bound: the flags a run may have, --apply and --keep-worktree
  MaxEdits,   \* bound: edits by the user
  MaxFaults   \* bound: failed calls, deaths and edits by the user

ASSUME ProposalAssumption ==
  /\ NoProc \notin Proc /\ NoRun \notin Run
  /\ Path \subseteq Nat /\ \A r \in Run : r \notin Nat
  /\ Delta \in [Run -> (SUBSET Path) \ {{}}]
  /\ Deleted \in [Run -> SUBSET Path] /\ \A r \in Run : Deleted[r] \subseteq Delta[r]
  /\ Flags \in [Run -> SUBSET SUBSET {"apply", "keep"}]
  /\ MaxEdits \in Nat /\ MaxFaults \in Nat

\* What a path holds: 0 at first, k after the k-th edit of the user, r after the
\* agent of run r changed or deleted it.  An edit may delete the path.
Edited == 1..MaxEdits
Content == {0} \cup Edited \cup Run
Tree == [Path -> Content]

VARIABLES
  tree,      \* the working tree
  base,      \* the baseline snapshot of each run
  ws,        \* cow_workspace_pairs: the state of each run's workspace
  pubJournal, applyJournal,   \* the journals on disk, by run
  baseRef, record, ref,       \* the three parts of each proposal
  lease,     \* who holds the operation lease of the repository
  pc, cmd,   \* what each process does next, and for which command
  recovering,  \* the processes that have not finished recovery
  todo, cur, \* the journals a process listed, and the run it works on
  left,      \* the paths it has still to write
  used,      \* the run ids that were given out
  edits, faults,
  late,      \* the processes whose path the user edited since they checked it
  applied,   \* the runs whose application returned Ok
  lapses     \* what went past the lease: a process wrote the tree while another did,
             \* rolled back a journal that was gone, or applied with a journal pending

published == <<pubJournal, baseRef, record, ref>>
local == <<pc, cmd, recovering, todo, cur, left, late>>
counts == <<used, edits, faults>>
ghost == <<applied, lapses>>
vars == <<tree, base, ws, published, applyJournal, lease, local, counts, ghost>>

Final(r) == [p \in Path |-> IF p \in Delta[r] THEN r ELSE base[r][p]]

\* git diff-files finds the tree as the final index has it: it does not look at a path
\* that the final tree does not have.
Matches(r) == \A p \in Path \ Deleted[r] : tree[p] = Final(r)[p]

First(S) == CHOOSE p \in S : \A q \in S : p <= q

\* Recovery writes the paths that were clean in the baseline before the others.
NextRestored(b, S) ==
  LET clean == {p \in S : b[p] = 0} IN First(IF clean = {} THEN S ELSE clean)

Label == {"idle", "pub_list", "pub_read", "pub_lease", "pub_recover", "del_ref",
  "del_base", "del_record", "del_journal", "apply_list", "apply_read", "apply_lease", "restore",
  "restore_check", "restore_write", "restore_done", "ready", "publish_lease",
  "publish_journal", "publish_base", "publish_record", "publish_ref", "publish_done",
  "begin", "journal", "preflight", "check", "write", "verify", "final", "cleanup"}

\* Where a process writes the working tree or rolls it back.
Writing == {"begin", "journal", "preflight", "check", "write", "verify", "final", "restore",
  "restore_check", "restore_write", "restore_done"}

\* The process has the workspace core open, or holds the lease of run r's workspace.
CoreOpen(y) == pc[y] # "idle"
Owns(y, r) == cmd[y].op = "run" /\ cmd[y].run = r

Command == [op : {"none", "run", "apply"}, run : Run \cup {NoRun}, flags : SUBSET {"apply", "keep"}]
NoCommand == [op |-> "none", run |-> NoRun, flags |-> {}]

TypeOK ==
  /\ tree \in Tree /\ base \in [Run -> Tree]
  /\ ws \in [Run -> {"none", "ready", "kept"}]
  /\ \A S \in {pubJournal, applyJournal, baseRef, record, ref, applied, used} : S \subseteq Run
  /\ lease \in Proc \cup {NoProc}
  /\ pc \in [Proc -> Label] /\ cmd \in [Proc -> Command] /\ recovering \subseteq Proc
  /\ todo \in [Proc -> SUBSET Run] /\ cur \in [Proc -> Run \cup {NoRun}]
  /\ left \in [Proc -> SUBSET Path]
  /\ edits \in 0..MaxEdits /\ faults \in 0..MaxFaults
  /\ late \subseteq Proc /\ lapses \subseteq {"overlap", "stale", "behind"}

Init ==
  /\ tree = [p \in Path |-> 0] /\ base = [r \in Run |-> [p \in Path |-> 0]]
  /\ ws = [r \in Run |-> "none"]
  /\ pubJournal = {} /\ applyJournal = {} /\ baseRef = {} /\ record = {} /\ ref = {}
  /\ lease = NoProc
  /\ pc = [x \in Proc |-> "idle"] /\ cmd = [x \in Proc |-> NoCommand] /\ recovering = {}
  /\ todo = [x \in Proc |-> {}] /\ cur = [x \in Proc |-> NoRun] /\ left = [x \in Proc |-> {}]
  /\ used = {} /\ edits = 0 /\ faults = 0 /\ late = {} /\ applied = {} /\ lapses = {}

-----------------------------------------------------------------------------
(* Steps shared by the commands.                                           *)

At(x, l) == pc[x] = l
Goto(x, l) == pc' = [pc EXCEPT ![x] = l]
Keep == UNCHANGED <<cmd, recovering, todo, cur, left, late>>
Release(x) == lease' = IF lease = x THEN NoProc ELSE lease

\* The process ends: the kernel drops what it holds.
End(x) ==
  /\ Release(x) /\ Goto(x, "idle")
  /\ cmd' = [cmd EXCEPT ![x] = NoCommand] /\ recovering' = recovering \ {x}
  /\ todo' = [todo EXCEPT ![x] = {}] /\ cur' = [cur EXCEPT ![x] = NoRun]
  /\ left' = [left EXCEPT ![x] = {}] /\ late' = late \ {x}

\* A publication ends with an error: the run keeps its workspace for inspection.
PublishError(x) ==
  /\ ws' = [ws EXCEPT ![cur[x]] = IF @ = "ready" THEN "kept" ELSE @]
  /\ End(x)

\* An application returned: a run goes on to its cleanup.
ApplyReturns(x) ==
  IF cmd[x].op = "run"
    THEN /\ Goto(x, "cleanup") /\ Release(x)
         /\ left' = [left EXCEPT ![x] = {}] /\ late' = late \ {x}
         /\ UNCHANGED <<cmd, recovering, todo, cur>>
    ELSE End(x)

\* Another process is writing the working tree when x begins to.
Meets(x) ==
  lapses' = IF \E y \in Proc \ {x} : pc[y] \in Writing THEN lapses \cup {"overlap"} ELSE lapses

-----------------------------------------------------------------------------
(* A process starts, opens the workspace core and recovers.  Which command *)
(* it executes shows when recovery is over.                                *)

\* WorkspaceCore::open: the process that finds the core closed removes every
\* workspace pair that nobody holds and that was not kept.
OpenCore(x) ==
  /\ At(x, "idle") /\ Goto(x, "pub_list") /\ recovering' = recovering \cup {x}
  /\ ws' = IF \E y \in Proc : CoreOpen(y) THEN ws
           ELSE [r \in Run |-> IF ws[r] = "ready" /\ ~\E y \in Proc : Owns(y, r) THEN "none"
                               ELSE ws[r]]
  /\ UNCHANGED <<tree, base, published, applyJournal, lease, cmd, todo, cur, left, late, counts, ghost>>

ListPublications(x) ==
  /\ At(x, "pub_list") /\ todo' = [todo EXCEPT ![x] = pubJournal]
  /\ Goto(x, IF pubJournal = {} THEN "apply_list" ELSE "pub_read")
  /\ UNCHANGED <<tree, base, ws, published, applyJournal, lease, cmd, recovering, cur, left, late,
                 counts, ghost>>

ReadPublication(x) ==
  /\ At(x, "pub_read")
  /\ \/ \E r \in todo[x] \cap pubJournal :
          /\ cur' = [cur EXCEPT ![x] = r] /\ Goto(x, "pub_lease")
          /\ UNCHANGED <<lease, cmd, recovering, todo, left, late>>
     \/ \E r \in todo[x] \ pubJournal : End(x)
  /\ UNCHANGED <<tree, base, ws, published, applyJournal, counts, ghost>>

LeasePublication(x) ==
  /\ At(x, "pub_lease")
  /\ IF lease = NoProc THEN lease' = x /\ Goto(x, "pub_recover") /\ Keep ELSE End(x)
  /\ UNCHANGED <<tree, base, ws, published, applyJournal, counts, ghost>>

\* One publication journal is done: the next, or the applications.
NextPublication(x) ==
  /\ lease' = NoProc /\ Goto(x, IF todo[x] = {cur[x]} THEN "apply_list" ELSE "pub_read")
  /\ todo' = [todo EXCEPT ![x] = @ \ {cur[x]}] /\ cur' = [cur EXCEPT ![x] = NoRun]
  /\ UNCHANGED <<cmd, recovering, left, late>>

\* recover_proposal_publish_journal_locked fails: in recovery, or in the run that
\* publishes.
PublicationError(x) ==
  IF x \in recovering THEN End(x) /\ UNCHANGED ws ELSE PublishError(x)

\* The publication is complete: the run applies it, without the lease, or ends.
Published(x) ==
  /\ lease' = NoProc /\ Keep
  /\ IF "apply" \in cmd[x].flags THEN Goto(x, "begin") /\ Meets(x)
       ELSE Goto(x, "cleanup") /\ UNCHANGED lapses

Complete(r) == r \in record \cap ref \cap baseRef

\* The journal is validated against the workspace of its run.
RecoverPublication(x) ==
  LET r == cur[x] IN
  /\ At(x, "pub_recover")
  /\ \/ /\ ws[r] = "none" \/ (Complete(r) /\ r \notin pubJournal)
        /\ PublicationError(x) /\ UNCHANGED <<pubJournal, lapses>>
     \/ /\ ws[r] # "none" /\ Complete(r) /\ r \in pubJournal
        /\ pubJournal' = pubJournal \ {r}
        /\ IF x \in recovering THEN NextPublication(x) /\ UNCHANGED lapses
             ELSE Published(x)
        /\ UNCHANGED ws
     \/ /\ ws[r] # "none" /\ ~Complete(r)
        /\ Goto(x, "del_ref") /\ Keep /\ UNCHANGED <<ws, pubJournal, lease, lapses>>
  /\ UNCHANGED <<tree, base, baseRef, record, ref, applyJournal, counts, applied>>

DeleteRef(x) ==
  /\ At(x, "del_ref") /\ Goto(x, "del_base") /\ ref' = ref \ {cur[x]}
  /\ Keep /\ UNCHANGED <<tree, base, ws, pubJournal, baseRef, record, applyJournal, lease, counts, ghost>>

DeleteBaseRef(x) ==
  /\ At(x, "del_base") /\ Goto(x, "del_record") /\ baseRef' = baseRef \ {cur[x]}
  /\ Keep /\ UNCHANGED <<tree, base, ws, pubJournal, record, ref, applyJournal, lease, counts, ghost>>

RemoveRecord_kept(x) ==   \* mutant: the rollback leaves the pinned record
  /\ At(x, "del_record") /\ Goto(x, "del_journal")
  /\ Keep /\ UNCHANGED <<tree, base, ws, published, applyJournal, lease, counts, ghost>>

RemoveRecord(x) ==
  /\ At(x, "del_record") /\ Goto(x, "del_journal") /\ record' = record \ {cur[x]}
  /\ Keep /\ UNCHANGED <<tree, base, ws, pubJournal, baseRef, ref, applyJournal, lease, counts, ghost>>

DeleteJournal(x) ==
  /\ At(x, "del_journal")
  /\ IF x \in recovering /\ cur[x] \in pubJournal
       THEN NextPublication(x) /\ UNCHANGED ws
       ELSE PublicationError(x)
  /\ pubJournal' = pubJournal \ {cur[x]}
  /\ UNCHANGED <<tree, base, baseRef, record, ref, applyJournal, counts, ghost>>

Recovered(x) ==
  /\ recovering' = recovering \ {x} /\ Goto(x, "ready")
  /\ todo' = [todo EXCEPT ![x] = {}] /\ cur' = [cur EXCEPT ![x] = NoRun]

ListApplications(x) ==
  /\ At(x, "apply_list")
  /\ IF applyJournal = {} THEN Recovered(x)
       ELSE /\ Goto(x, "apply_read") /\ todo' = [todo EXCEPT ![x] = applyJournal]
            /\ UNCHANGED <<recovering, cur>>
  /\ UNCHANGED <<tree, base, ws, published, applyJournal, lease, cmd, left, late, counts, ghost>>

\* The journal is read before the lease is taken.
ReadApplication(x) ==
  /\ At(x, "apply_read")
  /\ \/ \E r \in todo[x] \cap applyJournal :
          /\ cur' = [cur EXCEPT ![x] = r] /\ Goto(x, "apply_lease")
          /\ UNCHANGED <<lease, cmd, recovering, todo, left, late>>
     \/ \E r \in todo[x] \ applyJournal : End(x)
  /\ UNCHANGED <<tree, base, ws, published, applyJournal, counts, ghost>>

LeaseApplication(x) ==
  /\ At(x, "apply_lease")
  /\ IF lease = NoProc
       THEN /\ lease' = x /\ Goto(x, "restore") /\ Keep
            /\ lapses' = lapses
                 \cup (IF \E y \in Proc \ {x} : pc[y] \in Writing THEN {"overlap"} ELSE {})
                 \cup (IF cur[x] \notin applyJournal THEN {"stale"} ELSE {})
       ELSE End(x) /\ UNCHANGED lapses
  /\ UNCHANGED <<tree, base, ws, published, applyJournal, counts, applied>>

-----------------------------------------------------------------------------
(* restore_apply_journal: in recovery, or in the application that failed.  *)

NextApplication(x) ==
  /\ lease' = NoProc
  /\ IF todo[x] = {cur[x]} THEN Recovered(x)
       ELSE /\ Goto(x, "apply_read") /\ todo' = [todo EXCEPT ![x] = @ \ {cur[x]}]
            /\ cur' = [cur EXCEPT ![x] = NoRun] /\ UNCHANGED recovering
  /\ UNCHANGED <<cmd, left, late>>

RestoreError(x) == IF x \in recovering THEN End(x) ELSE ApplyReturns(x)

Known(r, p) == tree[p] \in {base[r][p], Final(r)[p]}

\* classify_recovery_paths: every affected path is as before or as after.
Restore(x) ==
  LET r == cur[x] IN
  /\ At(x, "restore")
  /\ IF r \in record /\ \A p \in Delta[r] : Known(r, p)
       THEN /\ left' = [left EXCEPT ![x] = {p \in Delta[r] : tree[p] = r}]
            /\ Goto(x, IF left'[x] = {} THEN "restore_done" ELSE "restore_check")
            /\ UNCHANGED <<lease, cmd, recovering, todo, cur, late>>
       ELSE RestoreError(x)
  /\ UNCHANGED <<tree, base, ws, published, applyJournal, counts, ghost>>

RestoreCheck_blind(x) ==   \* mutant: the path is not looked at again before it is written
  /\ At(x, "restore_check") /\ Goto(x, "restore_write")
  /\ Keep /\ UNCHANGED <<tree, base, ws, published, applyJournal, lease, counts, ghost>>

RestoreCheck(x) ==
  /\ At(x, "restore_check")
  /\ IF Known(cur[x], NextRestored(base[cur[x]], left[x]))
       THEN Goto(x, "restore_write") /\ Keep /\ UNCHANGED lease
       ELSE RestoreError(x)
  /\ UNCHANGED <<tree, base, ws, published, applyJournal, counts, ghost>>

RestoreWrite_path(x) ==   \* mutant: writes the path where its content belongs
  LET p == NextRestored(base[cur[x]], left[x]) IN
  /\ At(x, "restore_write") /\ Goto(x, IF left[x] = {p} THEN "restore_done" ELSE "restore_check")
  /\ tree' = [tree EXCEPT ![p] = p]
  /\ left' = [left EXCEPT ![x] = @ \ {p}] /\ late' = late \ {x}
  /\ UNCHANGED <<base, ws, published, applyJournal, lease, cmd, recovering, todo, cur, counts, ghost>>

RestoreWrite(x) ==
  LET p == NextRestored(base[cur[x]], left[x]) IN
  /\ At(x, "restore_write") /\ Goto(x, IF left[x] = {p} THEN "restore_done" ELSE "restore_check")
  /\ tree' = [tree EXCEPT ![p] = base[cur[x]][p]]
  /\ left' = [left EXCEPT ![x] = @ \ {p}] /\ late' = late \ {x}
  /\ UNCHANGED <<base, ws, published, applyJournal, lease, cmd, recovering, todo, cur, counts, ghost>>

\* The whole working tree must be the baseline again; then the journal goes.
RestoreDone(x) ==
  LET r == cur[x] IN
  /\ At(x, "restore_done")
  /\ IF tree = base[r] /\ r \in applyJournal
       THEN /\ applyJournal' = applyJournal \ {r}
            /\ IF x \in recovering THEN NextApplication(x) ELSE ApplyReturns(x)
       ELSE RestoreError(x) /\ UNCHANGED applyJournal
  /\ UNCHANGED <<tree, base, ws, published, counts, ghost>>

-----------------------------------------------------------------------------
(* greppy -p: a workspace, then the publication.                           *)

\* Kept workspaces that expired are removed; the baseline is captured.  The run ends
\* when its agent changed nothing.
CreateWorkspace(x, r, f) ==
  /\ At(x, "ready") /\ r \notin used /\ used' = used \cup {r}
  /\ cmd' = [cmd EXCEPT ![x] = [op |-> "run", run |-> r, flags |-> f]]
  /\ cur' = [cur EXCEPT ![x] = r]
  /\ \E expired \in SUBSET {q \in Run : ws[q] = "kept" /\ ~\E y \in Proc : Owns(y, q)} :
       ws' = [q \in Run |-> IF q = r THEN "ready" ELSE IF q \in expired THEN "none" ELSE ws[q]]
  /\ base' = [base EXCEPT ![r] = tree]
  /\ \E l \in {"publish_lease", "cleanup"} : Goto(x, l)
  /\ UNCHANGED <<tree, published, applyJournal, lease, recovering, todo, left, late, edits, faults,
                 ghost>>

PublishLease(x) ==
  /\ At(x, "publish_lease")
  /\ IF lease = NoProc
       THEN lease' = x /\ Goto(x, "publish_journal") /\ Keep /\ UNCHANGED ws
       ELSE PublishError(x)
  /\ UNCHANGED <<tree, base, published, applyJournal, counts, ghost>>

PublishJournal(x) ==
  /\ At(x, "publish_journal") /\ Goto(x, "publish_base")
  /\ pubJournal' = pubJournal \cup {cur[x]}
  /\ Keep /\ UNCHANGED <<tree, base, ws, baseRef, record, ref, applyJournal, lease, counts, ghost>>

PublishBase(x) ==
  /\ At(x, "publish_base") /\ baseRef' = baseRef \cup {cur[x]}
  /\ UNCHANGED <<record, ref>>

PublishRecord(x) ==
  /\ At(x, "publish_record") /\ record' = record \cup {cur[x]}
  /\ UNCHANGED <<baseRef, ref>>

PublishRef(x) ==
  /\ At(x, "publish_ref") /\ ref' = ref \cup {cur[x]}
  /\ UNCHANGED <<baseRef, record>>

AfterPublish_refEarly ==   \* mutant: the public ref before the record
  [publish_base |-> "publish_ref", publish_ref |-> "publish_record",
   publish_record |-> "publish_done"]

AfterPublish == [publish_base |-> "publish_record", publish_record |-> "publish_ref",
                 publish_ref |-> "publish_done"]

PublishStep(x) ==
  /\ PublishBase(x) \/ PublishRecord(x) \/ PublishRef(x)
  /\ Goto(x, AfterPublish[pc[x]])
  /\ Keep /\ UNCHANGED <<tree, base, ws, pubJournal, applyJournal, lease, counts, ghost>>

\* Where a publication removes its journal: the file may be gone when the call fails.
Unlinks(x) ==
  \/ pc[x] \in {"del_journal", "publish_done"}
  \/ At(x, "pub_recover") /\ ws[cur[x]] # "none" /\ Complete(cur[x])

\* A call of the publication reports an error, before or after it took effect: the
\* publication is recovered under the lease it holds.  An error of the recovery, or of
\* the writing or removal of the journal, is final.
PublishFails(x) ==
  /\ faults < MaxFaults /\ faults' = faults + 1
  /\ \/ /\ \/ PublishBase(x) \/ PublishRecord(x) \/ PublishRef(x)
           \/ pc[x] \in DOMAIN AfterPublish /\ UNCHANGED <<baseRef, record, ref>>
        /\ Goto(x, "pub_recover") /\ Keep /\ UNCHANGED <<ws, lease, pubJournal>>
     \/ /\ pc[x] \in {"pub_recover", "del_ref", "del_base", "del_record", "del_journal", "publish_done"}
        /\ UNCHANGED pubJournal \/ (Unlinks(x) /\ pubJournal' = pubJournal \ {cur[x]})
        /\ PublicationError(x) /\ UNCHANGED <<baseRef, record, ref>>
     \/ /\ At(x, "publish_journal") /\ pubJournal' \in {pubJournal, pubJournal \cup {cur[x]}}
        /\ PublishError(x) /\ UNCHANGED <<baseRef, record, ref>>
  /\ UNCHANGED <<tree, base, applyJournal, used, edits, ghost>>

PublishDone(x) ==
  /\ At(x, "publish_done") /\ pubJournal' = pubJournal \ {cur[x]}
  /\ Published(x)
  /\ UNCHANGED <<tree, base, ws, baseRef, record, ref, applyJournal, counts, applied>>

Cleanup(x) ==
  /\ At(x, "cleanup") /\ End(x)
  /\ ws' = [ws EXCEPT ![cur[x]] = IF "keep" \in cmd[x].flags THEN "kept" ELSE "none"]
  /\ UNCHANGED <<tree, base, published, applyJournal, counts, ghost>>

-----------------------------------------------------------------------------
(* apply_from_core.                                                        *)

TakeLease_ignored(x, r) ==   \* mutant: a lease held by another is taken for none
  /\ At(x, "ready")
  /\ lease' = (IF lease = NoProc THEN x ELSE lease) /\ Goto(x, "begin") /\ Meets(x)
  /\ cmd' = [cmd EXCEPT ![x] = [op |-> "apply", run |-> r, flags |-> {}]]
  /\ cur' = [cur EXCEPT ![x] = r] /\ UNCHANGED <<recovering, todo, left, late>>
  /\ UNCHANGED <<tree, base, ws, published, applyJournal, counts, applied>>

\* apply_proposal, after recovery.
TakeLease(x, r) ==
  /\ At(x, "ready")
  /\ IF lease = NoProc
       THEN /\ lease' = x /\ Goto(x, "begin") /\ Meets(x)
            /\ cmd' = [cmd EXCEPT ![x] = [op |-> "apply", run |-> r, flags |-> {}]]
            /\ cur' = [cur EXCEPT ![x] = r] /\ UNCHANGED <<recovering, todo, left, late>>
       ELSE End(x) /\ UNCHANGED lapses
  /\ UNCHANGED <<tree, base, ws, published, applyJournal, counts, applied>>

\* The proposal is known and its ref resolves, and the tree is its baseline.
Begin(x) ==
  /\ At(x, "begin")
  /\ IF cur[x] \in record \cap ref /\ tree = base[cur[x]]
       THEN Goto(x, "journal") /\ Keep /\ UNCHANGED lease
       ELSE ApplyReturns(x)
  /\ UNCHANGED <<tree, base, ws, published, applyJournal, counts, ghost>>

ApplyJournal_missing(x) ==   \* mutant: the journal does not reach the disk
  /\ At(x, "journal") /\ Goto(x, "preflight")
  /\ Keep /\ UNCHANGED <<tree, base, ws, published, applyJournal, lease, counts, ghost>>

ApplyJournal(x) ==
  /\ At(x, "journal") /\ Goto(x, "preflight") /\ applyJournal' = applyJournal \cup {cur[x]}
  /\ lapses' = IF applyJournal = {} THEN lapses ELSE lapses \cup {"behind"}
  /\ Keep /\ UNCHANGED <<tree, base, ws, published, lease, counts, applied>>

\* ensure_paths_match_baseline; an error leaves the journal.
Preflight(x) ==
  LET r == cur[x] IN
  /\ At(x, "preflight")
  /\ IF \A p \in Delta[r] : tree[p] = base[r][p]
       THEN /\ Goto(x, "check") /\ left' = [left EXCEPT ![x] = Delta[r]]
            /\ UNCHANGED <<lease, cmd, recovering, todo, cur, late>>
       ELSE ApplyReturns(x)
  /\ UNCHANGED <<tree, base, ws, published, applyJournal, counts, ghost>>

CheckPath(x) ==
  /\ At(x, "check")
  /\ IF tree[First(left[x])] = base[cur[x]][First(left[x])]
       THEN Goto(x, "write") /\ Keep /\ UNCHANGED lease
       ELSE ApplyReturns(x)
  /\ UNCHANGED <<tree, base, ws, published, applyJournal, counts, ghost>>

\* materialize_git_tree_entry.
WritePath(x) ==
  /\ At(x, "write") /\ Goto(x, "verify")
  /\ tree' = [tree EXCEPT ![First(left[x])] = cur[x]] /\ late' = late \ {x}
  /\ UNCHANGED <<base, ws, published, applyJournal, lease, cmd, recovering, todo, cur, left, counts,
                 ghost>>

VerifyPath(x) ==
  LET p == First(left[x]) IN
  /\ At(x, "verify")
  /\ IF tree[p] = cur[x]
       THEN /\ Goto(x, IF left[x] = {p} THEN "final" ELSE "check")
            /\ left' = [left EXCEPT ![x] = @ \ {p}]
       ELSE Goto(x, "restore") /\ UNCHANGED left
  /\ UNCHANGED <<tree, base, ws, published, applyJournal, lease, cmd, recovering, todo, cur, late,
                 counts, ghost>>

FinalCheck_keepsJournal(x) ==   \* mutant: a complete application keeps its journal
  LET r == cur[x] IN
  /\ At(x, "final")
  /\ IF Matches(r) THEN ApplyReturns(x) /\ applied' = applied \cup {r}
       ELSE Goto(x, "restore") /\ Keep /\ UNCHANGED <<applied, lease>>
  /\ UNCHANGED <<tree, base, ws, published, applyJournal, counts, lapses>>

\* The tree must match the final tree; then the journal goes.
FinalCheck(x) ==
  LET r == cur[x] IN
  /\ At(x, "final")
  /\ \/ /\ Matches(r) /\ r \in applyJournal /\ ApplyReturns(x)
        /\ applyJournal' = applyJournal \ {r} /\ applied' = applied \cup {r}
     \/ /\ Matches(r) /\ r \notin applyJournal /\ ApplyReturns(x)
        /\ UNCHANGED <<applyJournal, applied>>
     \/ /\ ~Matches(r) /\ Goto(x, "restore") /\ Keep
        /\ UNCHANGED <<applyJournal, applied, lease>>
  /\ UNCHANGED <<tree, base, ws, published, counts, lapses>>

\* A path cannot be written, the hard links or the Git index are not as expected, or
\* Git fails: the application is rolled back.  A path that cannot be read, a command that
\* cannot be started, or an error of the rollback, leaves the journal as it is.  The
\* removal of the journal fails before or after the file is gone.
ApplyFails(x) ==
  /\ faults < MaxFaults /\ faults' = faults + 1
  /\ \/ /\ pc[x] \in {"write", "verify", "final"} /\ Goto(x, "restore") /\ late' = late \ {x}
        /\ UNCHANGED <<lease, cmd, recovering, todo, cur, left, applyJournal>>
     \/ /\ pc[x] \in Writing \ {"write"}
        /\ RestoreError(x) /\ UNCHANGED applyJournal
     \/ /\ \/ At(x, "final") /\ Matches(cur[x])
           \/ At(x, "restore_done") /\ tree = base[cur[x]]
        /\ RestoreError(x) /\ applyJournal' = applyJournal \ {cur[x]}
  /\ UNCHANGED <<tree, base, ws, published, used, edits, ghost>>

-----------------------------------------------------------------------------
(* The environment.                                                        *)

Die(x) ==
  /\ pc[x] # "idle" /\ faults < MaxFaults /\ faults' = faults + 1
  /\ End(x)
  /\ UNCHANGED <<tree, base, ws, published, applyJournal, used, edits, ghost>>

UserEdit(p) ==
  /\ edits < MaxEdits /\ edits' = edits + 1
  /\ faults < MaxFaults /\ faults' = faults + 1
  /\ tree' = [tree EXCEPT ![p] = edits + 1]
  /\ late' = late \cup {x \in Proc :
                 \/ pc[x] = "write" /\ p = First(left[x])
                 \/ pc[x] = "restore_write" /\ p = NextRestored(base[cur[x]], left[x])}
  /\ UNCHANGED <<base, ws, published, applyJournal, lease, pc, cmd, recovering, todo, cur, left,
                 used, ghost>>

Recover(x) ==
  \/ ListPublications(x) \/ ReadPublication(x) \/ LeasePublication(x) \/ RecoverPublication(x)
  \/ DeleteRef(x) \/ DeleteBaseRef(x) \/ RemoveRecord(x) \/ DeleteJournal(x)
  \/ ListApplications(x) \/ ReadApplication(x) \/ LeaseApplication(x)
  \/ Restore(x) \/ RestoreCheck(x) \/ RestoreWrite(x) \/ RestoreDone(x)

Publish(x) ==
  \/ \E r \in Run : \E f \in Flags[r] : CreateWorkspace(x, r, f)
  \/ PublishLease(x) \/ PublishJournal(x) \/ PublishStep(x)
  \/ PublishDone(x) \/ Cleanup(x)

Apply(x) ==
  \/ \E r \in Run : TakeLease(x, r)
  \/ Begin(x) \/ ApplyJournal(x) \/ Preflight(x) \/ CheckPath(x)
  \/ WritePath(x) \/ VerifyPath(x) \/ FinalCheck(x)

Step(x) == Recover(x) \/ Publish(x) \/ Apply(x)

Next ==
  \/ \E x \in Proc : OpenCore(x) \/ Step(x) \/ PublishFails(x) \/ ApplyFails(x) \/ Die(x)
  \/ \E p \in Path : UserEdit(p)

Spec == Init /\ [][Next]_vars

\* A started process goes on.
FairSpec == Spec /\ \A x \in Proc : WF_vars(Step(x))

-----------------------------------------------------------------------------
(* Properties.                                                             *)

\* A proposal without a publication journal is whole or absent: its baseline ref, its
\* record and its public ref exist together (publish_proposal_transaction and its
\* recovery, whichever process ends which of the two).
PublicationWhole ==
  \A r \in Run \ pubJournal : (r \in baseRef <=> r \in record) /\ (r \in record <=> r \in ref)

\* A public ref names a proposal that can be applied: its record and its baseline ref
\* are there, during every publication and every rollback of one.
RefIsBacked == ref \subseteq record \cap baseRef

\* Two processes write the working tree at once only when one of them is a run that
\* applies its own proposal (apply_to takes no lease; every other writer holds it).
LeaseExcludesWriters ==
  \A x, y \in Proc :
    x # y /\ pc[x] \in Writing /\ pc[y] \in Writing => "run" \in {cmd[x].op, cmd[y].op}

\* The working tree holds part of a proposal only while the journal that can take it
\* back is on disk, unless an operation went past the lease (apply_from_core,
\* restore_apply_journal).
HalfAppliedHasJournal ==
  lapses = {} =>
    \A r \in Run \ applyJournal : \A p, q \in Delta[r] : ~(tree[p] = r /\ tree[q] = base[r][q])

\* What was applied is not taken back by a recovery, unless an operation went past the
\* lease (remove_apply_journal at the end of apply_from_core).
AppliedStays ==
  lapses = {} => \A r \in applied : \A p \in Delta[r] : tree[p] # base[r][p]

\* A process overwrites an edit of the user only when the edit is part of the baseline
\* of the proposal it applies or rolls back, or was made after the process checked the
\* path (the comment in apply_from_core admits that race), unless two processes write
\* at once.
UserEditKept ==
  [][\A p \in Path :
       tree[p] \in Edited /\ tree'[p] # tree[p] /\ "overlap" \notin lapses =>
         \/ edits' # edits
         \/ \E x \in Proc : pc'[x] # pc[x] /\ (x \in late \/ base[cur[x]][p] = tree[p])]_vars

CommandsStart == []<><<\E x \in Proc : OpenCore(x)>>_vars

\* CHANGELOG.md: "publication journals recover an interruption between baseline ref,
\* pinned proposal metadata, and the public proposal ref".  While commands keep being
\* started, every publication journal is eventually dealt with.
PublicationRecovered == CommandsStart => \A r \in Run : r \in pubJournal ~> r \notin pubJournal
=============================================================================
