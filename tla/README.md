# greppy: a TLA+ verification project

greppy is a code search and editing tool: it indexes a workspace, answers graph
and text queries, changes files through verified edit commands, and runs agents
and inference daemons around them.  This directory models the parts of it where a
mistake destroys work or stops everybody: how edit commands change files and share
a workspace, how an agent's proposal is published and applied, what is left of both
after a crash, and how all processes of a user share one inference daemon.

Contents: [the system](#1-the-system) | [modules](#2-modules-and-the-code-they-model)
| [properties and runs](#3-properties-and-runs) | [proofs](#4-proofs)
| [findings](#5-where-code-and-comments-disagree) | [limits](#6-what-is-not-covered)
| [further work](#7-further-work) | [how to run](#8-running-the-checks)

## 1. The system

| Part | State | Operations that change it | Interacts with | Status |
|---|---|---|---|---|
| Workspace lock (`edit/src/journal.rs`) | the lock file: pid, token, age | acquire, inspect, quarantine, drop | every multi-file publication | modelled |
| Edit journal (`edit/src/journal.rs`) | journal directory, pre-images, `journal.json`, the files | publish, roll back, mark, clean up, recover | workspace lock, publication | modelled |
| Publication (`edit/src/publish.rs`) | one file | replace, create, delete against an expected hash | journal, commands | modelled inside the other two |
| Edit commands and undo (`cli/src/edit.rs`, `FileLock` of `core/src/cache.rs`) | three kinds of locks, pending records, undo stack, conflict notes | edit, write, patch, rename, undo | journal, publication | modelled |
| Edit plans (`edit/src/plan.rs`, `txn.rs`, `verbs.rs`, `shadow.rs`, `ensure.rs`, `data.rs`) | none that persists | match, splice, verify | commands | not modelled |
| Certificates, handles | none | serialise | commands | not modelled |
| Cache generations, leases, collection (`core/src/cache.rs`) | generation directories, lease files | stage, publish, collect | index, stores | not modelled |
| Inference daemons (`cli/src/inference_daemon.rs`, `embed_daemon.rs`, `summarize_daemon.rs`) | socket file, owner lock, cooldown, request queue, model, status | connect, start, accept, queue, load, infer, evict, leave, watch | commands that embed or summarise | modelled but for durations |
| Index admission and freshness (`cli/src/index_admission.rs`, `indexing.rs`, `freshness/`) | admission locks, fingerprints | admit, index, publish | cache, stores | not modelled |
| Copy-on-write stores (`cli/src/store_cow.rs`, `store/src/base_store.rs`) | base stores, overlays | clone, promote, release | index, cache | not modelled |
| Agent proposals (`agent/src/portable_workspace.rs`, `workspace-core/src/namespace.rs`, `cli/src/agent.rs`) | workspaces, two kinds of journals, refs and records of proposals, the operation lease, the working tree | create, publish, apply, recover, keep, clean up | agent, Git, the user's editor | modelled but for checkpoints and hard links |
| Workspace contents (rest of `workspace-core/`) | chunks, layers, change tracker | write, snapshot, promote | agent | not modelled |
| Agent loop (`agent/src/agent_loop.rs`, `client.rs`, `context.rs`) | transcript, pending tool calls | turn, retry, cancel | daemons, commands | not modelled |
| Agent sessions and control (`cli/src/agent_*.rs`) | session logs | append, import | agent | not modelled |
| Web runtime client (`web-client/`) | one framed conversation | request, answer, time out | agent | not modelled |
| Web runtime (`web-runtime/runtime/`) | operations, workers, retained records | start, cancel, complete, shut down | web client | not modelled |
| Desktop bridge (`desktop/`) | none | forward | agent | not modelled |
| Graph store (`store/`) | SQLite | transactions of the library | index | not modelled |
| Search, parsing, resolution, indexing, discovery | none that persists | compute | store | not modelled: data far beyond enumeration |
| Native inference kernels | none | compute | daemons | not modelled: numerical |
| Filesystem adapters, FFI, grep passthrough | none | forward | workspaces | not modelled: input and output |

What makes the modelled part hard:

* **Locks by path.** The workspace lock is a file; contenders read it, decide
  that its owner is dead, and rename it away *by path*, several steps later.
* **Crashes between any two file system calls**, in publication, in rollback, in
  cleanup and in recovery itself.
* **Writers that take no lock**: editors, build tools, and greppy's own
  single-file verbs with respect to the workspace lock.
* **Check, then act**: a file is compared with its planned hash and replaced in
  two steps; undo compares all files and then writes them one by one.
* **Errors of one step of several**: one rollback of three fails, the completion
  marker cannot be written, a pre-image cannot be read.
* **Failed calls taken for an answer**: a lookup that fails counts as "not there", a
  read that fails as "empty", a `ps` that fails as "dead".
* **A shared history**: parallel edits append to one undo stack that undo
  rewrites and that is cut at a fixed depth.
* **Three stores, one proposal**: a proposal is two Git refs and a database record,
  written one after the other, with a journal whose recovery needs a fourth thing,
  the workspace, that another recovery may already have removed.
* **Processes that come and go**: clients start daemons, daemons leave when they are
  idle or hang, and the next one has to take over the same socket file.

`PROJECT.json` lists these hazards one by one, each at its line, with the
properties that watch it.  Where the code has no defence against a hazard, the hazard
names no property, or its note says which part of it the properties leave out.

## 2. Modules and the code they model

```
WorkspaceLock ---- MCWorkspaceLock        (lock_*.cfg)
      \----------- WorkspaceLockProofs
EditJournal ------ EditJournalAtomic ---- MCEditJournal  (journal_*.cfg)
      |                  |  \--INSTANCE-- AtomicStore
      |                  \--------------- EditJournalProofs
      \-- EditJournalInvariant -----------/
EditCommands ----- MCEditCommands         (commands_*.cfg)
      \----------- EditCommandsInvariant -- EditCommandsProofs -- EditCommandsUndo
Proposals -------- MCProposals            (proposals_*.cfg)
      \----------- ProposalsProofs
InferenceDaemon -- MCInferenceDaemon      (daemon.cfg)
      \----------- InferenceDaemonProofs
```

The modules are layered the way the code is.  `WorkspaceLock` shows what the lock
gives; `EditJournal` assumes one lock holder at a time (one program counter); the
journal is shown to implement `AtomicStore`; `EditCommands` uses that promise for
`rename`, whose publication through the journal is one step there.

### WorkspaceLock

One process is one `Proc`; the variable `lock` is the file at the lock path, with
the token of its creator and how much of its payload is written.

| Action | Code |
|---|---|
| `Acquire`, `CreateNew`, `GiveUp` | the loop of `WorkspaceLock::acquire` with `create_new` |
| `WritePid`, `WriteToken`, `SyncAll` | the payload writes; they go to the open file, so they are lost when the path names another one |
| `AcquireIoError` | any error of these calls: returned, the file stays |
| `ReadPayload`, `InspectLock`, `ProbeError` | `inspect_lock`: read, then ask the process table, or the age of the file; a payload that cannot be read is an empty one, and a `ps` that fails is a dead owner (a `ps` that cannot be started is a live one) |
| `Quarantine` | the rename of the orphan and the removal under its private name |
| `DropRead`, `DropRemove`, `DropError` | `Drop`: compare the token, then remove by path; when either call fails the file stays |
| `Die`, `GrowOld` | a process ends; ten minutes pass |

Abstractions: pids are not reused; a file grows old (`LOCK_STALE_AFTER_SECS`) only
when its creator is no longer at work on it, that is, a running process writes its
pid within ten minutes.  `stolen` is a history variable: the acquisitions whose
file was removed while they relied on it.  `failed` has the files that a failed call
left at the path, and `blind` the contenders that judged an owner by a call that failed.

### EditJournal, EditJournalAtomic, AtomicStore

`live` is the content of every file, `dir`, `blobs` and `jrn` are the journal
directory, its pre-image files and `journal.json`; `step`, `idx`, `entries`,
`published`, `incomplete` and `scan` are the local state of the lock holder.

| Action | Code |
|---|---|
| `BeginTransaction`, `CheckInput` | the call with a planned transaction; all inputs are compared first |
| `CreateJournalDir`, `WritePreImage` | `create_dir_all`; each file is read *again* and saved |
| `WriteUncommitted`, `WriteCommitted` | `write_journal` before and after the commit flag |
| `PublishCheck`, `PublishRename` | `publish_atomic`: comparison, then rename |
| `StartRollback`, `RollbackOpen`, `RollbackWrite`, `AfterRollback` | the rollback loop; `fs::write` truncates first |
| `MarkCompleted`, `RemoveItem`, `RemoveDir` | the completion marker, `remove_dir_all` entry by entry |
| `BeginRecover`, `InspectJournal`, `OverlookJournal`, `ScanLive`, `RestoreEntry`, `RestoreWrite` | `recover_with_report`; a failed lookup of `journal.json` counts as an absent one, and the journal directory is removed |
| `IoError`, `Crash`, `ForeignWrite` | a call fails, the holder dies, somebody else writes |

A hash is an injective wrapper of a content.  A pre-image that is being saved, and
a file that is being restored, may be torn by a failure.  The history variable
`voided` collects the events for which the protocol promises nothing: a
transaction over a journal that is still needed (`overlapped`), a foreign write to
a file whose images are already taken (`contested`), a failure in the middle of a
truncating restore (`torn`), a finished transaction that recovery cannot read
(`misread`), a journal that recovery does not find although it is there (`overlooked`).
The events themselves stay in the model; only the promises end.  One goes on: after a
torn file the journal is still kept.

`AtomicStore` has two variables: the hashes an observer sees, and the pending
transaction.  A transaction is published as a whole or dropped as a whole.
`EditJournalAtomic` maps the journal to it: from the commit record on, a file of
the transaction shows its old hash until the transaction is decided.

### EditCommands

Several processes run commands over the same files.  `barrier` is the
"transaction" lock (shared or exclusive), `owner` the lock of each file,
`stackLock` the lock of the undo stack; `pending`, `evidence` and `stack` are
`pending-<id>.json`, `rollback-conflict-<id>.json` and `stack.json`.

| Action | Code |
|---|---|
| `StartEdit`, `StartWide`, `AcquireBarrier`, `AcquireFile`, `Deadline` | `acquire_edit_command_locks`, `FileLock`; the 120 second deadline |
| `Plan` | the files are read under the locks; a command that is refused ends |
| `Open` | `edit_journal_open` |
| `Publish`, `Swap`, `Fill`, `FailPublish` | `edit_publish`, `run_trained_write`, `publish_patch_transition` |
| `Back`, `BackSwap`, `Abandon` | the rollback of a patch, last file first, and its note on conflicts |
| `PublishAll`, `PublishPart` | `run_trained_rename` through the journal: all files, or some of them when the process dies or the rollback fails in between |
| `Close`, `StackLock`, `ReadStack`, `WriteStack`, `Forget` | `edit_journal_close` |
| `Select`, `Guard`, `Restore`, `Rewrite`, `Save`, `Saved` | `run_edit_undo`, `edit_journal_restore` |
| `IoError`, `Crash`, `ForeignWrite` | failing calls, below; deaths; other programs |

The failing calls are those whose failure leaves files, records or locks in another
state than success or an early return does: the pending record, publication, creation,
rollback and its note, the reading back of the after-image, the lookup, the reading and
the writing of the undo stack, and in undo the restoring, the removal of a created file
and the saving of the stack.  `rename` reads its files once for the undo record and
keeps nothing of one it cannot read (`Planned`, lapse `unread`); undo later takes such a
file for a created one, deletes it and reports success.  A failed read in `write` makes
the creation of the file fail and its record go, which leaves what a refusal at `Plan`
leaves.  A rename that is cut off leaves its old bytes in the edit journal; recovery
from there belongs to `EditJournal` and is not an action here.

`replace-span`, `replace` on a symbol and `delete` take the barrier exclusively and
change one file; they behave like a patch of one file.  Dry runs, syntax checks and
permissions change nothing that a property speaks of and are left out.  The history
variable `lapses` names events after which some promise ends, and each property
lists the lapses it excludes.

### Proposals

Several greppy processes work on one repository; a run of the agent has one
workspace and at most one proposal, so that workspaces, journals, refs and records
are sets of runs.  `pc` says what a process does next, `lease` who holds the
operation lease of the repository, `tree` what the working tree holds.

| Action | Code |
|---|---|
| `OpenCore` | `WorkspaceCore::open` and, for the process that finds the core closed, `recover`: abandoned workspaces that were not kept are deleted |
| `ListPublications`, `ReadPublication`, `LeasePublication`, `RecoverPublication`, `DeleteRef`, `DeleteBaseRef`, `RemoveRecord`, `DeleteJournal` | `recover_proposal_publish_journals`: a complete publication loses its journal, another one is taken back |
| `ListApplications`, `ReadApplication`, `LeaseApplication` | `recover_apply_journals`; the journal is read before the lease is taken |
| `Restore`, `RestoreCheck`, `RestoreWrite`, `RestoreDone` | `restore_apply_journal`, in recovery and after a failed application: every path is as before or as after, or nothing is touched |
| `CreateWorkspace`, `Cleanup` | `AgentWorkspace::create` with `reap_expired_agent_workspaces`; `cleanup` and `keep` |
| `PublishLease`, `PublishJournal`, `PublishStep`, `PublishDone`, `PublishFails` | `publish_proposal_transaction`: base ref, record, public ref, with an error before or after each took effect |
| `TakeLease`, `Begin`, `ApplyJournal`, `Preflight`, `CheckPath`, `WritePath`, `VerifyPath`, `FinalCheck`, `ApplyFails` | `apply_proposal`, `apply_from_core`; a run that applies its own proposal (`apply_to`) takes no lease |
| `Die`, `UserEdit` | a process ends and the kernel drops its locks; the user writes a path |

A path holds what it had in the commit (0), the k-th edit of the user, or what a run
wrote.  The baseline is captured in one step; the first pass of
`restore_apply_journal` over the paths is part of `Restore`, because an edit between
the two has the effect of an edit before.  `Deleted` are the paths a run deletes.  The
final check (`Matches`) is `git diff-files` against the final index, which does not look
at a path that the index does not have: a deleted path that the user created again is not
seen by it.  The removal of a journal is two calls, unlink and the synchronisation of the
directory, so that it can fail with the journal gone (`PublishFails`, `ApplyFails`).
Files outside the paths of a proposal are never written by it.  Replacing a file is the
rename of Unix; the Windows build removes the old file first, and is not modelled.
Validation of names, hashes and hard links,
and errors that come from a foreign change of refs or journals (`Tampered`), are left
out; `keep` does not fail.  The history variable `lapses` records operations that went
past the lease: two writers at once, a rollback of a journal that was gone by then, an
application that began while a journal was pending.

### InferenceDaemon

A daemon process has an accepting thread, reading threads, a watchdog and the worker;
a request moves through `backlog`, `taken`, `accepted`, `queued`, `working`, `over`.

| Action | Code |
|---|---|
| `Connect`, `Refused`, `SpawnOnce`, `Receive` | `request_via_daemon`, `request`, `spawn_once`, `record_spawn_failure` |
| `TakeOwnerLock`, `Bind`, `Prewarm` | the start of `run_server`, `TransportListener::bind` |
| `Accept`, `Count` | `spawn_accept_loop`: the connection is taken first and counted after |
| `AnswerAtOnce`, `Push` | `read_and_queue`, `FairRequestQueue::push` |
| `Pop`, `Load`, `Handle`, `IdleCheck` | the loop of `run_server`, `pop_timeout`, eviction, the idle check |
| `DropModel`, `DropEndpointGuard`, `DropOwnerLock`, `Exit` | the end of `run_server`, drop by drop |
| `Hang`, `Watchdog`, `Kill`, `CooldownEnds` | an inference that never returns, `spawn_hung_worker_watchdog`, other deaths, the passing of time |

Time to live, deadlines, budgets and cooldown are timers that may expire whenever they
run.  The summariser's client differs from the embedder's only in its requests.
`AnswerAtOnce` stands for all early returns of `read_and_queue` (a frame that does not
arrive, a malformed one, another protocol version, ping, status): each writes at most an
answer and calls `finish_request` once.  A push to a poisoned queue is not one of them:
no code that holds the mutex of the queue can panic.  `SpawnOnce` is also the step of
`prewarm_from_env`, which does not wait for the daemon, and starts one as well when its
ping to a running one failed.

## 3. Properties and runs

| Run | Instance | Shows |
|---|---|---|
| `lock_safety` | 3 processes, one acquisition each, 1 failing call, 2 loop iterations | `MutexUnlessStolen`, `TheftNeedsAbandonment`, `OrphanIsReplaced` |
| `lock_takeover` | 3 processes, no failing call | violation of `NewLockNeverDeleted` |
| `journal_safety` | 2 files, transactions of 1 or 2, one foreign writer, failures anywhere | `Recoverable`, `CleanRecoveryNeverRefused`, `JournalOutlivesHalfApplied`, `ReportIsTrue`, `AllOrNothing` |
| `journal_liveness` | the same without the foreign writer | `CallsReturn`, `RecoveryConverges` |
| `journal_overlap` | calls go on after an event | violation of `CrashedTransactionStaysRecoverable` |
| `commands_safety` | 2 processes, 2 files, edits, patches and undos, 2 transactions, depth 1, one fault | `HistoryKept`, `ChangesHavePreImages`, `HalfStackUnseen`, `UndoAccepted`, `UndoOverwritesOnlyItsEdit`, `NoLostUpdate`, `UndoRestores` |
| `commands_faults` | 1 process, patches, renames and undos, 3 faults, one file written from outside | `ChangesHavePreImages` |
| `commands_liveness` | 2 processes, 1 file, depth 2, one fault | `UndoOverwritesOnlyItsEdit`, `LockedCommandReturns` |
| `commands_unseen` | 2 processes, one foreign write | violation of `UndoSparesUnseenBytes` |
| `proposals_safety` | 2 processes, 2 runs, 2 paths, one of them deleted, one death, failed call or edit of the user | `PublicationWhole`, `RefIsBacked`, `LeaseExcludesWriters`, `HalfAppliedHasJournal`, `AppliedStays`, `UserEditKept` |
| `proposals_orphan` | 1 process, 1 run, one death | violation of `PublicationRecovered` |
| `daemon` | 2 daemon processes, 3 requests of 2 clients, any number of deaths | `OneModel`, `EndpointKept`, `PendingCounts`, `IdleExitAbandonsNone`, `RotationExact`, `NoClientTwice`, `WatchdogSeesWork`, `CallReturns` |

Each module has one type invariant, checked by `lock_safety`, `journal_safety`,
`commands_faults`, `proposals_safety` and `daemon`.

What the conditional properties leave out is in their statements:

* `TheftNeedsAbandonment` lists what comes before a theft: a death, a file left behind by
  a failed call, a verdict over a failed call.  It does not say that thefts do not happen.
* `JournalOutlivesHalfApplied` holds through crashes, failed calls, rollbacks, recoveries
  and torn files.  The journal is lost to a transaction that overlaps it and to a failed
  lookup of `journal.json`, and may be after another program wrote the files or a read in
  recovery failed.  The other properties of the journal, and the refinement, end with the
  first event in `voided`.
* `HistoryKept` ends when a lookup of `stack.json` fails: `edit_journal_close` then
  takes the stack for empty, writes the new record over all others and reports success.
* `ChangesHavePreImages` exempts a creation that was cut off or that undo could not remove,
  and a rename that was interrupted before its record or could not read a file.  It says
  nothing once another program wrote a file, the note on a failed rollback could not be
  kept, or the undo stack was torn or not found.
* `UndoRestores` leaves out the undo of a creation whose file could not be removed, which
  the code reports as done.
* `HalfStackUnseen` says that the undo stack, which undo writes in place, is never met half
  written, unless an undo was cut off.
* `HalfAppliedHasJournal` and `AppliedStays` end when an operation went past the lease,
  `UserEditKept` when two processes write at once.
* `IdleExitAbandonsNone` is about requests that were counted.  One that is accepted and not
  counted yet can be abandoned; `CallReturns` says that its client still comes to an end.

**Bounds.**

* `WorkspaceLock`: three processes are an abandoned owner and two contenders, which
  every theft needs.  `MaxAttempts` is 4 in the code; 2 in `lock_safety` makes the
  exhaustion of the loop reachable, and the theorems hold for every value.  One failing
  call is enough for each cause of a theft alone.
* `EditJournal`: with two files there is a first, a last, a published and an
  unpublished one; both contents may be old or new.  Calls are not counted: any
  number of transactions, crashes and recoveries follow each other.  `MaxEvents = 0`
  stops *new calls* after an event that ends the promises, never the steps of a call;
  a torn file is not counted, and recoveries go on after it.
* `EditCommands`: `MaxIds` bounds the transactions opened, `MaxFaults` the failed
  calls, expired deadlines, deaths and foreign writes, `MaxFiles` the files of a
  command.  Two transactions against `Depth = 1` make the stack overflow; `Depth = 2`
  in `commands_liveness` makes undo by id skip one.
* `Proposals`: two processes are enough for every pair of operations that meet, and
  the two runs, of two paths and of one of them, make a first, a last and a shared
  path.  `MaxFaults` bounds deaths, failed calls and edits together; the processes
  themselves start again without bound.  With `MaxFaults = 2`, where a death is followed
  by an edit or by another death, TLC finds no error either (6.1 million states, five
  minutes); `proposals_safety` has 1 to stay short.
* `InferenceDaemon`: an identity is used again after a process ended, so that two
  identities are any number of daemons of which two overlap.  Two requests of one
  client and one of another are the least for which turns matter.  `Retries` is 7 in
  the code; 2 has a last attempt and one that is not the last.

**Symmetry** permutes processes, files or contents; it is not used where a
liveness property is checked.

**Deadlock** is checked except for the lock (every process may have used its
acquisitions up, or be dead), `journal_liveness` (after an event no call starts) and
`daemon` (all calls have returned and no daemon is left).

**Fairness.**  A process that runs is scheduled: weak fairness of `Progress(p)`, of the
lock holder's steps, and of the passing of time.  Starting a call, failing and dying are
never forced.  `RecoveryConverges` therefore assumes in its own statement that recovery
is called again and again and fails only finitely often. `LockedCommandReturns` starts
once a command has its locks, because `FileLock` polls and promises no order among those
who wait.  It shows that no two commands wait for each other.  That others do not
overtake one for ever is due to `MaxIds` in the model, and to the deadline of 120
seconds, here a fault, in the code.  `CallReturns` assumes that somebody goes on while
anybody can, and that the watchdog, which both daemons configure, ends a worker that
hangs; this is weaker than fairness to every thread. `PublicationRecovered` assumes in
its statement that commands keep being started, and weak fairness of a process that
runs.

**Why the conditional properties are not empty.**  The events named in `stolen`,
`voided` and `lapses` are actions of the models, and each property has a mutant, a
changed definition with a plausible bug, for which TLC finds it violated without
any of the events it excludes.

## 4. Proofs

The theorems hold for every set of processes, files and contents and for every
value of the bounds.  They assume what the `ASSUME`s of `WorkspaceLock`,
`EditJournal`, `EditCommands`, `Proposals` and `InferenceDaemon` say: the special values
are different from the ordinary ones, the bounds are natural numbers, and the constant
functions have their types.

| Theorem | Module | Statement |
|---|---|---|
| `LockTypeCorrect` | `WorkspaceLockProofs` | types |
| `LockMutualExclusion` | `WorkspaceLockProofs` | two holders need a stolen file |
| `LockTheftNeedsAbandonment` | `WorkspaceLockProofs` | a theft needs a death, a file left by a failed call, or a verdict over a failed call |
| `JournalTypeCorrect` | `EditJournalProofs` | types |
| `JournalRecoverable` | `EditJournalProofs` | the write-ahead rule, until an event |
| `JournalKept` | `EditJournalProofs` | the journal of a half-applied transaction stays, also after torn files |
| `JournalReportsTruly` | `EditJournalProofs` | what calls report is so, until an event |
| `JournalRecoveryNotRefused` | `EditJournalProofs` | recovery is not refused over a content, until an event |
| `JournalImplementsStore` | `EditJournalProofs` | the journal implements `AtomicStore`, until an event |
| `CommandsInvariant` | `EditCommandsProofs` | the inductive invariant of the commands |
| `TypeCorrect` | `EditCommandsProofs` | types, and which verb is at which step |
| `HistoryKeptHolds` | `EditCommandsProofs` | a reported transaction stays in the undo stack, unless the stack was torn or not found |
| `HalfStackUnseenHolds` | `EditCommandsProofs` | nobody reads the stack while it is rewritten |
| `NoLostUpdateHolds` | `EditCommandsProofs` | a command replaces what it read |
| `UndoOverwritesOnlyItsEditHolds` | `EditCommandsProofs` | undo replaces what its transaction left |
| `UndoRestoresHolds` | `EditCommandsProofs` | a reported undo has put every file back |
| `ChangesHavePreImagesHolds` | `EditCommandsProofs` | what a change replaced is on disk, with the exceptions of section 3 |
| `UndoInvariant` | `EditCommandsUndo` | the inductive invariant with the chain of images in the stack |
| `UndoAcceptedHolds` | `EditCommandsUndo` | in the ordinary course undo is not refused |
| `PublicationWholeHolds` | `ProposalsProofs` | a proposal without journal is whole or absent |
| `RefIsBackedHolds` | `ProposalsProofs` | a public ref has its record and its baseline ref |
| `LeaseExcludesWritersHolds` | `ProposalsProofs` | two writers of the tree need a run that applies |
| `UserEditKeptHolds` | `ProposalsProofs` | the user's edits are not overwritten |
| `TypeCorrect` | `ProposalsProofs` | types |
| `HalfAppliedHasJournalHolds` | `ProposalsProofs` | part of a proposal in the tree has its journal |
| `AppliedStaysHolds` | `ProposalsProofs` | what was applied is not taken back |
| `OneModelHolds` | `InferenceDaemonProofs` | one model in memory |
| `EndpointKeptHolds` | `InferenceDaemonProofs` | a serving daemon keeps its socket file |
| `WatchdogSeesWorkHolds` | `InferenceDaemonProofs` | the status shows work only while there is work |
| `RotationExactHolds` | `InferenceDaemonProofs` | the rotation is exact |
| `NoClientTwiceHolds` | `InferenceDaemonProofs` | turns are taken |
| `TypeCorrect` | `InferenceDaemonProofs` | types |
| `PendingCountsHolds` | `InferenceDaemonProofs` | the counter counts the requests that are not answered |
| `IdleExitAbandonsNoneHolds` | `InferenceDaemonProofs` | an idle daemon leaves no counted request behind |

**The lock.**  Mutual exclusion is not inductive.  `OwnerInv` adds that, until a theft,
every process between creation and removal finds its own file at the path; two holders
then would have the same token.  `CleanInv` adds that, while nobody died, no failed call
left a file and nobody judged blindly, the file at the path has a live owner and is
young, so that no inspection ends in a rename.  `AttemptInv` and `DeadInv` are needed
for the types.

**The journal.**  `IInv` has four parts, preserved one after the other:

1. `TypeOK` (`EditJournalInvariant`, with the facts about hashes, transactions and
   entries that everything else cites);
2. `ControlInv` (`EditJournalInvariant`): at each step the holder's memory has the
   right length, index and files, and names every file once;
3. `LinkInv` (`EditJournalInvariant`): from the commit record on, `journal.json` is
   the memory of the holder, and every pre-image saved has the recorded hash;
4. `ImageInv` (`EditJournalProofs`), as long as `voided` is
   empty: which of its two images every file carries, before publication, in it, in
   rollback, after it, in recovery and in cleanup; and `Recoverable`.

`Recoverable` alone does not survive a rename, since it does not say which images the
files had before it; the parts of `ImageInv` say that.  `JournalKept` goes on after torn
files, where `ImageInv` says nothing, and rests on `JournalInv`, which adds two cases to
`IInv`.  `WholeInv`, while there was no event: outside a truncating write no file is
torn.  `TornInv`, after a torn file: some file of the committed transaction is torn and
stands in the way of the call at work (`Blocks`).  A rollback has it behind and is
incomplete; a recovery has it ahead, has read neither image there, and is refused when
it comes to it.  So none reaches a step that removes the journal. Before the first event
`journal.json` is written and removed only where `ImageInv` excludes a half-applied
transaction.  `JournalReportsTruly` follows because a call that reports returns from its
cleanup, and `JournalRecoveryNotRefused` because in recovery what was read is one of the
two images.  The refinement maps the initial states, and each step to a step of the
store or to no change, from `IInv`.

**The commands.**  `CommandsInv` has eight layers, each proved from the ones before it, the
first four in `EditCommandsInvariant`:

1. `Typed`: the types, the steps each verb can be at, and the form of the plan, the
   index and the remembered stack there.  `Changes`, `JobsNext` and `JobSteps` say once
   which step of which process changes what; the other layers cite them in place of the
   thirty actions.
2. `Locked`: the barrier is held as verb and step say, exclusively by one process with
   no company, and the lock of the stack by whoever reads, writes or trims it.
3. `Identified`: the ids of commands, records and stack entries are below `next`, and no
   two commands have the same one.  An undo takes its id from the stack, and is alone.
4. `Records`: from `edit_journal_open` to close or abandon the record with the
   pre-images is there, and a symbol edit owns the lock of the file it changes.
5. `Fresh`: what a command has still to write is what it read.  Two edits share the
   barrier, so that this needs the file locks of `Records`; all else needs `Locked`.
6. `Restoring`: the files ahead of an undo are as the transaction left them, those
   behind as they were before it, and the one at hand may be truncated.
7. `Stacks`: the stack on disk, and every copy that a command will write back, has the
   reported transactions that are neither undone nor trimmed.
8. `Preimages`: every change is covered by a pending record, the note on a failed
   rollback, or a record in the stack (also in the copy that an undo is about to save),
   was trimmed, or is one of the exceptions.  `ChangesHavePreImages` alone is not
   inductive: a command that drops its pending record has to know that nothing of its
   transaction is left uncovered.  `Traces` says this: at each step, which files of its
   plan the changes under its id can concern.  A publication has changed only files
   before its index, a rollback that met no conflict only those it has not passed, an
   edit about to forget its record has one in the stack, and an undo leaves behind only
   created files that it could not remove.

`HistoryKept` and `HalfStackUnseen` follow from `Stacks` and `Locked`, `NoLostUpdate`
from `Fresh`, `UndoOverwritesOnlyItsEdit` and `UndoRestores` from `Restoring`.  The proof
corrected the last one, which has to look at `lapses` after the step: when a first undo
could not save the stack, its transaction is undone again, and another program may write
a file just before that second undo reports.

`UndoAccepted` is about an undo that starts long after the transaction it takes back,
and needs two layers more, `UndoInv` of `EditCommandsUndo`, both for states in which
`lapses` is empty.  `Pictures`: which of its two images each file of a plan carries
while the command publishes, rolls back, abandons or records.  `Linked`: the stack is a
chain (`Chain`), every entry of every transaction begins where the newest older
transaction that names the file ended (`EndsAt`); the plans of the commands at work
continue that chain; and a file that no command is changing contains what the newest
transaction that names it left.  The chain below the top is needed because an undo
removes the top: what its files then contain is what the transaction below left, for the
next undo.  Two edits of different files may be recorded in another order than they were
published in; they keep the chain because the file locks make their plans disjoint.

**Proposals.**  The layers of `IInv` are proved one after the other.  `Leased`: which
command a process executes at each place, and that it holds the lease where it
publishes, takes a publication back, or writes the tree for anything but its own run.
`Runs`: the run it works on exists.  `Publications`: how many of the three parts of a
proposal a publication has written, or its rollback removed, at each place; without it
`PublicationWhole` does not survive the removal of the journal.  `Writers`: while writers
do not overlap there is one, and the path it is about to write is as it was checked
unless the user wrote it since.  `LeaseExcludesWriters` follows from `Leased`, and
`UserEditKept` step by step from `Writers`.

The other two invariants are about contents, and `IInvTree` adds five layers for them.
`Others` and `Snapshots` are types.  `Values` orders contents and runs: what a baseline
holds existed when it was captured, so that each run has a set of contents, closed under
the baselines of its runs, that has its baseline and not the run itself; two runs are
never in each other's baseline.  `Tracked` holds while no operation went past the lease:
one journal is on disk, every path is as before or as after its run or has a new edit of
the user, neither the tree nor the baseline of that run has part of another proposal, and
for each applied run some such closed set has what it replaced and nothing that the tree,
or a rollback that may come, has on its paths.  The last part is what `AppliedStays` needs:
the run that writes next is not in that set, or its baseline would be.  `Placed` says the
same of an application at work, for the paths it has put in place: the final check does
not see a deleted path that the user created again, so that what it finds does not show
that the old contents are gone, and the application has to know it.  `TreeSteps` sorts
the actions into nine outcomes that matter to tree, baselines and journals, and the rest.

**The daemon.**  `Ownership` says at which places a worker holds the owner lock, listens,
owns the socket file, and has a model, loads one or serves a request; one model and the
kept endpoint follow because the owner lock has one holder.  The queue needs `Order`: a
client that was overtaken still waits and stands before the one that overtook it.
`NoClientTwice` is the case of the first in the rotation.  `RInv`, in the same module, adds
where each request is: on a connection, with a reader, in the queue of its client or with
the worker, and in one of them only.  With it every step takes at most one request into
or out of the set that `PendingCounts` counts, whose cardinality changes by one as the
counter does; a daemon that decides to leave has read zero there, so that
`IdleExitAbandonsNone` follows.

**Only model-checked**: the liveness properties (`OrphanIsReplaced`, `CallsReturn`,
`RecoveryConverges`, `LockedCommandReturns`, `CallReturns`), which rest on fairness and are
beyond the prover.  Every safety property of the passing runs has its theorem.

## 5. Where code and comments disagree

* `lock_takeover`: the comment on `acquire` says that contenders "cannot delete a
  newly-created lock".  Two contenders inspect the same orphan; the first replaces
  it by its own lock; the second then renames that one away.
* `journal_overlap`: the header of `journal.rs` says that recovery restores every
  pre-image after a crash.  `publish_journal_locked` does not look for a journal
  that is already there: a transaction published before the recovery writes over it.
* `commands_unseen`: `edit_journal_restore` says that undo refuses rather than
  "overwrite bytes the caller has never seen".  The after-image it compares with is
  read back from the file after publication, so that a foreign write in between
  becomes part of the edit.
* `proposals_orphan`: the changelog says that publication journals "recover an
  interruption between baseline ref, pinned proposal metadata, and the public proposal
  ref".  A run that dies in between leaves a workspace in state `ready`.  The next
  process opens the core, whose own recovery deletes that workspace; the recovery of the
  journal then needs it (`open_workspace` in `validate_proposal_publish_journal`) and
  fails, now and at every later start.  The test of this crash creates its workspace
  without a pair, and the core's recovery deletes pairs only.

Behaviour that no comment contradicts and that the models keep: `rename` writes its undo
record after its files; a creation that is cut off leaves a partial file and no record;
undo ignores a created file that it cannot remove, and errors while it writes the stack;
a restore cut off after truncation makes recovery refuse; a file recovery cannot read
makes a finished transaction look unfinished; failed lookups of `journal.json` and
`stack.json` count as absence; `rename` records a file that it cannot read as absent; a
`ps` that fails counts as a dead owner, while the comment beside it, "liveness probe
unavailable: fail closed", is about a `ps` that does not start; a run applies its own
proposal without the lease; an apply journal left by a conflict makes later starts fail
until the user restores the path. `recover_with_report` is called by the tests of the
crate only: the command line names no verb for it, so that in `EditJournal` somebody
calls it, and when is left open.

## 6. What is not covered

* Whether the planned content is the right one: parsing, matching and splicing.
* Durability below the file system calls: `fsync` is taken to do what it says, and
  a completed rename to survive a crash.
* Reuse of process ids, and clocks that jump.
* Path checks (symbolic links, escapes from the workspace), permissions, messages.
* The composition of the lock with the journal in one state space: `EditJournal`
  assumes that holders exclude each other, which `WorkspaceLock` shows unless a lock
  is stolen.
* Checkpoints of a served agent: their refs carry a turn number, which the validation
  of the publication journal refuses; the cleanup journal of ordinary workspaces; hard
  links, modes and times of applied paths.
* The Windows build, where it differs: replacement by removal and rename, and pipes.
* Failed calls that are not named in section 2.
* The capture of a baseline file by file.  A capture torn by a concurrent application
  has a hash that no later tree has, so that its proposal is refused.
* Durations of the daemons, the deadline of a client, the way a client waits for a
  model that loads, Windows pipes.
* The parts marked not modelled in section 1.  Search, parsing, inference kernels and
  the vendored browser, most of the lines of the repository, compute over data that no
  model checker enumerates; desktop bridge, adapters and passthrough have no state.

## 7. Further work

Parts with state of their own that this project does not reach, each worth a module:

* staging leases and the collector of cache generations (`core/src/cache.rs`);
* admission of one indexer at a time and fingerprints (`cli/src/index_admission.rs`,
  `freshness/`), and copy-on-write stores above them;
* the pairing of tool calls with results through cancellation and retries
  (`agent/src/agent_loop.rs`), and durable session logs;
* completion against cancellation of operations in the web runtime
  (`web-runtime/runtime/src/operation_control.rs`, `shutdown_outcome.rs`);
* the splicing of byte ranges (`edit/src/txn.rs`) against a reference definition;
* the composition of lock and journal in one state space.

## 8. Running the checks

```
tlc -config journal_safety.cfg MCEditJournal     # and so for each run of PROJECT.json
tlapm EditJournalProofs.tla                      # and so for each module with theorems
```

The longest runs are `journal_safety` (540 thousand states), `commands_safety` (1.6
million), `proposals_safety` (1.4 million) and `daemon` (346 thousand, with a liveness
property), up to four minutes each on two cores.  The proofs take up
to ten minutes a module; those of the commands are split in three because tlapm slows down
with the number of obligations and of definitions in sight.
