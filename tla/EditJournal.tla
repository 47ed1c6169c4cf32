---------------------------- MODULE EditJournal ----------------------------
(***************************************************************************)
(* Multi-file publication with a pre-image journal, and its recovery, from *)
(* crates/edit/src/journal.rs.                                             *)
(*                                                                         *)
(* Every step below is taken by the process that holds the workspace lock, *)
(* so one program counter is enough: step = "idle" when the lock is free.  *)
(* The lock itself is the subject of module WorkspaceLock.  A crash frees  *)
(* it, since the next contender takes a dead owner's lock over.            *)
(* Editors outside greppy, and greppy's single-file verbs, do not take the *)
(* lock and may write a file between any two steps (ForeignWrite).         *)
(***************************************************************************)
EXTENDS Naturals, Sequences, FiniteSets

CONSTANTS
  File,        \* the files of the workspace
  Shared,      \* bound: the files that somebody else writes meanwhile
  Content,     \* what a file may contain
  Torn,        \* a file opened for writing and not yet written
  NoBlob,      \* no such pre-image file
  NoJournal,   \* no journal.json
  MaxFiles,    \* bound: files in one transaction
  MaxEvents    \* bound: calls start while at most this many events happened, a
               \* torn file aside

ASSUME JournalAssumption ==
  /\ Torn \notin Content
  /\ NoBlob \notin Content \cup {Torn}
  /\ Shared \subseteq File
  /\ MaxFiles \in Nat \ {0}
  /\ MaxEvents \in Nat

Bytes == Content \cup {Torn}

\* sha256_hex, taken to be injective; a hash is never itself file content.
Sha(c) == [sha256 |-> c]
Hash == [sha256 : Bytes]

\* What recovery notes for a file it cannot read: a hash that no file has.
Unread == Sha(NoBlob)

\* FilePublication: the target, the hash it was planned against, the new bytes.
FilePublication == [file : File, expected : Hash, content : Content]

\* A transaction names each of its files once.
Transactions ==
  {t \in UNION {[1..n -> FilePublication] : n \in 1..MaxFiles} :
     \A i, j \in DOMAIN t : t[i].file = t[j].file => i = j}

\* JournalEntry; pre_image_file is the position of the entry.
JournalEntry == [file : File, pre : Hash, post : Hash]

\* The two flags of Journal as the three phases they encode.
Phase == {"uncommitted", "committed", "completed"}

Journal == [phase : Phase, entries : Seq(JournalEntry)]

ASSUME NoJournalAssumption == NoJournal \notin Journal

VARIABLES
  live,       \* what each file contains on disk
  dir,        \* whether the journal directory exists: "absent" or "present"
  blobs,      \* the pre-image files of the journal directory
  jrn,        \* journal.json
  step,       \* next step of the lock holder, "idle" when the lock is free
  txn,        \* the transaction being published
  idx,        \* loop index of the current loop
  entries,    \* journal entries in the memory of the lock holder
  published,  \* files published when publication failed
  incomplete, \* "yes" once a file could not be rolled back
  scan,       \* live hashes read by recovery
  result,     \* what the last call returned
  voided      \* history: events outside the protocol's assumptions

vars == <<live, dir, blobs, jrn, step, txn, idx, entries, published,
          incomplete, scan, result, voided>>

disk == <<live, dir, blobs, jrn>>
local == <<txn, idx, entries, published, incomplete, scan>>

Steps == {"idle", "cas", "mkdir", "preimage", "uncommitted", "committed",
          "publish", "rename", "rollback", "rollbackWrite", "complete",
          "cleanup", "recover", "scan", "restore", "restoreWrite"}

Results == {"none", "ok", "stale", "failed", "kept", "error",
            "nothing", "discarded", "rolledBack", "refused"}

\* overlapped: a transaction wrote over a journal still needed for recovery;
\* contested: somebody else wrote a file after its pre-image was taken;
\* torn: a restore was cut off between truncating a file and writing it;
\* misread: recovery could not read a file of a transaction that was finished;
\* overlooked: recovery could not see the journal of a half-applied transaction
\* and removes its directory as an orphan.
Events == {"overlapped", "contested", "torn", "misread", "overlooked"}

TypeOK ==
  /\ live \in [File -> Bytes]
  /\ dir \in {"absent", "present"}
  /\ blobs \in [1..MaxFiles -> Bytes \cup {NoBlob}]
  /\ jrn \in Journal \cup {NoJournal}
  /\ step \in Steps
  /\ txn \in Transactions \cup {<<>>}
  /\ idx \in 1..MaxFiles
  /\ entries \in Seq(JournalEntry) /\ Len(entries) <= MaxFiles
  /\ published \in 0..MaxFiles
  /\ incomplete \in {"no", "yes"}
  /\ scan \in Seq(Hash \cup {Unread})
  /\ result \in Results
  /\ voided \subseteq Events

NoBlobs == [i \in 1..MaxFiles |-> NoBlob]

Init ==
  /\ live \in [File -> Content]
  /\ dir = "absent" /\ blobs = NoBlobs /\ jrn = NoJournal
  /\ step = "idle" /\ txn = <<>> /\ idx = 1 /\ entries = <<>>
  /\ published = 0 /\ incomplete = "no" /\ scan = <<>>
  /\ result = "none" /\ voided = {}

\* The files a journal on disk would restore.
Files(es) == {es[i].file : i \in DOMAIN es}

AllPost(es) == \A i \in DOMAIN es : Sha(live[es[i].file]) = es[i].post
AllPre(es) == \A i \in DOMAIN es : Sha(live[es[i].file]) = es[i].pre

\* A committed journal whose transaction is neither done nor undone on disk:
\* the one case in which recovery has something to restore.
HalfApplied ==
  /\ jrn # NoJournal
  /\ jrn.phase = "committed"
  /\ ~AllPost(jrn.entries)
  /\ ~AllPre(jrn.entries)

\* Memory of a lock holder that has not read or planned anything.
NoLocals ==
  /\ txn' = <<>> /\ idx' = 1 /\ entries' = <<>>
  /\ published' = 0 /\ incomplete' = "no" /\ scan' = <<>>

\* The call returns: the lock guard is dropped.
Return(r) == step' = "idle" /\ result' = r /\ NoLocals

\* Mutant: the index is not reset for the next loop.
LoopWithoutReset(n, again, after) ==
  IF idx < n THEN step' = again /\ idx' = idx + 1
             ELSE step' = after /\ idx' = idx + 1

\* Next iteration of a loop over n items, or the step after the loop.
Loop(n, again, after) ==
  IF idx < n THEN step' = again /\ idx' = idx + 1
             ELSE step' = after /\ idx' = 1

-----------------------------------------------------------------------------
(* publish_journal and publish_journal_locked                              *)

\* The lock is acquired for a transaction planned earlier.
BeginTransaction(t) ==
  /\ step = "idle" /\ Cardinality(voided \ {"torn"}) <= MaxEvents
  /\ step' = "cas" /\ result' = "none" /\ txn' = t
  /\ UNCHANGED <<disk, idx, entries, published, incomplete, scan, voided>>

\* Every input is compared with its planned hash before anything is written.
CheckInput ==
  /\ step = "cas"
  /\ IF Sha(live[txn[idx].file]) = txn[idx].expected
     THEN /\ Loop(Len(txn), "cas", "mkdir")
          /\ UNCHANGED <<txn, entries, published, incomplete, scan, result>>
     ELSE Return("stale")
  /\ UNCHANGED <<disk, voided>>

\* create_dir_all: what an earlier journal left in the directory stays there.
CreateJournalDir ==
  /\ step = "mkdir"
  /\ dir' = "present"
  /\ step' = "preimage"
  /\ voided' = IF HalfApplied THEN voided \cup {"overlapped"} ELSE voided
  /\ UNCHANGED <<live, blobs, jrn, local, result>>

\* Mutant: a pre-image left behind by an earlier transaction is kept.
KeepOldPreImage ==
  /\ step = "preimage"
  /\ LET f == txn[idx].file IN
       /\ blobs' = [blobs EXCEPT ![idx] = IF @ = NoBlob THEN live[f] ELSE @]
       /\ entries' = Append(entries, [file |-> f, pre |-> Sha(live[f]),
                                      post |-> Sha(txn[idx].content)])
  /\ Loop(Len(txn), "preimage", "uncommitted")
  /\ UNCHANGED <<live, dir, jrn, txn, published, incomplete, scan, result, voided>>

\* Mutant: the planned hash is recorded without reading the file again.
RecordPlannedHash ==
  /\ step = "preimage"
  /\ LET f == txn[idx].file IN
       /\ blobs' = [blobs EXCEPT ![idx] = live[f]]
       /\ entries' = Append(entries, [file |-> f, pre |-> txn[idx].expected,
                                      post |-> Sha(txn[idx].content)])
  /\ Loop(Len(txn), "preimage", "uncommitted")
  /\ UNCHANGED <<live, dir, jrn, txn, published, incomplete, scan, result, voided>>

\* The file is read again; these bytes and their hash become the pre-image.
WritePreImage ==
  /\ step = "preimage"
  /\ LET f == txn[idx].file IN
       /\ blobs' = [blobs EXCEPT ![idx] = live[f]]
       /\ entries' = Append(entries, [file |-> f, pre |-> Sha(live[f]),
                                      post |-> Sha(txn[idx].content)])
  /\ Loop(Len(txn), "preimage", "uncommitted")
  /\ UNCHANGED <<live, dir, jrn, txn, published, incomplete, scan, result, voided>>

\* write_journal: temporary file, fsync, rename over journal.json.
WriteJournal(phase) == jrn' = [phase |-> phase, entries |-> entries]

WriteUncommitted ==
  /\ step = "uncommitted"
  /\ WriteJournal("uncommitted")
  /\ step' = "committed"
  /\ UNCHANGED <<live, dir, blobs, local, result, voided>>

WriteCommitted ==
  /\ step = "committed"
  /\ WriteJournal("committed")
  /\ step' = "publish"
  /\ UNCHANGED <<live, dir, blobs, local, result, voided>>

StartRollback ==
  /\ step' = IF idx = 1 THEN "cleanup" ELSE "rollback"
  /\ published' = idx - 1
  /\ idx' = 1
  /\ result' = "failed"
  /\ UNCHANGED <<txn, entries, incomplete, scan>>

\* Mutant: the file is replaced whatever it contains.
PublishUnchecked ==
  /\ step = "publish"
  /\ step' = "rename" /\ UNCHANGED <<local, result>>
  /\ UNCHANGED <<disk, voided>>

\* publish_atomic up to the comparison with the live file.
PublishCheck ==
  /\ step = "publish"
  /\ IF Sha(live[txn[idx].file]) = txn[idx].expected
     THEN step' = "rename" /\ UNCHANGED <<local, result>>
     ELSE StartRollback
  /\ UNCHANGED <<disk, voided>>

\* publish_atomic's rename of the finished temporary file.
PublishRename ==
  /\ step = "rename"
  /\ live' = [live EXCEPT ![txn[idx].file] = txn[idx].content]
  /\ Loop(Len(txn), "publish", "complete")
  /\ UNCHANGED <<dir, blobs, jrn, txn, entries, published, incomplete, scan,
                 result, voided>>

\* Mutant: the journal is removed although a file was not restored.
ForgetRollbackFailure(failure) ==
  IF idx < published
  THEN /\ step' = "rollback" /\ idx' = idx + 1 /\ incomplete' = failure
       /\ UNCHANGED <<txn, entries, published, scan, result>>
  ELSE /\ step' = "cleanup" /\ idx' = 1
       /\ UNCHANGED <<txn, entries, published, incomplete, scan, result>>

\* One rollback is over, with a failure or without.  After the last one the
\* journal goes, unless some file could not be restored.
AfterRollback(failure) ==
  IF idx < published
  THEN /\ step' = "rollback" /\ idx' = idx + 1 /\ incomplete' = failure
       /\ UNCHANGED <<txn, entries, published, scan, result>>
  ELSE IF failure = "yes"
  THEN Return("kept")
  ELSE /\ step' = "cleanup" /\ idx' = 1
       /\ UNCHANGED <<txn, entries, published, incomplete, scan, result>>

\* std::fs::write truncates first and writes then; rollback ignores what the
\* file contains.  A pre-image that cannot be read is a rollback failure.
RollbackOpen ==
  /\ step = "rollback"
  /\ IF blobs[idx] # NoBlob
     THEN /\ live' = [live EXCEPT ![txn[idx].file] = Torn]
          /\ step' = "rollbackWrite"
          /\ UNCHANGED <<local, result>>
     ELSE AfterRollback("yes") /\ UNCHANGED live
  /\ UNCHANGED <<dir, blobs, jrn, voided>>

RollbackWrite ==
  /\ step = "rollbackWrite"
  /\ live' = [live EXCEPT ![txn[idx].file] = blobs[idx]]
  /\ AfterRollback(incomplete)
  /\ UNCHANGED <<dir, blobs, jrn, voided>>

\* Every target carries its post-image; the journal is marked completed.
MarkCompleted ==
  /\ step = "complete"
  /\ WriteJournal("completed")
  /\ step' = "cleanup" /\ result' = "ok"
  /\ UNCHANGED <<live, dir, blobs, local, voided>>

\* remove_dir_all takes the entries of the directory in any order.
RemoveItem ==
  /\ step = "cleanup"
  /\ \/ jrn # NoJournal /\ jrn' = NoJournal /\ UNCHANGED blobs
     \/ \E i \in 1..MaxFiles : /\ blobs[i] # NoBlob
                               /\ blobs' = [blobs EXCEPT ![i] = NoBlob]
                               /\ UNCHANGED jrn
  /\ UNCHANGED <<live, dir, step, local, result, voided>>

RemoveDir ==
  /\ step = "cleanup"
  /\ jrn = NoJournal /\ blobs = NoBlobs
  /\ dir' = "absent"
  /\ Return(result)
  /\ UNCHANGED <<live, blobs, jrn, voided>>

-----------------------------------------------------------------------------
(* recover_with_report                                                     *)

BeginRecover ==
  /\ step = "idle" /\ Cardinality(voided \ {"torn"}) <= MaxEvents
  /\ step' = "recover" /\ result' = "none"
  /\ UNCHANGED <<disk, local, voided>>

\* The cases of the journal found on disk.
InspectJournal ==
  /\ step = "recover"
  /\ \/ /\ jrn = NoJournal /\ dir = "absent"
        /\ Return("nothing")
     \/ /\ jrn = NoJournal /\ dir = "present"
        /\ step' = "cleanup" /\ result' = "discarded" /\ UNCHANGED local
     \/ /\ jrn # NoJournal /\ jrn.phase = "completed"
        /\ step' = "cleanup" /\ result' = "nothing" /\ UNCHANGED local
     \/ /\ jrn # NoJournal /\ jrn.phase = "uncommitted"
        /\ step' = "cleanup" /\ result' = "discarded" /\ UNCHANGED local
     \/ /\ jrn # NoJournal /\ jrn.phase = "committed"
        /\ step' = "scan" /\ entries' = jrn.entries
        /\ UNCHANGED <<txn, idx, published, incomplete, scan, result>>
  /\ UNCHANGED <<disk, voided>>

\* Path::exists answers "no" when the lookup fails: a directory that cannot be
\* looked up is nothing to recover, and a journal.json that cannot be looked up
\* leaves an orphan directory, which is removed whatever the journal says.
OverlookJournal ==
  /\ step = "recover" /\ dir = "present"
  /\ \/ Return("nothing") /\ UNCHANGED voided
     \/ /\ jrn # NoJournal
        /\ step' = "cleanup" /\ result' = "discarded" /\ UNCHANGED local
        /\ voided' = IF HalfApplied THEN voided \cup {"overlooked"} ELSE voided
  /\ UNCHANGED disk

\* Mutant: one post-image is taken as proof that publication finished.
AnyPostImageFinishes ==
  /\ step = "scan"
  /\ scan' = [i \in DOMAIN entries |-> Sha(live[entries[i].file])]
  /\ IF \E i \in DOMAIN entries : scan'[i] = entries[i].post
     THEN step' = "cleanup" /\ result' = "nothing"
     ELSE step' = "restore" /\ UNCHANGED result
  /\ UNCHANGED <<disk, txn, idx, entries, published, incomplete, voided>>

\* All live hashes are read, and a read that fails is not an error here; all
\* post-images mean the transaction finished.
ScanLive ==
  /\ step = "scan"
  /\ \E unread \in SUBSET DOMAIN entries :
       /\ scan' = [i \in DOMAIN entries |->
                     IF i \in unread THEN Unread ELSE Sha(live[entries[i].file])]
       /\ voided' = IF unread # {} /\ AllPost(entries)
                    THEN voided \cup {"misread"} ELSE voided
  /\ IF \A i \in DOMAIN entries : scan'[i] = entries[i].post
     THEN step' = "cleanup" /\ result' = "nothing"
     ELSE step' = "restore" /\ UNCHANGED result
  /\ UNCHANGED <<disk, txn, idx, entries, published, incomplete>>

\* Mutant: a restored or skipped file is looked at again.
RestoreSameEntry ==
  /\ step' = "restore"
  /\ UNCHANGED <<local, result>>

AfterRestore ==
  /\ Loop(Len(entries), "restore", "cleanup")
  /\ result' = IF idx < Len(entries) THEN result ELSE "rolledBack"
  /\ UNCHANGED <<txn, entries, published, incomplete, scan>>

\* Mutant: any content but the pre-image refuses the recovery.
RefuseUnlessPreImage ==
  /\ step = "restore"
  /\ \/ scan[idx] = entries[idx].pre /\ AfterRestore
     \/ scan[idx] # entries[idx].pre /\ Return("refused")
  /\ UNCHANGED <<disk, voided>>

\* A file at its pre-image is skipped, one that is neither image refuses the
\* recovery, and a post-image is replaced, again by a truncating write.
RestoreEntry ==
  /\ step = "restore"
  /\ \/ /\ scan[idx] = entries[idx].pre
        /\ AfterRestore
        /\ UNCHANGED live
     \/ /\ scan[idx] \notin {entries[idx].pre, entries[idx].post}
        /\ Return("refused")
        /\ UNCHANGED live
     \/ /\ scan[idx] = entries[idx].post /\ scan[idx] # entries[idx].pre
        /\ IF blobs[idx] = NoBlob
           THEN Return("error") /\ UNCHANGED live
           ELSE /\ live' = [live EXCEPT ![entries[idx].file] = Torn]
                /\ step' = "restoreWrite" /\ UNCHANGED <<local, result>>
  /\ UNCHANGED <<dir, blobs, jrn, voided>>

RestoreWrite ==
  /\ step = "restoreWrite"
  /\ live' = [live EXCEPT ![entries[idx].file] = blobs[idx]]
  /\ AfterRestore
  /\ UNCHANGED <<dir, blobs, jrn, voided>>

-----------------------------------------------------------------------------
(* Failures and other writers                                              *)

\* A write that stops after the truncation leaves the file torn.
Tear == voided' = IF step \in {"rollbackWrite", "restoreWrite"}
                  THEN voided \cup {"torn"} ELSE voided

\* The same for a pre-image being saved, which no journal names yet.
TearPreImage ==
  \/ UNCHANGED blobs
  \/ step = "preimage" /\ blobs' = [blobs EXCEPT ![idx] = Torn]

\* A file system call fails.  Before publication, and in recovery, the error
\* is returned at once; a failed publication is rolled back; a failed rollback
\* is noted and the others are still attempted; a completion marker that cannot
\* be written is only warned about, and so is a cleanup that fails, unless it
\* is the last step of a recovery that discarded or rolled back.
IoError ==
  /\ \/ /\ \/ step \in {"cas", "mkdir", "preimage", "uncommitted", "committed",
                        "restoreWrite"}
           \/ step = "recover" /\ jrn # NoJournal
           \/ step = "restore" /\ scan[idx] = entries[idx].post
        /\ Return("error")
     \/ step \in {"publish", "rename"} /\ StartRollback
     \/ step \in {"rollback", "rollbackWrite"} /\ AfterRollback("yes")
     \/ step = "complete" /\ step' = "cleanup" /\ result' = "ok" /\ UNCHANGED local
     \/ /\ step = "cleanup"
        /\ Return(IF result \in {"discarded", "rolledBack"} THEN "error" ELSE result)
  /\ Tear /\ TearPreImage
  /\ UNCHANGED <<live, dir, jrn>>

\* The lock holder dies; nothing of it survives but the disk.
Crash ==
  /\ step # "idle"
  /\ Return("none")
  /\ Tear /\ TearPreImage
  /\ UNCHANGED <<live, dir, jrn>>

\* The files whose images the holder, or a committed journal on disk, relies on.
Contested ==
  Files(entries) \cup (IF jrn # NoJournal /\ jrn.phase = "committed"
                       THEN Files(jrn.entries) ELSE {})

\* Anyone else replaces a file.
ForeignWrite(f, c) ==
  /\ live[f] # c
  /\ live' = [live EXCEPT ![f] = c]
  /\ voided' = IF f \in Contested THEN voided \cup {"contested"} ELSE voided
  /\ UNCHANGED <<dir, blobs, jrn, step, local, result>>

Publication ==
  \/ CheckInput \/ CreateJournalDir \/ WritePreImage
  \/ WriteUncommitted \/ WriteCommitted
  \/ PublishCheck \/ PublishRename \/ RollbackOpen \/ RollbackWrite
  \/ MarkCompleted \/ RemoveItem \/ RemoveDir

Recovery == InspectJournal \/ ScanLive \/ RestoreEntry \/ RestoreWrite

Next ==
  \/ \E t \in Transactions : BeginTransaction(t)
  \/ BeginRecover
  \/ Publication \/ Recovery
  \/ OverlookJournal \/ IoError \/ Crash
  \/ \E f \in Shared, c \in Content : ForeignWrite(f, c)

Spec == Init /\ [][Next]_vars

\* The process that holds the lock keeps running until it returns or dies.
FairSpec == Spec /\ WF_vars(Publication \/ Recovery)

-----------------------------------------------------------------------------
(* Properties                                                              *)

\* Write-ahead: whenever a transaction is half applied on disk, the journal
\* holds the intact pre-image of every file that no longer carries it, and
\* every file but the one being restored carries one of its two images, as long
\* as none of the events above happened.  So a crash at any other point leaves
\* recovery all it needs.
Recoverable ==
  voided = {} /\ HalfApplied =>
    \A i \in DOMAIN jrn.entries :
      LET e == jrn.entries[i] IN
        /\ Sha(live[e.file]) # e.pre => Sha(blobs[i]) = e.pre
        /\ \/ Sha(live[e.file]) \in {e.pre, e.post}
           \/ step \in {"rollbackWrite", "restoreWrite"} /\ idx = i

\* Recovery after crashes and failed calls alone is never refused over what a
\* file contains: whatever it can read is one of the two images.
CleanRecoveryNeverRefused ==
  [][result' = "refused" /\ result # "refused" /\ voided = {} =>
       scan[idx] = Unread]_vars

\* The journal of a half-applied transaction stays until its files are all
\* restored or all published, whatever crashes, failed calls, rollbacks and
\* recoveries come in between, and however often recovery runs into a file that
\* an earlier restore left torn.  It is lost to a transaction published before
\* recovery (overlapped) and to a failed lookup of journal.json (overlooked),
\* and may be after somebody else wrote its files or a read in recovery failed.
JournalOutlivesHalfApplied ==
  [][voided' \subseteq {"torn"} /\ HalfApplied => jrn' = jrn]_vars

\* What a call reports is what it did: success means every file carries its
\* new content in place of the one it was planned against, a failed publication
\* that every file carries its old one, and a completed rollback that the
\* crashed transaction left no trace, as long as none of the events happened.
ReportIsTrue ==
  [][(/\ step # "idle" /\ step' = "idle" /\ voided' = {}) =>
       /\ result' = "ok" =>
            \A i \in DOMAIN txn : /\ live'[txn[i].file] = txn[i].content
                                  /\ entries[i].pre = txn[i].expected
       /\ result' \in {"failed", "rolledBack"} =>
            \A i \in DOMAIN entries :
              Sha(live'[entries[i].file]) = entries[i].pre]_vars

\* Stated by the header of journal.rs, and not so: a crashed transaction can be
\* recovered until recovery has finished it, also when other transactions are
\* published before that.
CrashedTransactionStaysRecoverable ==
  [][HalfApplied /\ voided' \subseteq {"overlapped"} => jrn' = jrn]_vars

\* A failure: the holder dies, a file system call fails, a lookup or a read in
\* recovery does.
Failure ==
  \/ IoError \/ Crash \/ OverlookJournal
  \/ ScanLive /\ \E i \in DOMAIN scan' : scan'[i] = Unread

\* A half-applied transaction does not stay so: recovery that is called again
\* and again, and fails only finitely often, finishes the job, unless one of
\* the events it does not cover happened.
RecoveryConverges ==
  []<><<BeginRecover>>_vars =>
    \/ []<><<Failure>>_vars
    \/ HalfApplied ~> (~HalfApplied \/ voided # {})

\* Every call returns: no loop of publication, rollback, cleanup or recovery
\* runs forever while its process keeps running.
CallsReturn == step # "idle" ~> step = "idle"

=============================================================================
