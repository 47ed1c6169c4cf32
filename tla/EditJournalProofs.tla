------------------------- MODULE EditJournalProofs --------------------------
(***************************************************************************)
(* The theorems about the edit journal: for any number of files, contents  *)
(* and transaction sizes its safety properties hold, and it implements the *)
(* atomic store.                                                           *)
(***************************************************************************)
EXTENDS EditJournalInvariant, EditJournalAtomic

\* In recovery, the memory holds the entries of the journal on disk.
LEMMA RecoveringFacts ==
  ASSUME IInv, step \in Recovering
  PROVE  /\ jrn # NoJournal /\ jrn.phase = "committed" /\ jrn.entries = entries
         /\ DOMAIN entries = 1..Len(entries) /\ Len(entries) \in Nat
         /\ idx \in 1..Len(entries)
         /\ \A i \in DOMAIN entries : /\ entries[i].file \in File
                                      /\ entries[i].pre \in Hash
                                      /\ entries[i].post \in Hash
         /\ Distinct(entries)
<1>1. TypeOK /\ ControlInv /\ LinkInv
  BY DEF IInv
<1>2. jrn = [phase |-> "committed", entries |-> entries]
  BY <1>1 DEF LinkInv
<1>3. jrn # NoJournal
  BY <1>1, <1>2, NoJournalAssumption DEF TypeOK, Journal, Phase
<1>4. idx <= Len(entries) /\ idx \in 1..MaxFiles /\ Distinct(entries)
  BY <1>1 DEF ControlInv, TypeOK
<1> QED
  BY <1>1, <1>2, <1>3, <1>4, EntryFacts, JournalAssumption

\* While recovery restores, some file was never published, so a file away from
\* its pre-image means that the transaction is half applied.
LEMMA RestoringIsHalfApplied ==
  ASSUME IInv, voided = {}, step \in {"restore", "restoreWrite"},
         NEW i \in DOMAIN entries, ~IsPre(i)
  PROVE  HalfApplied /\ Sha(blobs[i]) = entries[i].pre
<1>1. jrn # NoJournal /\ jrn.phase = "committed" /\ jrn.entries = entries
  BY RecoveringFacts DEF Recovering
<1>2. PICK j \in DOMAIN entries : IsPre(j) /\ ~IsPost(j)
  BY ImageParts DEF RestoreInv
<1>3. HalfApplied
  BY <1>1, <1>2 DEF HalfApplied, AllPost, AllPre, IsPre, IsPost
<1> QED
  BY <1>1, <1>3, ImageParts DEF Recoverable, IsPre

\* File idx carries its pre-image again, or still.
LEMMA AfterRestoreImages ==
  ASSUME IInv, voided = {}, step \in {"restore", "restoreWrite"}, AfterRestore,
         jrn' = jrn, blobs' = blobs,
         Sha(live'[entries[idx].file]) = entries[idx].pre,
         \A i \in DOMAIN entries : i # idx => live'[entries[i].file] = live[entries[i].file]
  PROVE  ImageInv'
<1> DEFINE Now(i) == Sha(live'[entries[i].file])
<1>1. /\ jrn.entries = entries /\ idx \in 1..Len(entries)
      /\ DOMAIN entries = 1..Len(entries) /\ Len(entries) \in Nat
  BY RecoveringFacts, Zenon DEF Recovering
<1>2. \A i \in DOMAIN entries :
        /\ i <= idx => Now(i) = entries[i].pre
        /\ i > idx => Now(i) \in {entries[i].pre, entries[i].post}
        /\ i > idx => scan[i] = Unread \/ scan[i] = Now(i)
  BY <1>1, ImageParts DEF RestoreInv, IsPre, IsPost
<1>3. \E j \in DOMAIN entries : Now(j) = entries[j].pre /\ Now(j) # entries[j].post
  <2>1. PICK j \in DOMAIN entries : IsPre(j) /\ ~IsPost(j)
    BY ImageParts DEF RestoreInv
  <2>2. Now(j) = entries[j].pre /\ entries[j].pre # entries[j].post
    BY <2>1 DEF IsPre, IsPost
  <2> QED BY <2>2
<1>4. Recoverable'
  <2>1. \A i \in DOMAIN entries : Now(i) # entries[i].pre => Sha(blobs[i]) = entries[i].pre
    <3> TAKE i \in DOMAIN entries
    <3> HAVE Now(i) # entries[i].pre
    <3>1. ~IsPre(i)
      BY DEF IsPre
    <3> QED BY <3>1, RestoringIsHalfApplied
  <2>2. \A i \in DOMAIN entries : Now(i) \in {entries[i].pre, entries[i].post}
    BY <1>1, <1>2
  <2> QED
    BY <1>1, <2>1, <2>2 DEF Recoverable
<1>5. CASE idx < Len(entries)
  <2>1. step' = "restore" /\ idx' = idx + 1 /\ entries' = entries /\ scan' = scan
    BY <1>5, Zenon DEF AfterRestore, Loop
  <2>2. RestoreInv'
    BY <1>1, <1>2, <1>3, <2>1 DEF RestoreInv, IsPre, IsPost
  <2> QED
    BY <1>4, <2>1, <2>2
       DEF ImageInv, SavedInv, PublishInv, RollbackInv, CompleteInv, CleanupInv
<1>6. CASE ~(idx < Len(entries))
  <2>1. step' = "cleanup" /\ entries' = entries /\ result' = "rolledBack"
    BY <1>6 DEF AfterRestore, Loop
  <2>2. \A i \in DOMAIN entries : Now(i) = entries[i].pre
    BY <1>1, <1>2, <1>6
  <2>3. ~HalfApplied'
    BY <1>1, <2>2, AllPreNotHalf
  <2> QED
    BY <1>4, <2>1, <2>2, <2>3, Zenon
       DEF ImageInv, SavedInv, PublishInv, RollbackInv, CompleteInv, RestoreInv,
           CleanupInv, IsPre
<1> QED BY <1>5, <1>6

\* Publication, rollback and cleanup, as long as nothing happened that voids
\* the images.
LEMMA PublicationImages ==
  ASSUME IInv, Publication, voided = {}, voided' = {}
  PROVE  ImageInv'
<1>1. ASSUME CheckInput PROVE ImageInv'
  <2>1. Recoverable'
    BY <1>1, RecoverableKept DEF CheckInput, disk
  <2>2. step' \in {"idle", "cas", "mkdir"}
    BY <1>1, Zenon DEF CheckInput, Loop, Return
  <2> QED BY <2>1, <2>2, PlainPlace
<1>2. ASSUME CreateJournalDir PROVE ImageInv'
  <2>1. ~HalfApplied /\ live' = live /\ jrn' = jrn /\ step' = "preimage" /\ entries' = entries
    BY <1>2 DEF CreateJournalDir, local
  <2>2. ~HalfApplied' /\ Recoverable'
    BY <2>1, HalfAppliedKept, NothingHalfApplied
  <2>3. entries = <<>>
    BY <1>2, ImageParts, Zenon DEF CreateJournalDir, ControlInv
  <2> QED
    BY <2>1, <2>2, <2>3
       DEF ImageInv, SavedInv, PublishInv, RollbackInv, CompleteInv, RestoreInv, CleanupInv
<1>3. ASSUME WritePreImage PROVE ImageInv'
  <2>1. idx \in 1..Len(txn) /\ Len(txn) \in Nat /\ Len(entries) = idx - 1
    BY <1>3, PlannedFacts, ImageParts DEF WritePreImage, ControlInv
  <2> DEFINE new == [file |-> txn[idx].file, pre |-> Sha(live[txn[idx].file]),
                     post |-> Sha(txn[idx].content)]
  <2>2. /\ entries' = Append(entries, new)
        /\ new.pre = Sha(live[txn[idx].file]) /\ new.file = txn[idx].file
        /\ live' = live /\ jrn' = jrn /\ step' \in {"preimage", "uncommitted"}
    BY <1>3, Zenon DEF WritePreImage, Loop
  <2> HIDE DEF new
  <2>3. /\ DOMAIN entries' = 1..idx
        /\ \A i \in 1..idx : entries'[i] = IF i < idx THEN entries[i] ELSE new
    BY SMTT(20), <2>1, <2>2, ImageParts, EntryFacts
  <2>4. ~HalfApplied /\ \A i \in DOMAIN entries : IsPre(i)
    BY <1>3, ImageParts, Zenon DEF WritePreImage, SavedInv
  <2>5. \A i \in DOMAIN entries' : Sha(live[entries'[i].file]) = entries'[i].pre
    BY <2>1, <2>2, <2>3, <2>4, ImageParts, EntryFacts DEF IsPre
  <2>6. ~HalfApplied' /\ Recoverable'
    BY <2>2, <2>4, HalfAppliedKept, NothingHalfApplied, Zenon
  <2> QED
    BY <2>2, <2>5, <2>6, Zenon
       DEF ImageInv, SavedInv, PublishInv, RollbackInv, CompleteInv, RestoreInv,
           CleanupInv, IsPre
<1>4. ASSUME WriteUncommitted PROVE ImageInv'
  <2>1. /\ jrn' = [phase |-> "uncommitted", entries |-> entries]
        /\ live' = live /\ entries' = entries /\ step' = "committed"
    BY <1>4 DEF WriteUncommitted, WriteJournal, local
  <2>2. ~HalfApplied' /\ Recoverable'
    BY <2>1, NothingHalfApplied DEF HalfApplied
  <2>3. \A i \in DOMAIN entries : IsPre(i)
    BY <1>4, ImageParts, Zenon DEF WriteUncommitted, SavedInv
  <2> QED
    BY <2>1, <2>2, <2>3, Zenon
       DEF ImageInv, SavedInv, PublishInv, RollbackInv, CompleteInv, RestoreInv,
           CleanupInv, IsPre
<1>5. ASSUME WriteCommitted PROVE ImageInv'
  <2>1. /\ jrn' = [phase |-> "committed", entries |-> entries]
        /\ live' = live /\ entries' = entries /\ step' = "publish" /\ idx' = idx
    BY <1>5 DEF WriteCommitted, WriteJournal, local
  <2>2. \A i \in DOMAIN entries : IsPre(i)
    BY <1>5, ImageParts, Zenon DEF WriteCommitted, SavedInv
  <2>3. ~HalfApplied' /\ Recoverable'
    BY <2>1, <2>2, AllPreNotHalf, NothingHalfApplied, Zenon DEF IsPre
  <2>4. idx = 1 /\ DOMAIN entries = 1..Len(entries) /\ Len(entries) \in Nat
    BY <1>5, ImageParts, EntryFacts, JournalAssumption DEF WriteCommitted, ControlInv
  <2> QED
    BY <2>1, <2>2, <2>3, <2>4
       DEF ImageInv, SavedInv, PublishInv, RollbackInv, CompleteInv, RestoreInv,
           CleanupInv, IsPre
<1>6. ASSUME PublishCheck PROVE ImageInv'
  <2>1. CASE StartRollback
    BY <1>6, <2>1, StartRollbackImages, Zenon DEF PublishCheck
  <2>2. CASE /\ Sha(live[txn[idx].file]) = txn[idx].expected
             /\ step' = "rename" /\ UNCHANGED <<local, result>>
    <3>1. Recoverable'
      BY <1>6, RecoverableKept, Zenon DEF PublishCheck
    <3>2. /\ DOMAIN entries = 1..Len(txn) /\ Len(txn) \in Nat /\ idx \in 1..Len(txn)
          /\ entries[idx].file = txn[idx].file
      BY <1>6, PublishingFacts, Zenon DEF PublishCheck, Publishing
    <3>3. entries[idx].pre = txn[idx].expected
      BY <1>6, <2>2, <3>2, ImageParts, Zenon DEF PublishCheck, PublishInv, IsPre
    <3>4. live' = live /\ entries' = entries /\ txn' = txn /\ idx' = idx
      BY <1>6, <2>2, Zenon DEF PublishCheck, disk, local
    <3>5. PublishInv'
      BY <1>6, <2>2, <3>3, <3>4, ImageParts DEF PublishCheck, PublishInv, IsPre, IsPost
    <3> QED
      BY <2>2, <3>1, <3>5, Zenon
         DEF ImageInv, SavedInv, RollbackInv, CompleteInv, RestoreInv, CleanupInv
  <2> QED BY <1>6, <2>1, <2>2 DEF PublishCheck
<1>7. ASSUME PublishRename PROVE ImageInv'
  <2>1. /\ jrn.entries = entries
        /\ DOMAIN entries = 1..Len(txn) /\ Len(txn) \in Nat /\ idx \in 1..Len(txn)
        /\ \A i \in DOMAIN entries : /\ entries[i].file = txn[i].file
                                     /\ entries[i].post = Sha(txn[i].content)
                                     /\ Sha(blobs[i]) = entries[i].pre
                                     /\ entries[i].file \in File
        /\ Distinct(entries)
    BY <1>7, PublishingFacts, Zenon DEF PublishRename, Publishing
  <2>2. /\ live' = [live EXCEPT ![txn[idx].file] = txn[idx].content]
        /\ entries' = entries /\ txn' = txn /\ jrn' = jrn /\ blobs' = blobs
        /\ live \in [File -> Bytes]
    BY <1>7, ImageParts, Zenon DEF PublishRename, TypeOK
  <2>3. \A i \in DOMAIN entries :
          live'[entries[i].file] = IF i = idx THEN txn[idx].content ELSE live[entries[i].file]
    BY <2>1, <2>2 DEF Distinct
  <2>4. \A i \in DOMAIN entries :
          IF i <= idx THEN /\ Sha(live'[entries[i].file]) = entries[i].post
                           /\ entries[i].pre = txn[i].expected
                      ELSE Sha(live'[entries[i].file]) = entries[i].pre
    BY SMTT(20), <1>7, <2>1, <2>3, ImageParts DEF PublishRename, PublishInv, IsPre, IsPost
  <2>5. Recoverable'
    BY <2>1, <2>2, <2>4, Zenon DEF Recoverable
  <2>6. CASE idx < Len(txn)
    <3>1. step' = "publish" /\ idx' = idx + 1
      BY <1>7, <2>6, Zenon DEF PublishRename, Loop
    <3>2. PublishInv'
      BY <2>1, <2>2, <2>4, <3>1 DEF PublishInv, IsPre, IsPost
    <3> QED
      BY <2>5, <3>1, <3>2
         DEF ImageInv, SavedInv, RollbackInv, CompleteInv, RestoreInv, CleanupInv
  <2>7. CASE ~(idx < Len(txn))
    <3>1. step' = "complete"
      BY <1>7, <2>7, Zenon DEF PublishRename, Loop
    <3>2. CompleteInv'
      BY <2>1, <2>2, <2>4, <2>7 DEF CompleteInv, IsPost
    <3> QED
      BY <2>5, <3>1, <3>2
         DEF ImageInv, SavedInv, PublishInv, RollbackInv, RestoreInv, CleanupInv
  <2> QED BY <2>6, <2>7, Zenon
<1>8. ASSUME RollbackOpen PROVE ImageInv'
  <2>1. /\ jrn.entries = entries
        /\ DOMAIN entries = 1..Len(txn) /\ Len(txn) \in Nat /\ idx \in 1..Len(txn)
        /\ \A i \in DOMAIN entries : /\ entries[i].file = txn[i].file
                                     /\ Sha(blobs[i]) = entries[i].pre
                                     /\ entries[i].file \in File
                                     /\ blobs[i] \in Bytes
        /\ Distinct(entries)
    BY <1>8, PublishingFacts, Zenon DEF RollbackOpen, Publishing
  <2>2. blobs[idx] # NoBlob
    BY <2>1, ShaFacts, Zenon
  <2>3. /\ live' = [live EXCEPT ![txn[idx].file] = Torn]
        /\ step' = "rollbackWrite" /\ entries' = entries /\ idx' = idx
        /\ published' = published /\ incomplete' = incomplete
        /\ jrn' = jrn /\ blobs' = blobs /\ live \in [File -> Bytes]
    BY <1>8, <2>2, ImageParts, Zenon DEF RollbackOpen, local, TypeOK
  <2>4. \A i \in DOMAIN entries : i # idx => live'[entries[i].file] = live[entries[i].file]
    BY <2>1, <2>3 DEF Distinct
  <2>5. RollbackInv'
    <3>1. \A i \in DOMAIN entries : i # idx => (IsPre(i)' <=> IsPre(i)) /\ (IsPost(i)' <=> IsPost(i))
      BY <2>3, <2>4 DEF IsPre, IsPost
    <3>2. \A i \in DOMAIN entries :
            /\ i < idx => IsPre(i) \/ (IsPost(i) /\ incomplete = "yes")
            /\ i > published => IsPre(i)
            /\ i >= idx /\ i <= published => IsPost(i)
      BY <1>8, ImageParts, Zenon DEF RollbackOpen, RollbackInv
    <3>3. idx <= published /\ published \in Nat /\ idx \in Nat /\ DOMAIN entries \subseteq Nat
      BY <1>8, <2>1, ImageParts, JournalAssumption DEF RollbackOpen, ControlInv, TypeOK
    <3> QED
      BY <2>3, <3>1, <3>2, <3>3 DEF RollbackInv
  <2>6. \A i \in DOMAIN entries : i # idx => IsPre(i) \/ IsPost(i)
    <3>1. published \in Nat /\ step = "rollback"
      BY SMTT(30), <1>8, ImageParts, JournalAssumption DEF RollbackOpen, TypeOK
    <3> QED
      BY <2>1, <3>1, ImageParts DEF RollbackInv
  <2>7. Recoverable'
    BY SMTT(20), <2>1, <2>3, <2>4, <2>6 DEF Recoverable, IsPre, IsPost
  <2> QED
    BY <2>3, <2>5, <2>7, Zenon
       DEF ImageInv, SavedInv, PublishInv, CompleteInv, RestoreInv, CleanupInv
<1>9. ASSUME RollbackWrite PROVE ImageInv'
  <2>1. /\ DOMAIN entries = 1..Len(txn) /\ idx \in 1..Len(txn)
        /\ \A i \in DOMAIN entries : /\ entries[i].file = txn[i].file
                                     /\ Sha(blobs[i]) = entries[i].pre
                                     /\ entries[i].file \in File
        /\ Distinct(entries)
    BY <1>9, PublishingFacts, Zenon DEF RollbackWrite, Publishing
  <2>2. /\ live' = [live EXCEPT ![txn[idx].file] = blobs[idx]]
        /\ jrn' = jrn /\ blobs' = blobs /\ AfterRollback(incomplete)
        /\ live \in [File -> Bytes] /\ incomplete \in {"no", "yes"}
    BY <1>9, ImageParts, Zenon DEF RollbackWrite, TypeOK
  <2>3. \A i \in DOMAIN entries : i # idx => live'[entries[i].file] = live[entries[i].file]
    BY <2>1, <2>2, Zenon DEF Distinct
  <2>4. Sha(live'[entries[idx].file]) = entries[idx].pre
    BY <2>1, <2>2
  <2>5. step \in {"rollback", "rollbackWrite"}
    BY <1>9, Zenon DEF RollbackWrite
  <2> QED
    BY <2>2, <2>3, <2>4, <2>5, AfterRollbackImages, Zenon
<1>10. ASSUME MarkCompleted PROVE ImageInv'
  <2>1. /\ jrn' = [phase |-> "completed", entries |-> entries]
        /\ step' = "cleanup" /\ result' = "ok"
        /\ live' = live /\ entries' = entries /\ txn' = txn
    BY <1>10 DEF MarkCompleted, WriteJournal, local
  <2>2. ~HalfApplied' /\ Recoverable'
    BY <2>1, NothingHalfApplied, Zenon DEF HalfApplied
  <2>3. CleanupInv'
    BY SMTT(20), <1>10, <2>1, <2>2, ImageParts
       DEF MarkCompleted, CompleteInv, CleanupInv, ControlInv, Journaled, Publishing, IsPost
  <2> QED
    BY <2>1, <2>2, <2>3, Zenon
       DEF ImageInv, SavedInv, PublishInv, RollbackInv, CompleteInv, RestoreInv
<1>11. ASSUME RemoveItem PROVE ImageInv'
  <2>1. /\ step = "cleanup" /\ step' = step /\ live' = live /\ jrn' \in {jrn, NoJournal}
        /\ entries' = entries /\ txn' = txn /\ result' = result
    BY <1>11, Zenon DEF RemoveItem, local
  <2>2. ~HalfApplied
    BY <2>1, ImageParts DEF CleanupInv
  <2>3. ~HalfApplied' /\ Recoverable'
    BY <2>1, <2>2, HalfAppliedKept, NothingHalfApplied, Zenon DEF HalfApplied
  <2>4. CleanupInv'
    BY <2>1, <2>3, ImageParts DEF CleanupInv, IsPre, IsPost
  <2> QED
    BY <2>1, <2>3, <2>4
       DEF ImageInv, SavedInv, PublishInv, RollbackInv, CompleteInv, RestoreInv
<1>12. ASSUME RemoveDir PROVE ImageInv'
  <2>1. step' = "idle" /\ jrn' = NoJournal
    BY <1>12 DEF RemoveDir, Return
  <2>2. Recoverable'
    BY <2>1, NothingHalfApplied DEF HalfApplied
  <2> QED BY <2>1, <2>2, PlainPlace
<1> QED
  BY <1>1, <1>2, <1>3, <1>4, <1>5, <1>6, <1>7, <1>8, <1>9, <1>10, <1>11, <1>12, Zenon
     DEF Publication

\* The images step by step, as long as nothing happened that voids them.
LEMMA ImageStep ==
  ASSUME IInv, [Next]_vars, voided' = {}
  PROVE  ImageInv'
<1>0. voided = {}
  BY VoidedGrows
<1> USE <1>0
<1>1. ASSUME NEW t \in Transactions, BeginTransaction(t) PROVE ImageInv'
  BY <1>1, RecoverableKept, PlainPlace DEF BeginTransaction, disk
<1>2. ASSUME BeginRecover PROVE ImageInv'
  BY <1>2, RecoverableKept, PlainPlace DEF BeginRecover, disk
<1>3. ASSUME Publication PROVE ImageInv'
  BY <1>3, PublicationImages
<1>4. ASSUME InspectJournal PROVE ImageInv'
  <2>1. Recoverable'
    BY <1>4, RecoverableKept DEF InspectJournal
  <2>2. CASE step' \in {"idle", "scan"}
    BY <2>1, <2>2, PlainPlace, Zenon
  <2>3. CASE /\ step' = "cleanup" /\ result' \in {"discarded", "nothing"}
             /\ (jrn = NoJournal \/ jrn.phase # "committed")
    <3>1. jrn' = jrn
      BY <1>4 DEF InspectJournal, disk
    <3>2. ~HalfApplied'
      BY <2>3, <3>1 DEF HalfApplied
    <3> QED
      BY <2>1, <2>3, <3>2, Zenon
         DEF ImageInv, SavedInv, PublishInv, RollbackInv, CompleteInv, RestoreInv, CleanupInv
  <2> QED
    BY <1>4, <2>2, <2>3, Zenon DEF InspectJournal, Return
<1>5. ASSUME ScanLive PROVE ImageInv'
  <2>1. /\ jrn # NoJournal /\ jrn.phase = "committed" /\ jrn.entries = entries
        /\ DOMAIN entries = 1..Len(entries) /\ Len(entries) \in Nat /\ idx = 1
        /\ \A i \in DOMAIN entries : entries[i].post \in Hash
    BY <1>5, RecoveringFacts, ImageParts, Zenon DEF ScanLive, Recovering, ControlInv
  <2>2. PICK unread \in SUBSET DOMAIN entries :
          /\ scan' = [i \in DOMAIN entries |->
                        IF i \in unread THEN Unread ELSE Sha(live[entries[i].file])]
          /\ voided' = IF unread # {} /\ AllPost(entries)
                       THEN voided \cup {"misread"} ELSE voided
    BY <1>5 DEF ScanLive
  <2>3. unread = {} \/ ~AllPost(entries)
    BY <2>2
  <2>4. live' = live /\ jrn' = jrn /\ entries' = entries /\ idx' = idx /\ blobs' = blobs
    BY <1>5 DEF ScanLive, disk
  <2>5. Recoverable'
    BY <1>5, <2>4, RecoverableKept, Zenon DEF ScanLive
  <2>6. CASE \A i \in DOMAIN entries : scan'[i] = entries[i].post
    <3>1. step' = "cleanup" /\ result' = "nothing"
      BY <1>5, <2>6 DEF ScanLive
    <3>2. \A i \in DOMAIN entries : Sha(live[entries[i].file]) = entries[i].post
      BY <2>1, <2>2, <2>6, ShaFacts, Zenon
    <3>3. ~HalfApplied'
      BY <2>1, <2>4, <3>2, AllPostNotHalf, Zenon
    <3> QED
      BY <2>5, <3>1, <3>3, Zenon
         DEF ImageInv, SavedInv, PublishInv, RollbackInv, CompleteInv, RestoreInv, CleanupInv
  <2>7. CASE ~(\A i \in DOMAIN entries : scan'[i] = entries[i].post)
    <3>1. step' = "restore"
      BY <1>5, <2>7 DEF ScanLive
    <3>2. ~AllPost(entries)
      BY <2>2, <2>3, <2>7, Zenon DEF AllPost
    <3>3. \A i \in DOMAIN entries : IsPre(i) \/ IsPost(i)
      BY <1>5, <2>1, <3>2, ImageParts, Zenon
         DEF ScanLive, HalfApplied, Recoverable, AllPre, IsPre, IsPost
    <3>4. \E j \in DOMAIN entries : IsPre(j) /\ ~IsPost(j)
      BY <3>2, <3>3 DEF AllPost, IsPost
    <3>5. \A i \in DOMAIN entries : scan'[i] = Unread \/ scan'[i] = Sha(live[entries[i].file])
      BY <2>2, Zenon
    <3>6. RestoreInv'
      BY <2>1, <2>4, <3>1, <3>3, <3>4, <3>5 DEF RestoreInv, IsPre, IsPost
    <3> QED
      BY <2>5, <3>1, <3>6, Zenon
         DEF ImageInv, SavedInv, PublishInv, RollbackInv, CompleteInv, CleanupInv
  <2> QED BY <2>6, <2>7, Zenon
<1>6. ASSUME RestoreEntry PROVE ImageInv'
  <2>1. /\ jrn.entries = entries /\ idx \in DOMAIN entries
        /\ \A i \in DOMAIN entries : /\ entries[i].file \in File
                                     /\ entries[i].pre \in Hash /\ entries[i].post \in Hash
        /\ Distinct(entries) /\ step = "restore"
        /\ idx \in Nat /\ DOMAIN entries \subseteq Nat
    BY SMTT(30), <1>6, RecoveringFacts DEF RestoreEntry, Recovering
  <2>2. scan[idx] = Unread \/ scan[idx] = Sha(live[entries[idx].file])
    BY <2>1, ImageParts DEF RestoreInv
  <2>3. CASE scan[idx] = entries[idx].pre /\ AfterRestore /\ UNCHANGED live
    BY <1>6, <2>1, <2>2, <2>3, ShaFacts, AfterRestoreImages, Zenon DEF RestoreEntry
  <2>4. CASE (Return("refused") \/ Return("error")) /\ UNCHANGED live
    <3>1. Recoverable'
      BY <1>6, <2>1, <2>4, RecoverableKept, Zenon DEF RestoreEntry, disk
    <3> QED
      BY <2>4, <3>1, PlainPlace, Zenon DEF Return
  <2>5. CASE /\ scan[idx] = entries[idx].post /\ scan[idx] # entries[idx].pre
             /\ live' = [live EXCEPT ![entries[idx].file] = Torn]
             /\ step' = "restoreWrite" /\ UNCHANGED <<local, result>>
    <3>1. IsPost(idx) /\ ~IsPre(idx)
      BY <2>1, <2>2, <2>5, ShaFacts, Zenon DEF IsPre, IsPost
    <3>2. Sha(blobs[idx]) = entries[idx].pre
      BY <2>1, <3>1, RestoringIsHalfApplied, Zenon
    <3>3. /\ entries' = entries /\ idx' = idx /\ scan' = scan
          /\ jrn' = jrn /\ blobs' = blobs /\ live \in [File -> Bytes]
      BY <1>6, <2>5, ImageParts, Zenon DEF RestoreEntry, local, TypeOK
    <3>4. \A i \in DOMAIN entries : i # idx => live'[entries[i].file] = live[entries[i].file]
      BY <2>1, <2>5, <3>3, Zenon DEF Distinct
    <3>5. \E j \in DOMAIN entries : j # idx /\ IsPre(j) /\ ~IsPost(j)
      BY <2>1, <3>1, ImageParts, Zenon DEF RestoreInv
    <3>6. RestoreInv'
      BY <2>1, <2>5, <3>2, <3>3, <3>4, <3>5, ImageParts DEF RestoreInv, IsPre, IsPost
    <3>7. \A i \in DOMAIN entries : i # idx => /\ IsPre(i) \/ IsPost(i)
                                               /\ ~IsPre(i) => Sha(blobs[i]) = entries[i].pre
      BY SMTT(20), <2>1, ImageParts, RestoringIsHalfApplied DEF RestoreInv
    <3>8. Recoverable'
      BY <2>1, <2>5, <3>2, <3>3, <3>4, <3>7 DEF Recoverable, IsPre, IsPost
    <3> QED
      BY <2>5, <3>6, <3>8, Zenon
         DEF ImageInv, SavedInv, PublishInv, RollbackInv, CompleteInv, CleanupInv
  <2> QED BY <1>6, <2>3, <2>4, <2>5, Zenon DEF RestoreEntry
<1>7. ASSUME RestoreWrite PROVE ImageInv'
  <2>1. /\ idx \in DOMAIN entries /\ step = "restoreWrite" /\ Distinct(entries)
        /\ \A i \in DOMAIN entries : entries[i].file \in File
    BY <1>7, RecoveringFacts, Zenon DEF RestoreWrite, Recovering
  <2>2. /\ live' = [live EXCEPT ![entries[idx].file] = blobs[idx]]
        /\ live \in [File -> Bytes] /\ Sha(blobs[idx]) = entries[idx].pre
        /\ AfterRestore /\ jrn' = jrn /\ blobs' = blobs
    BY <1>7, ImageParts, Zenon DEF RestoreWrite, RestoreInv, TypeOK
  <2>3. \A i \in DOMAIN entries : i # idx => live'[entries[i].file] = live[entries[i].file]
    BY <2>1, <2>2, Zenon DEF Distinct
  <2>4. Sha(live'[entries[idx].file]) = entries[idx].pre
    BY <2>1, <2>2
  <2> QED
    BY <2>1, <2>2, <2>3, <2>4, AfterRestoreImages, Zenon
<1>8. ASSUME IoError PROVE ImageInv'
  <2>1. /\ live' = live /\ jrn' = jrn /\ step \notin {"rollbackWrite", "restoreWrite"}
        /\ step # "preimage" => UNCHANGED disk
    BY <1>8 DEF IoError, Tear, TearPreImage, disk
  <2>2. Recoverable'
    <3>1. CASE step = "preimage"
      BY <2>1, <3>1, ImageParts, HalfAppliedKept, NothingHalfApplied, Zenon DEF SavedInv
    <3> QED BY <2>1, <3>1, RecoverableKept
  <2>3. CASE \E r : Return(r)
    BY <2>2, <2>3, PlainPlace DEF Return
  <2>4. CASE step \in {"publish", "rename"} /\ StartRollback
    BY <2>1, <2>4, StartRollbackImages, Zenon
  <2>5. CASE step \in {"rollback", "rollbackWrite"} /\ AfterRollback("yes")
    <3>1. step = "rollback" /\ live' = live /\ jrn' = jrn /\ blobs' = blobs
      BY <2>1, <2>5, Zenon DEF disk
    <3>2. idx \in DOMAIN entries /\ idx \in Nat
      BY <2>5, PublishingFacts DEF Publishing
    <3>3. IsPost(idx)
      BY SMTT(30), <3>1, <3>2, ImageParts, JournalAssumption DEF RollbackInv, ControlInv, TypeOK
    <3> QED
      BY <2>5, <3>1, <3>3, AfterRollbackImages DEF IsPost
  <2>6. CASE step = "complete" /\ step' = "cleanup" /\ result' = "ok" /\ UNCHANGED local
    <3>1. live' = live /\ jrn' = jrn /\ entries' = entries /\ txn' = txn
      BY <2>1, <2>6, Zenon DEF disk, local
    <3>2. jrn.entries = entries
      BY <2>6, PublishingFacts DEF Publishing
    <3>3. ~HalfApplied'
      BY <2>6, <3>1, <3>2, ImageParts, AllPostNotHalf, Zenon DEF CompleteInv, IsPost
    <3>4. CleanupInv'
      BY <2>6, <3>1, <3>3, ImageParts, Zenon
         DEF CompleteInv, CleanupInv, ControlInv, Journaled, Publishing, IsPost
    <3> QED
      BY <2>2, <2>6, <3>4
         DEF ImageInv, SavedInv, PublishInv, RollbackInv, CompleteInv, RestoreInv
  <2> QED BY <1>8, <2>3, <2>4, <2>5, <2>6, Zenon DEF IoError
<1>9. ASSUME Crash PROVE ImageInv'
  <2>1. /\ live' = live /\ jrn' = jrn /\ step' = "idle"
        /\ step \notin {"rollbackWrite", "restoreWrite"}
        /\ step # "preimage" => UNCHANGED disk
    BY <1>9 DEF Crash, Tear, TearPreImage, disk, Return
  <2>2. CASE step = "preimage"
    BY <2>1, <2>2, ImageParts, HalfAppliedKept, NothingHalfApplied, PlainPlace, Zenon DEF SavedInv
  <2> QED
    BY <2>1, <2>2, RecoverableKept, PlainPlace, Zenon
<1>10. ASSUME NEW f \in Shared, NEW c \in Content, ForeignWrite(f, c) PROVE ImageInv'
  <2>1. /\ f \notin Contested
        /\ live' = [live EXCEPT ![f] = c] /\ live \in [File -> Bytes]
        /\ jrn' = jrn /\ blobs' = blobs /\ step' = step /\ result' = result
        /\ txn' = txn /\ idx' = idx /\ entries' = entries /\ published' = published
        /\ incomplete' = incomplete /\ scan' = scan
    BY ZenonT(20), <1>10, ImageParts DEF ForeignWrite, local, TypeOK
  <2>2. \A i \in DOMAIN entries : live'[entries[i].file] = live[entries[i].file]
    BY <2>1, ImageParts, EntryFacts, Zenon DEF Contested, Files
  <2>3. jrn # NoJournal /\ jrn.phase = "committed" =>
          \A i \in DOMAIN jrn.entries : live'[jrn.entries[i].file] = live[jrn.entries[i].file]
    BY <2>1, JournalFacts, Zenon DEF Contested, Files
  <2>4. HalfApplied' <=> HalfApplied
    BY <2>1, <2>3, ZenonT(30) DEF HalfApplied, AllPost, AllPre
  <2>5. Recoverable'
    BY <2>1, <2>3, <2>4, ImageParts, Zenon DEF Recoverable, HalfApplied
  <2>6. \A i \in DOMAIN entries : (IsPre(i)' <=> IsPre(i)) /\ (IsPost(i)' <=> IsPost(i))
    BY <2>1, <2>2, Zenon DEF IsPre, IsPost
  <2>7. SavedInv' /\ PublishInv' /\ RollbackInv' /\ CompleteInv' /\ CleanupInv'
    BY <2>1, <2>4, <2>6, ImageParts, Zenon
       DEF SavedInv, PublishInv, RollbackInv, CompleteInv, CleanupInv
  <2>8. RestoreInv'
    BY <2>1, <2>2, <2>6, ImageParts, Zenon DEF RestoreInv
  <2> QED BY <2>5, <2>7, <2>8 DEF ImageInv
<1>11. ASSUME UNCHANGED vars PROVE ImageInv'
  <2>1. ImageInv
    BY DEF IInv
  <2> QED
    BY ZenonT(20), <1>11, <2>1
       DEF vars, ImageInv, SavedInv, PublishInv, RollbackInv, CompleteInv, RestoreInv,
           CleanupInv, Recoverable, HalfApplied, AllPost, AllPre, IsPre, IsPost
<1>12. ASSUME OverlookJournal PROVE ImageInv'
  <2>1. Recoverable' /\ live' = live /\ jrn' = jrn
    BY <1>12, RecoverableKept, Zenon DEF OverlookJournal, disk
  <2>2. CASE Return("nothing")
    BY <2>1, <2>2, PlainPlace, Zenon DEF Return
  <2>3. CASE step' = "cleanup" /\ result' = "discarded" /\ ~HalfApplied
    <3>1. ~HalfApplied'
      BY <2>1, <2>3, HalfAppliedKept, Zenon
    <3> QED
      BY <2>1, <2>3, <3>1, Zenon
         DEF ImageInv, SavedInv, PublishInv, RollbackInv, CompleteInv, RestoreInv, CleanupInv
  <2> QED
    BY <1>12, <2>2, <2>3, Zenon DEF OverlookJournal
<1> QED
  BY <1>1, <1>2, <1>3, <1>4, <1>5, <1>6, <1>7, <1>8, <1>9, <1>10, <1>11, <1>12, Zenon DEF Next, Recovery

-----------------------------------------------------------------------------
(* The theorems                                                            *)

\* The invariant is inductive.
LEMMA InductiveStep == IInv /\ [Next]_vars => IInv'
  BY TypeStep, ControlStep, LinkStep, ImageStep, Zenon DEF IInv

\* It holds in every state of publication and recovery.
LEMMA Inductive == Spec => []IInv
<1>1. Init => IInv
  BY InitIInv
<1>2. IInv /\ [Next]_vars => IInv'
  BY InductiveStep
<1> QED
  BY <1>1, <1>2, PTL DEF Spec

\* Type correctness of the journal's state, for every number of files.
THEOREM JournalTypeCorrect == Spec => []TypeOK
<1>1. IInv => TypeOK
  BY DEF IInv
<1> QED
  BY <1>1, Inductive, PTL

\* Whenever a transaction is half applied on disk, the journal holds every
\* pre-image recovery needs and every file carries one of its two images.
THEOREM JournalRecoverable == Spec => []Recoverable
<1>1. IInv => Recoverable
  BY SMTT(20), ImageParts DEF Recoverable
<1> QED
  BY <1>1, Inductive, PTL

\* The steps that write or remove the journal find no half-applied transaction.
LEMMA KeptStep ==
  ASSUME IInv, [Next]_vars, voided' = {}, HalfApplied
  PROVE  jrn' = jrn
<1>1. voided = {}
  BY VoidedGrows
<1> USE DEF disk
<1>2. ASSUME NEW t \in Transactions, BeginTransaction(t) PROVE jrn' = jrn
  BY <1>2 DEF BeginTransaction
<1>3. CASE WriteUncommitted
  BY <1>1, <1>3, ImageParts, Zenon DEF WriteUncommitted, SavedInv
<1>4. CASE WriteCommitted
  BY <1>1, <1>4, ImageParts DEF WriteCommitted, LinkInv, HalfApplied
<1>5. CASE MarkCompleted
  <2>1. jrn.entries = entries
    BY <1>5, PublishingFacts, Zenon DEF MarkCompleted, Publishing
  <2>2. AllPost(jrn.entries)
    BY <1>1, <1>5, <2>1, ImageParts, Zenon DEF MarkCompleted, CompleteInv, AllPost, IsPost
  <2> QED BY <2>2, Zenon DEF HalfApplied
<1>6. CASE RemoveItem \/ RemoveDir
  <2>1. CleanupInv
    BY <1>1, ImageParts, Zenon
  <2> QED
    BY <1>6, <2>1, Zenon DEF RemoveItem, RemoveDir, CleanupInv
<1>7. CASE CheckInput \/ CreateJournalDir \/ WritePreImage \/ PublishCheck
           \/ PublishRename \/ RollbackOpen \/ RollbackWrite
  BY <1>7, Zenon DEF CheckInput, CreateJournalDir, WritePreImage, PublishCheck,
       PublishRename, RollbackOpen, RollbackWrite
<1>8. CASE BeginRecover \/ Recovery \/ OverlookJournal \/ IoError \/ Crash
  BY Zenon, <1>8 DEF BeginRecover, Recovery, InspectJournal, ScanLive, RestoreEntry,
       RestoreWrite, OverlookJournal, IoError, Crash
<1>9. ASSUME NEW f \in Shared, NEW c \in Content, ForeignWrite(f, c) PROVE jrn' = jrn
  BY <1>9 DEF ForeignWrite
<1>10. CASE UNCHANGED vars
  BY <1>10 DEF vars
<1> QED
  BY <1>2, <1>3, <1>4, <1>5, <1>6, <1>7, <1>8, <1>9, <1>10, Zenon DEF Next, Publication

-----------------------------------------------------------------------------
(* A file that a restore left torn keeps the journal where it is.          *)

\* Where a file is truncated and not yet written.
Writing == {"rollbackWrite", "restoreWrite"}

\* No image of these entries is that of a torn file.
Untorn(es) == \A i \in DOMAIN es : Sha(Torn) \notin {es[i].pre, es[i].post}

\* As long as nothing has happened, a file is torn only while it is restored.
WholeInv ==
  /\ Untorn(entries)
  /\ jrn # NoJournal => Untorn(jrn.entries)
  /\ \A f \in File : live[f] = Torn => step \in Writing /\ f = entries[idx].file
  /\ step \in Writing => live[entries[idx].file] = Torn

\* File i of the journal is torn, and stands in the way of the call under way.
Blocks(i) ==
  /\ live[jrn.entries[i].file] = Torn
  /\ step \in {"rollback", "rollbackWrite"} => incomplete = "yes" /\ i < idx
  /\ step \in {"restore", "restoreWrite"} =>
       idx <= i /\ scan[i] \notin {jrn.entries[i].pre, jrn.entries[i].post}
  /\ step = "restoreWrite" => idx < i

\* Once a restore was cut off, the places that write or remove the journal are
\* out of reach.
TornInv ==
  /\ jrn # NoJournal /\ jrn.phase = "committed" /\ Untorn(jrn.entries)
  /\ step \in {"idle", "cas", "mkdir", "rollback", "rollbackWrite", "recover", "scan",
               "restore", "restoreWrite"}
  /\ \E i \in DOMAIN jrn.entries : Blocks(i)

\* Both regimes on top of the inductive invariant.
JournalInv == IInv /\ (voided = {} => WholeInv) /\ (voided = {"torn"} => TornInv)

\* A journal with a torn file is half applied.
LEMMA TornIsHalf == TornInv => HalfApplied
  BY Zenon DEF TornInv, Blocks, Untorn, HalfApplied, AllPost, AllPre

\* A step that writes no file, and from and to places where none is written.
LEMMA WholeKept ==
  ASSUME WholeInv, live' = live, step \notin Writing, step' \notin Writing,
         entries' \in {entries, <<>>} \/ (jrn # NoJournal /\ entries' = jrn.entries),
         jrn' \in {jrn, NoJournal} \/ jrn'.entries = entries
  PROVE  WholeInv'
<1>1. Untorn(<<>>)
  BY DEF Untorn
<1>2. Untorn(entries)'
  BY Zenon, <1>1 DEF WholeInv, Untorn
<1>3. (jrn # NoJournal => Untorn(jrn.entries))'
  BY Zenon DEF WholeInv, Untorn
<1> QED
  BY Zenon, <1>2, <1>3 DEF WholeInv

\* The file at idx gets what is not torn, and the step leads to no writing.
LEMMA WholeWritten ==
  ASSUME IInv, WholeInv, NEW f \in File, NEW c, c # Torn, live' = [live EXCEPT ![f] = c],
         step \in Writing => f = entries[idx].file, step' \notin Writing,
         entries' \in {entries, <<>>}, jrn' = jrn
  PROVE  WholeInv'
<1>1. live \in [File -> Bytes]
  BY Zenon DEF IInv, TypeOK
<1>2. Untorn(<<>>)
  BY DEF Untorn
<1>3. Untorn(entries)' /\ (jrn # NoJournal => Untorn(jrn.entries))'
  BY Zenon, <1>2 DEF WholeInv, Untorn
<1>4. ASSUME NEW g \in File PROVE live'[g] # Torn
  BY Zenon, <1>1 DEF WholeInv
<1> QED
  BY Zenon, <1>3, <1>4 DEF WholeInv

\* The file at idx is truncated.
LEMMA WholeOpened ==
  ASSUME IInv, WholeInv, step \notin Writing, entries[idx].file \in File,
         live' = [live EXCEPT ![entries[idx].file] = Torn], step' \in Writing,
         entries' = entries, idx' = idx, jrn' = jrn
  PROVE  WholeInv'
<1>1. live \in [File -> Bytes]
  BY Zenon DEF IInv, TypeOK
<1>2. Untorn(entries)' /\ (jrn # NoJournal => Untorn(jrn.entries))'
  BY Zenon DEF WholeInv, Untorn
<1>3. live'[entries[idx].file] = Torn
  BY Zenon, <1>1
<1>4. ASSUME NEW g \in File, live'[g] = Torn PROVE g = entries[idx].file
  BY Zenon, <1>1, <1>4 DEF WholeInv
<1> QED
  BY Zenon, <1>2, <1>3, <1>4 DEF WholeInv

\* As long as nothing has happened, files stay whole.
LEMMA WholeStep ==
  ASSUME IInv, WholeInv, [Next]_vars, voided = {}, voided' = {}
  PROVE  WholeInv'
<1> USE DEF disk, local
<1>1. CASE \/ \E t \in Transactions : BeginTransaction(t)
           \/ BeginRecover \/ CheckInput \/ CreateJournalDir \/ WriteUncommitted
           \/ WriteCommitted \/ PublishCheck \/ MarkCompleted
  <2>1. /\ live' = live /\ step \notin Writing /\ step' \notin Writing /\ entries' \in {entries, <<>>}
        /\ jrn' = jrn \/ \E ph : jrn' = [phase |-> ph, entries |-> entries]
    BY <1>1, ZenonT(30) DEF BeginTransaction, BeginRecover, CheckInput, CreateJournalDir, WriteUncommitted,
         WriteCommitted, PublishCheck, StartRollback, MarkCompleted, WriteJournal, Loop, Return, NoLocals, Writing
  <2>2. jrn' \in {jrn, NoJournal} \/ jrn'.entries = entries
    BY <2>1
  <2> QED
    BY Zenon, <2>1, <2>2, WholeKept
<1>2. CASE RemoveItem \/ RemoveDir \/ InspectJournal \/ ScanLive \/ OverlookJournal
  <2>1. /\ live' = live /\ step \notin Writing /\ step' \notin Writing
        /\ entries' \in {entries, <<>>} \/ (jrn # NoJournal /\ entries' = jrn.entries)
        /\ jrn' \in {jrn, NoJournal}
    BY <1>2, ZenonT(30) DEF RemoveItem, RemoveDir, InspectJournal, ScanLive, OverlookJournal, Return, NoLocals, Writing
  <2> QED
    BY Zenon, <2>1, WholeKept
<1>3. CASE WritePreImage
  <2> DEFINE new == [file |-> txn[idx].file, pre |-> Sha(live[txn[idx].file]),
                     post |-> Sha(txn[idx].content)]
  <2>1. idx \in 1..Len(txn) /\ txn[idx].file \in File /\ txn[idx].content \in Content
    <3>1. step = "preimage" /\ TypeOK /\ ControlInv
      BY Zenon, <1>3 DEF WritePreImage, IInv
    <3>2. txn \in Transactions /\ idx <= Len(txn) /\ idx \in 1..MaxFiles
      BY Zenon, <3>1 DEF ControlInv, TypeOK
    <3>3. idx \in 1..Len(txn)
      BY SMTT(30), <3>2, TransactionFacts
    <3> QED
      BY Zenon, <3>2, <3>3, TransactionFacts
  <2>2. /\ entries' = Append(entries, new) /\ live' = live /\ jrn' = jrn
        /\ step \notin Writing /\ step' \notin Writing
    BY Zenon, <1>3 DEF WritePreImage, Loop, Writing
  <2>3. Torn \notin {live[txn[idx].file], txn[idx].content}
    BY Zenon, <2>1, <2>2, JournalAssumption DEF WholeInv
  <2>4. Sha(Torn) \notin {new.pre, new.post}
    BY <2>3, ShaFacts
  <2>5. entries \in Seq(JournalEntry) /\ DOMAIN entries = 1..Len(entries) /\ Len(entries) \in Nat
    BY EntryFacts DEF IInv, TypeOK
  <2> HIDE DEF new
  <2>6. \A i \in DOMAIN entries' : entries'[i] = new \/ (i \in DOMAIN entries /\ entries'[i] = entries[i])
    BY SMTT(30), <2>2, <2>5
  <2>7. Untorn(entries)'
    BY Zenon, <2>4, <2>6 DEF Untorn, WholeInv
  <2> QED
    BY Zenon, <2>2, <2>7 DEF WholeInv
<1>4. CASE PublishRename
  <2>1. txn[idx].file \in File /\ txn[idx].content # Torn
    <3>1. idx \in DOMAIN entries /\ entries[idx].file \in File /\ entries[idx].file = txn[idx].file
          /\ txn[idx].content \in Content
      BY Zenon, <1>4, PublishingFacts DEF PublishRename, Publishing
    <3> QED
      BY Zenon, <3>1, JournalAssumption
  <2>2. /\ live' = [live EXCEPT ![txn[idx].file] = txn[idx].content]
        /\ step \notin Writing /\ step' \notin Writing /\ entries' = entries /\ jrn' = jrn
    BY Zenon, <1>4 DEF PublishRename, Loop, Writing
  <2> QED
    BY Zenon, <2>1, <2>2, WholeWritten
<1>5. CASE RollbackOpen
  <2>1. entries[idx].file = txn[idx].file /\ entries[idx].file \in File
    BY Zenon, <1>5, PublishingFacts DEF RollbackOpen, Publishing
  <2>2. CASE blobs[idx] # NoBlob
    <3>1. /\ live' = [live EXCEPT ![txn[idx].file] = Torn] /\ step \notin Writing /\ step' \in Writing
          /\ entries' = entries /\ idx' = idx /\ jrn' = jrn
      BY Zenon, <1>5, <2>2 DEF RollbackOpen, Writing
    <3> QED
      BY Zenon, <2>1, <3>1, WholeOpened
  <2>3. CASE ~(blobs[idx] # NoBlob)
    <3>1. /\ live' = live /\ step \notin Writing /\ step' \notin Writing
          /\ entries' \in {entries, <<>>} /\ jrn' = jrn
      BY Zenon, <1>5, <2>3 DEF RollbackOpen, AfterRollback, Return, NoLocals, Writing
    <3> QED
      BY Zenon, <3>1, WholeKept
  <2> QED
    BY Zenon, <2>2, <2>3
<1>6. CASE RollbackWrite
  <2>1. /\ entries[idx].file = txn[idx].file /\ entries[idx].file \in File /\ idx \in DOMAIN entries
        /\ Sha(blobs[idx]) = entries[idx].pre
    BY Zenon, <1>6, PublishingFacts DEF RollbackWrite, Publishing
  <2>2. blobs[idx] # Torn
    BY Zenon, <2>1 DEF WholeInv, Untorn
  <2>3. /\ live' = [live EXCEPT ![txn[idx].file] = blobs[idx]] /\ step' \notin Writing
        /\ entries' \in {entries, <<>>} /\ jrn' = jrn
    BY Zenon, <1>6 DEF RollbackWrite, AfterRollback, Return, NoLocals, Writing
  <2> QED
    BY Zenon, <2>1, <2>2, <2>3, WholeWritten
<1>7. CASE RestoreEntry
  <2>1. entries[idx].file \in File /\ step \notin Writing
    <3>1. step = "restore"
      BY Zenon, <1>7 DEF RestoreEntry
    <3> QED
      BY Zenon, <3>1, RecoveringFacts DEF Recovering, Writing
  <2>2. CASE step' = "restoreWrite"
    <3>1. /\ live' = [live EXCEPT ![entries[idx].file] = Torn] /\ entries' = entries /\ idx' = idx /\ jrn' = jrn
      BY Zenon, <1>7, <2>2 DEF RestoreEntry, AfterRestore, Loop, Return
    <3> QED
      BY Zenon, <2>1, <2>2, <3>1, WholeOpened DEF Writing
  <2>3. CASE step' # "restoreWrite"
    <3>1. live' = live /\ step' \notin Writing /\ entries' \in {entries, <<>>} /\ jrn' = jrn
      BY Zenon, <1>7, <2>3 DEF RestoreEntry, AfterRestore, Loop, Return, NoLocals, Writing
    <3> QED
      BY Zenon, <2>1, <3>1, WholeKept
  <2> QED
    BY Zenon, <2>2, <2>3
<1>8. CASE RestoreWrite
  <2>1. entries[idx].file \in File /\ idx \in DOMAIN entries
    BY Zenon, <1>8, RecoveringFacts DEF RestoreWrite, Recovering
  <2>2. Sha(blobs[idx]) = entries[idx].pre
    BY Zenon, <1>8, ImageParts DEF RestoreWrite, RestoreInv
  <2>3. blobs[idx] # Torn
    BY Zenon, <2>1, <2>2 DEF WholeInv, Untorn
  <2>4. /\ live' = [live EXCEPT ![entries[idx].file] = blobs[idx]] /\ step' \notin Writing
        /\ entries' = entries /\ jrn' = jrn
    BY Zenon, <1>8 DEF RestoreWrite, AfterRestore, Loop, Writing
  <2> QED
    BY Zenon, <2>1, <2>3, <2>4, WholeWritten
<1>9. CASE IoError \/ Crash
  <2>1. live' = live /\ jrn' = jrn /\ step \notin Writing
    BY <1>9 DEF IoError, Crash, Tear, Writing
  <2>2. step' \notin Writing /\ entries' \in {entries, <<>>}
    BY Zenon, <1>9, <2>1 DEF IoError, Crash, StartRollback, AfterRollback, Return, NoLocals, Writing
  <2> QED
    BY Zenon, <2>1, <2>2, WholeKept
<1>10. ASSUME NEW f \in Shared, NEW c \in Content, ForeignWrite(f, c) PROVE WholeInv'
  <2>1. /\ f \in File /\ c # Torn /\ f \notin Files(entries) /\ step' = step /\ entries' = entries /\ idx' = idx
        /\ jrn' = jrn /\ live' = [live EXCEPT ![f] = c] /\ live \in [File -> Bytes]
    BY Zenon, <1>10, JournalAssumption DEF ForeignWrite, Contested, IInv, TypeOK
  <2>2. step \in Writing => idx \in DOMAIN entries
    BY Zenon, PublishingFacts, RecoveringFacts DEF Writing, Publishing, Recovering
  <2>3. step \in Writing => f # entries[idx].file
    BY Zenon, <2>1, <2>2 DEF Files
  <2>4. \A g \in File : live'[g] = IF g = f THEN c ELSE live[g]
    BY Zenon, <2>1
  <2>5. step \in Writing => entries[idx].file \in File
    BY Zenon, <2>2, EntryFacts DEF IInv
  <2> QED
    BY Zenon, <2>1, <2>3, <2>4, <2>5 DEF WholeInv, Untorn
<1>11. CASE UNCHANGED vars
  BY Zenon, <1>11 DEF vars, WholeInv, Untorn
<1> QED
  BY ZenonT(30), <1>1, <1>2, <1>3, <1>4, <1>5, <1>6, <1>7, <1>8, <1>9, <1>10, <1>11 DEF Next, Publication, Recovery

\* Only a restore that is cut off tears a file.
LEMMA TornBegins ==
  ASSUME IInv, WholeInv, Next, voided = {}, voided' = {"torn"}
  PROVE  TornInv' /\ jrn' = jrn
<1> USE DEF disk, local
<1>1. (IoError \/ Crash) /\ step \in Writing
  <2>1. ASSUME NEW t \in Transactions, BeginTransaction(t) PROVE FALSE
    BY Zenon, <2>1 DEF BeginTransaction
  <2>2. ~Publication /\ ~BeginRecover
    BY ZenonT(30) DEF Publication, BeginRecover, CheckInput, CreateJournalDir, WritePreImage,
         WriteUncommitted, WriteCommitted, PublishCheck, PublishRename, RollbackOpen,
         RollbackWrite, MarkCompleted, RemoveItem, RemoveDir
  <2>3. ~Recovery /\ ~OverlookJournal
    BY ZenonT(30) DEF Recovery, InspectJournal, ScanLive, RestoreEntry, RestoreWrite, OverlookJournal
  <2>4. ASSUME NEW f \in Shared, NEW c \in Content, ForeignWrite(f, c) PROVE FALSE
    BY Zenon, <2>4 DEF ForeignWrite
  <2>5. IoError \/ Crash
    BY Zenon, <2>1, <2>2, <2>3, <2>4 DEF Next
  <2>6. (IoError \/ Crash) /\ step \notin Writing => voided' = voided
    BY Zenon DEF IoError, Crash, Tear, Writing
  <2> QED
    BY Zenon, <2>5, <2>6
<1>2. live' = live /\ jrn' = jrn
  BY Zenon, <1>1 DEF IoError, Crash
<1>3. /\ jrn # NoJournal /\ jrn.phase = "committed" /\ jrn.entries = entries
      /\ idx \in DOMAIN entries /\ live[entries[idx].file] = Torn /\ Untorn(jrn.entries)
  BY Zenon, <1>1, PublishingFacts, RecoveringFacts DEF Writing, Publishing, Recovering, WholeInv
<1>4. idx \in Nat /\ idx < idx + 1
  BY SMTT(30), JournalAssumption DEF IInv, TypeOK
<1>5. \/ step' = "idle"
      \/ step' = "rollback" /\ incomplete' = "yes" /\ idx' = idx + 1
  BY Zenon, <1>1 DEF IoError, Crash, AfterRollback, Return, Writing
<1>6. PICK n \in DOMAIN entries : n = idx
  BY Zenon, <1>3
<1>7. Blocks(n)'
  BY Zenon, <1>2, <1>3, <1>4, <1>5, <1>6 DEF Blocks
<1> QED
  BY Zenon, <1>2, <1>3, <1>5, <1>7 DEF TornInv, Untorn

\* A step that writes another file, or none, and leads to no new loop.
LEMMA TornKept ==
  ASSUME TornInv, jrn' = jrn, NEW i \in DOMAIN jrn.entries, Blocks(i),
         live'[jrn.entries[i].file] = live[jrn.entries[i].file],
         \/ step' \in {"idle", "cas", "mkdir", "recover", "scan"}
         \/ step' \in {"rollback", "rollbackWrite"} /\ incomplete' = "yes" /\ i < idx'
         \/ step' = "restore" /\ idx' <= i /\ scan'[i] \notin {jrn.entries[i].pre, jrn.entries[i].post}
         \/ step' = "restoreWrite" /\ idx' <= i /\ idx' < i
               /\ scan'[i] \notin {jrn.entries[i].pre, jrn.entries[i].post}
  PROVE  TornInv' /\ jrn' = jrn
<1>1. Blocks(i)'
  BY Zenon DEF Blocks
<1> QED
  BY Zenon, <1>1 DEF TornInv, Untorn

\* Whatever is called then, the torn file stops it before it touches the journal.
LEMMA TornStep ==
  ASSUME IInv, TornInv, Next, voided = {"torn"}, voided' = {"torn"}
  PROVE  TornInv' /\ jrn' = jrn
<1> USE DEF disk, local
<1>1. PICK i \in DOMAIN jrn.entries : Blocks(i)
  BY Zenon DEF TornInv
<1>2. /\ live \in [File -> Bytes] /\ jrn # NoJournal /\ jrn.phase = "committed" /\ HalfApplied
      /\ live[jrn.entries[i].file] = Torn /\ Sha(Torn) \notin {jrn.entries[i].pre, jrn.entries[i].post}
  BY Zenon, <1>1, TornIsHalf DEF IInv, TypeOK, TornInv, Blocks, Untorn
<1>3. /\ \A n \in DOMAIN jrn.entries : jrn.entries[n].file = jrn.entries[i].file => n = i
      /\ jrn.entries[i].file \in File /\ jrn.entries[i].pre \in Hash /\ jrn.entries[i].post \in Hash
      /\ i \in Nat /\ idx \in Nat /\ i >= 1 /\ i <= Len(jrn.entries) /\ Len(jrn.entries) \in Nat
  <2>1. /\ Distinct(jrn.entries) /\ DOMAIN jrn.entries = 1..Len(jrn.entries) /\ Len(jrn.entries) \in 1..MaxFiles
        /\ \A n \in DOMAIN jrn.entries : /\ jrn.entries[n].file \in File
                                          /\ jrn.entries[n].pre \in Hash
                                          /\ jrn.entries[n].post \in Hash
    BY Zenon, <1>2, JournalFacts DEF IInv
  <2>2. idx \in 1..MaxFiles
    BY Zenon DEF IInv, TypeOK
  <2>3. i \in Nat /\ idx \in Nat /\ i >= 1 /\ i <= Len(jrn.entries) /\ Len(jrn.entries) \in Nat
    BY SMTT(30), <2>1, <2>2, JournalAssumption
  <2> QED
    BY Zenon, <2>1, <2>3 DEF Distinct
<1>3a. ASSUME NEW n \in DOMAIN jrn.entries, n # i, NEW c, live' = [live EXCEPT ![jrn.entries[n].file] = c]
       PROVE live'[jrn.entries[i].file] = live[jrn.entries[i].file]
  <2>1. jrn.entries[n].file # jrn.entries[i].file /\ jrn.entries[i].file \in File
    BY Zenon, <1>1, <1>3, <1>3a
  <2> QED
    BY Zenon, <1>2, <1>3a, <2>1
<1>3b. {"overlapped", "overlooked", "contested"} \cap voided' = {}
  BY Zenon
<1>4. step \in Recovering => jrn.entries = entries /\ idx \in DOMAIN entries
  BY Zenon, RecoveringFacts
<1>5. step \in {"rollback", "rollbackWrite"} =>
        /\ jrn.entries = entries /\ idx \in DOMAIN entries /\ entries[idx].file = txn[idx].file
        /\ incomplete = "yes" /\ i < idx /\ i # idx
  <2>1. i < idx => i # idx
    BY SMTT(30), <1>3
  <2> QED
    BY Zenon, <1>1, <2>1, PublishingFacts DEF Publishing, Blocks
<1>6. i < idx => i < idx + 1
  BY SMTT(30), <1>3
<1>7. ASSUME \E t \in Transactions : BeginTransaction(t) PROVE TornInv' /\ jrn' = jrn
  BY Zenon, <1>1, <1>7, TornKept DEF BeginTransaction
<1>8. ASSUME BeginRecover \/ CheckInput \/ Crash PROVE TornInv' /\ jrn' = jrn
  <2>1. jrn' = jrn /\ live' = live /\ step' \in {"idle", "cas", "mkdir", "recover"}
    BY Zenon, <1>8 DEF BeginRecover, CheckInput, Crash, Loop, Return
  <2> QED
    BY Zenon, <1>1, <2>1, TornKept
<1>9. ~CreateJournalDir
  BY Zenon, <1>2, <1>3b DEF CreateJournalDir
<1>10. ASSUME step \in {"rollback", "rollbackWrite"}, AfterRollback("yes"), jrn' = jrn,
              live'[jrn.entries[i].file] = live[jrn.entries[i].file]
       PROVE TornInv' /\ jrn' = jrn
  <2>1. step' = "idle" \/ (step' = "rollback" /\ incomplete' = "yes" /\ idx' = idx + 1)
    BY Zenon, <1>10 DEF AfterRollback, Return
  <2> QED
    BY Zenon, <1>1, <1>5, <1>6, <1>10, <2>1, TornKept
<1>11. ASSUME RollbackOpen PROVE TornInv' /\ jrn' = jrn
  <2>1. step = "rollback" /\ jrn' = jrn
    BY Zenon, <1>11 DEF RollbackOpen
  <2>2. CASE blobs[idx] # NoBlob
    <3>1. /\ live' = [live EXCEPT ![txn[idx].file] = Torn] /\ step' = "rollbackWrite"
          /\ incomplete' = incomplete /\ idx' = idx
      BY Zenon, <1>11, <2>2 DEF RollbackOpen
    <3>2. live'[jrn.entries[i].file] = live[jrn.entries[i].file]
      BY Zenon, <1>3a, <1>5, <2>1, <3>1
    <3> QED
      BY Zenon, <1>1, <1>5, <2>1, <3>1, <3>2, TornKept
  <2>3. CASE ~(blobs[idx] # NoBlob)
    BY Zenon, <1>10, <1>11, <2>1, <2>3 DEF RollbackOpen
  <2> QED
    BY Zenon, <2>2, <2>3
<1>12. ASSUME RollbackWrite PROVE TornInv' /\ jrn' = jrn
  <2>1. /\ step = "rollbackWrite" /\ jrn' = jrn /\ live' = [live EXCEPT ![txn[idx].file] = blobs[idx]]
        /\ AfterRollback(incomplete)
    BY Zenon, <1>12 DEF RollbackWrite
  <2>2. live'[jrn.entries[i].file] = live[jrn.entries[i].file] /\ AfterRollback("yes")
    BY Zenon, <1>3a, <1>5, <2>1
  <2> QED
    BY Zenon, <1>10, <2>1, <2>2
<1>13. ASSUME InspectJournal \/ OverlookJournal PROVE TornInv' /\ jrn' = jrn
  <2>1. jrn' = jrn /\ live' = live /\ step' \in {"idle", "scan"}
    BY Zenon, <1>2, <1>3b, <1>13 DEF InspectJournal, OverlookJournal, Return
  <2> QED
    BY Zenon, <1>1, <2>1, TornKept
<1>14. ASSUME ScanLive PROVE TornInv' /\ jrn' = jrn
  <2>1. step = "scan" /\ jrn' = jrn /\ live' = live /\ idx' = idx /\ jrn.entries = entries
    BY Zenon, <1>4, <1>14 DEF ScanLive, Recovering
  <2>2. idx = 1 /\ idx <= i
    <3>1. idx = 1
      BY Zenon, <2>1 DEF IInv, ControlInv
    <3> QED
      BY SMTT(30), <1>3, <3>1
  <2>3. scan'[i] \in {Unread, Sha(Torn)}
    BY Zenon, <1>1, <1>2, <1>14, <2>1 DEF ScanLive
  <2>4. scan'[i] \notin {jrn.entries[i].pre, jrn.entries[i].post}
    BY Zenon, <1>2, <1>3, <2>3, ShaFacts
  <2>5. step' = "restore"
    BY Zenon, <1>1, <1>14, <2>1, <2>4 DEF ScanLive
  <2> QED
    BY Zenon, <1>1, <2>1, <2>2, <2>4, <2>5, TornKept
<1>15. ASSUME step \in {"restore", "restoreWrite"}, idx # i, AfterRestore, jrn' = jrn,
              live'[jrn.entries[i].file] = live[jrn.entries[i].file]
       PROVE TornInv' /\ jrn' = jrn
  <2>1. idx <= i /\ scan[i] \notin {jrn.entries[i].pre, jrn.entries[i].post} /\ jrn.entries = entries
    BY Zenon, <1>1, <1>4, <1>15 DEF Blocks, Recovering
  <2>2. idx < Len(entries) /\ idx + 1 <= i
    BY SMTT(30), <1>3, <1>15, <2>1
  <2>3. step' = "restore" /\ idx' = idx + 1 /\ scan' = scan
    BY Zenon, <1>15, <2>2 DEF AfterRestore, Loop
  <2> QED
    BY Zenon, <1>1, <1>15, <2>1, <2>2, <2>3, TornKept
<1>16. ASSUME RestoreEntry PROVE TornInv' /\ jrn' = jrn
  <2>1. /\ step = "restore" /\ jrn' = jrn /\ jrn.entries = entries /\ idx \in DOMAIN entries /\ idx <= i
        /\ scan[i] \notin {jrn.entries[i].pre, jrn.entries[i].post}
    BY Zenon, <1>1, <1>4, <1>16 DEF RestoreEntry, Recovering, Blocks
  <2>2. CASE scan[idx] = entries[idx].pre /\ AfterRestore /\ UNCHANGED live
    <3>1. idx # i
      BY Zenon, <2>1, <2>2
    <3> QED
      BY Zenon, <1>15, <2>1, <2>2, <3>1
  <2>3. CASE (Return("refused") \/ Return("error")) /\ UNCHANGED live
    <3>1. step' = "idle"
      BY Zenon, <2>3 DEF Return
    <3> QED
      BY Zenon, <1>1, <2>1, <2>3, <3>1, TornKept
  <2>4. CASE /\ scan[idx] = entries[idx].post /\ live' = [live EXCEPT ![entries[idx].file] = Torn]
             /\ step' = "restoreWrite" /\ UNCHANGED <<local, result>>
    <3>1. idx # i
      BY Zenon, <2>1, <2>4
    <3>2. idx < i
      BY SMTT(30), <1>3, <2>1, <3>1
    <3>3. live'[jrn.entries[i].file] = live[jrn.entries[i].file]
      BY Zenon, <1>3a, <2>1, <2>4, <3>1
    <3>4. idx' = idx /\ scan' = scan
      BY Zenon, <2>4
    <3> QED
      BY Zenon, <1>1, <2>1, <2>4, <3>2, <3>3, <3>4, TornKept
  <2> QED
    BY Zenon, <1>16, <2>2, <2>3, <2>4 DEF RestoreEntry
<1>17. ASSUME RestoreWrite PROVE TornInv' /\ jrn' = jrn
  <2>1. /\ step = "restoreWrite" /\ jrn' = jrn /\ jrn.entries = entries /\ idx \in DOMAIN entries /\ idx < i
        /\ AfterRestore /\ live' = [live EXCEPT ![entries[idx].file] = blobs[idx]]
    BY Zenon, <1>1, <1>4, <1>17 DEF RestoreWrite, Recovering, Blocks
  <2>2. idx # i
    BY SMTT(30), <1>3, <2>1
  <2>3. live'[jrn.entries[i].file] = live[jrn.entries[i].file]
    BY Zenon, <1>3a, <2>1, <2>2
  <2> QED
    BY Zenon, <1>15, <2>1, <2>2, <2>3
<1>18. ASSUME IoError PROVE TornInv' /\ jrn' = jrn
  <2>1. jrn' = jrn /\ live' = live
    BY Zenon, <1>18 DEF IoError
  <2>2. CASE step' = "idle"
    BY Zenon, <1>1, <2>1, <2>2, TornKept
  <2>3. CASE step \in {"rollback", "rollbackWrite"} /\ AfterRollback("yes")
    BY Zenon, <1>10, <2>1, <2>3
  <2>4. step \notin {"publish", "rename", "complete", "cleanup"}
    BY Zenon DEF TornInv
  <2> QED
    BY Zenon, <1>18, <2>2, <2>3, <2>4 DEF IoError, Return
<1>19. ASSUME NEW f \in Shared, NEW c \in Content, ForeignWrite(f, c) PROVE TornInv' /\ jrn' = jrn
  <2>1. /\ f \notin Contested /\ live' = [live EXCEPT ![f] = c] /\ jrn' = jrn /\ step' = step /\ idx' = idx
        /\ incomplete' = incomplete /\ scan' = scan
    BY Zenon, <1>3b, <1>19 DEF ForeignWrite
  <2>2. f # jrn.entries[i].file
    BY Zenon, <1>1, <1>2, <2>1 DEF Contested, Files
  <2>3. live'[jrn.entries[i].file] = live[jrn.entries[i].file]
    <3>1. jrn.entries[i].file \in File
      BY Zenon, <1>1, <1>3
    <3>2. live \in [File -> Bytes] /\ live' = [live EXCEPT ![f] = c]
      BY Zenon, <1>2, <2>1
    <3> QED
      BY SMTT(30), <2>2, <3>1, <3>2
  <2>4. Blocks(i)'
    BY Zenon, <1>1, <2>1, <2>3 DEF Blocks
  <2> QED
    BY Zenon, <1>1, <2>1, <2>4 DEF TornInv, Untorn
<1>20. ~(WritePreImage \/ WriteUncommitted \/ WriteCommitted \/ PublishCheck \/ PublishRename
         \/ MarkCompleted \/ RemoveItem \/ RemoveDir)
  BY Zenon DEF TornInv, WritePreImage, WriteUncommitted, WriteCommitted, PublishCheck, PublishRename,
       MarkCompleted, RemoveItem, RemoveDir
<1> QED
  BY ZenonT(30), <1>7, <1>8, <1>9, <1>11, <1>12, <1>13, <1>14, <1>16, <1>17, <1>18, <1>19, <1>20
     DEF Next, Publication, Recovery

\* The invariant of both regimes is inductive.
LEMMA JournalInvStep == JournalInv /\ [Next]_vars => JournalInv'
<1> SUFFICES ASSUME JournalInv, [Next]_vars PROVE JournalInv'
  OBVIOUS
<1>1. IInv /\ IInv' /\ voided \subseteq voided'
  BY Zenon, InductiveStep, VoidedGrows DEF JournalInv
<1>2. ASSUME voided' = {} PROVE WholeInv'
  <2>1. voided = {}
    BY Zenon, <1>1, <1>2
  <2> QED
    BY Zenon, <1>1, <1>2, <2>1, WholeStep DEF JournalInv
<1>3. ASSUME voided' = {"torn"} PROVE TornInv'
  <2>1. voided = {} \/ voided = {"torn"}
    BY Zenon, <1>1, <1>3
  <2>2. CASE UNCHANGED vars
    <3>1. voided = {"torn"}
      BY Zenon, <1>3, <2>2 DEF vars
    <3>2. TornInv
      BY Zenon, <3>1 DEF JournalInv
    <3> QED
      BY Zenon, <2>2, <3>2 DEF vars, TornInv, Blocks, Untorn
  <2>3. CASE Next
    BY Zenon, <1>1, <1>3, <2>1, <2>3, TornBegins, TornStep DEF JournalInv
  <2> QED
    BY Zenon, <2>2, <2>3
<1> QED
  BY Zenon, <1>1, <1>2, <1>3 DEF JournalInv

\* Crashes and failed calls, also ones that leave a file torn, never take the
\* journal of a half-applied transaction away; a transaction published over it,
\* a failed lookup of journal.json, a foreign write and a misread file are not
\* covered (publish_journal_locked, recover_with_report).
THEOREM JournalKept == Spec => JournalOutlivesHalfApplied
<1>1. Init => JournalInv
  <2> SUFFICES ASSUME Init PROVE JournalInv
    OBVIOUS
  <2>1. /\ voided = {} /\ entries = <<>> /\ jrn = NoJournal /\ step = "idle"
        /\ \A f \in File : live[f] # Torn
    BY JournalAssumption DEF Init
  <2>2. Untorn(entries) /\ {} # {"torn"}
    BY <2>1 DEF Untorn
  <2> QED
    BY Zenon, <2>1, <2>2, InitIInv DEF JournalInv, WholeInv, Writing
<1>2. JournalInv /\ [Next]_vars => JournalInv'
  BY JournalInvStep
<1>3. JournalInv /\ [Next]_vars => [voided' \subseteq {"torn"} /\ HalfApplied => jrn' = jrn]_vars
  <2> SUFFICES ASSUME JournalInv, Next, voided' \subseteq {"torn"}, HalfApplied PROVE jrn' = jrn
    BY Zenon
  <2>1. IInv /\ voided \subseteq voided'
    BY Zenon, VoidedGrows DEF JournalInv
  <2>2. CASE voided' = {}
    BY Zenon, <2>1, <2>2, KeptStep
  <2>3. CASE voided' = {"torn"} /\ voided = {}
    BY Zenon, <2>1, <2>3, TornBegins DEF JournalInv
  <2>4. CASE voided' = {"torn"} /\ voided = {"torn"}
    BY Zenon, <2>1, <2>4, TornStep DEF JournalInv
  <2> QED
    BY Zenon, <2>1, <2>2, <2>3, <2>4
<1> QED
  BY <1>1, <1>2, <1>3, PTL DEF Spec, JournalOutlivesHalfApplied

-----------------------------------------------------------------------------
(* What calls report.                                                      *)

\* The calls that return with a report about every file are at their cleanup.
LEMMA ReportingReturn ==
  ASSUME IInv, Next, step # "idle", step' = "idle",
         result' \in {"ok", "failed", "rolledBack"}
  PROVE  step = "cleanup" /\ result' = result /\ live' = live
<1> USE DEF disk, local
<1>1. CASE Publication
  BY SMTT(20), <1>1 DEF Publication, CheckInput, CreateJournalDir, WritePreImage,
       WriteUncommitted, WriteCommitted, PublishCheck, StartRollback, PublishRename,
       RollbackOpen, RollbackWrite, AfterRollback, MarkCompleted, RemoveItem,
       RemoveDir, Loop, Return
<1>2. CASE Recovery
  BY <1>2, Zenon DEF Recovery, InspectJournal, ScanLive, RestoreEntry, RestoreWrite,
       AfterRestore, Loop, Return
<1>3. CASE OverlookJournal \/ IoError \/ Crash
  BY <1>3, Zenon DEF OverlookJournal, IoError, Crash, StartRollback, AfterRollback, Return
<1>4. ASSUME NEW f \in Shared, NEW c \in Content, ForeignWrite(f, c) PROVE FALSE
  BY <1>4 DEF ForeignWrite
<1>5. ASSUME NEW t \in Transactions, BeginTransaction(t) PROVE FALSE
  BY <1>5 DEF BeginTransaction
<1>6. CASE BeginRecover
  BY <1>6 DEF BeginRecover
<1> QED BY ZenonT(30), <1>1, <1>2, <1>3, <1>4, <1>5, <1>6 DEF Next

\* A call reports what it did: success, failure and completed recovery are true
\* of every file of the transaction.
THEOREM JournalReportsTruly == Spec => ReportIsTrue
<1> DEFINE Report ==
      (step # "idle" /\ step' = "idle" /\ voided' = {}) =>
         /\ result' = "ok" =>
              \A i \in DOMAIN txn : /\ live'[txn[i].file] = txn[i].content
                                    /\ entries[i].pre = txn[i].expected
         /\ result' \in {"failed", "rolledBack"} =>
              \A i \in DOMAIN entries : Sha(live'[entries[i].file]) = entries[i].pre
<1>1. IInv /\ [Next]_vars => [Report]_vars
  <2> SUFFICES ASSUME IInv, Next, step # "idle", step' = "idle", voided' = {},
                      result' \in {"ok", "failed", "rolledBack"}
               PROVE  Report
    OBVIOUS
  <2>1. step = "cleanup" /\ result' = result /\ live' = live
    BY ReportingReturn
  <2>2. voided = {}
    BY VoidedGrows
  <2>3. CleanupInv /\ TypeOK
    BY <2>2, ImageParts, Zenon
  <2>4. result = "ok" =>
          \A i \in DOMAIN txn : /\ live[txn[i].file] = txn[i].content
                                /\ entries[i].pre = txn[i].expected
    <3> SUFFICES ASSUME result = "ok"
                 PROVE  \A i \in DOMAIN txn : /\ live[txn[i].file] = txn[i].content
                                              /\ entries[i].pre = txn[i].expected
      OBVIOUS
    <3>1. DOMAIN txn = 1..Len(txn)
      BY <2>3, TransactionFacts DEF TypeOK
    <3>2. DOMAIN txn = DOMAIN entries
      BY <2>1, <2>3, <3>1, EntryFacts, Zenon DEF CleanupInv
    <3> QED
      BY SMTT(30), <2>1, <2>3, <3>2, ShaFacts DEF CleanupInv, IsPost
  <2>5. result \in {"failed", "rolledBack"} =>
          \A i \in DOMAIN entries : Sha(live[entries[i].file]) = entries[i].pre
    BY <2>1, <2>3 DEF CleanupInv, IsPre
  <2> QED BY <2>1, <2>4, <2>5, Zenon
<1> QED
  BY <1>1, Inductive, PTL DEF Spec, ReportIsTrue

\* Crashes and failed calls alone never make recovery refuse over a content.
THEOREM JournalRecoveryNotRefused == Spec => CleanRecoveryNeverRefused
<1> DEFINE Refusal == result' = "refused" /\ result # "refused" /\ voided = {}
                        => scan[idx] = Unread
<1>1. IInv /\ [Next]_vars => [Refusal]_vars
  <2> SUFFICES ASSUME IInv, Next, result' = "refused", result # "refused", voided = {}
               PROVE  scan[idx] = Unread
    OBVIOUS
  <2> USE DEF disk, local
  <2>1. CASE RestoreEntry
    <3>1. step = "restore" /\ idx \in DOMAIN entries /\ idx \in Nat
      BY SMTT(20), <2>1, RecoveringFacts DEF RestoreEntry, Recovering
    <3>2. scan[idx] \notin {entries[idx].pre, entries[idx].post}
      BY <2>1, ZenonT(30) DEF RestoreEntry, AfterRestore, Return
    <3> QED
      BY SMTT(20), <3>1, <3>2, ImageParts DEF RestoreInv, IsPre, IsPost
  <2>2. CASE Publication
    BY <2>2 DEF Publication, CheckInput, CreateJournalDir, WritePreImage,
         WriteUncommitted, WriteCommitted, PublishCheck, StartRollback, PublishRename,
         RollbackOpen, RollbackWrite, AfterRollback, MarkCompleted, RemoveItem,
         RemoveDir, Loop, Return
  <2>3. CASE InspectJournal \/ ScanLive \/ RestoreWrite
    BY ZenonT(20), <2>3 DEF InspectJournal, ScanLive, RestoreWrite, AfterRestore, Return
  <2>4. CASE OverlookJournal \/ IoError \/ Crash
    BY <2>4, Zenon DEF OverlookJournal, IoError, Crash, StartRollback, AfterRollback, Return
  <2>5. ASSUME NEW f \in Shared, NEW c \in Content, ForeignWrite(f, c) PROVE FALSE
    BY <2>5 DEF ForeignWrite
  <2>6. ASSUME NEW t \in Transactions, BeginTransaction(t) PROVE FALSE
    BY <2>6 DEF BeginTransaction
  <2>7. CASE BeginRecover
    BY <2>7 DEF BeginRecover
  <2> QED BY <2>1, <2>2, <2>3, <2>4, <2>5, <2>6, <2>7, Zenon DEF Next, Recovery
<1> QED
  BY <1>1, Inductive, PTL DEF Spec, CleanRecoveryNeverRefused

-----------------------------------------------------------------------------
(* The journal implements the atomic store.                                *)

\* The entry of a file is the one that names it.
LEMMA EntryOfFile ==
  ASSUME IInv, jrn # NoJournal, NEW i \in DOMAIN jrn.entries
  PROVE  EntryOf(jrn.entries[i].file) = jrn.entries[i]
<1>1. Distinct(jrn.entries)
  BY JournalFacts, Zenon
<1>2. \A k \in DOMAIN jrn.entries : jrn.entries[k].file = jrn.entries[i].file => k = i
  BY <1>1, Zenon DEF Distinct
<1>3. (CHOOSE k \in DOMAIN jrn.entries : jrn.entries[k].file = jrn.entries[i].file) = i
  BY <1>2
<1> QED BY <1>3, Zenon DEF EntryOf

\* An undecided transaction has a committed journal.
LEMMA UndecidedJournal ==
  ASSUME IInv, Undecided
  PROVE  jrn # NoJournal /\ jrn.phase = "committed"
<1>1. CASE HalfApplied
  BY <1>1, Zenon DEF HalfApplied
<1>2. CASE step \in {"publish", "rename", "rollback", "rollbackWrite"}
  BY <1>2, PublishingFacts DEF Publishing
<1> QED BY <1>1, <1>2, Zenon DEF Undecided

\* While a transaction is undecided, a step of the holder changes no other
\* file, and not the journal.
LEMMA UndecidedStep ==
  ASSUME IInv, Next, voided' = {}, Undecided,
         ~ \E f \in Shared, c \in Content : ForeignWrite(f, c)
  PROVE  /\ jrn' = jrn
         /\ \A f \in File : f \notin Files(jrn.entries) => live'[f] = live[f]
<1> USE DEF disk, local
<1>1. voided = {}
  BY VoidedGrows, Zenon
<1>2. live \in [File -> Bytes]
  BY DEF IInv, TypeOK
<1>3. jrn' = jrn
  <2>1. CASE HalfApplied
    BY <2>1, KeptStep, Zenon
  <2>2. CASE step \in {"publish", "rename", "rollback", "rollbackWrite"}
    <3>1. PublishCheck \/ PublishRename \/ RollbackOpen \/ RollbackWrite \/ IoError \/ Crash
      BY <2>2, Zenon DEF Next, Publication, Recovery, BeginTransaction, BeginRecover,
           CheckInput, CreateJournalDir, WritePreImage, WriteUncommitted,
           WriteCommitted, MarkCompleted, RemoveItem, RemoveDir, InspectJournal,
           ScanLive, RestoreEntry, RestoreWrite, OverlookJournal
    <3> QED
      BY <3>1, Zenon DEF PublishCheck, PublishRename, RollbackOpen, RollbackWrite, IoError, Crash
  <2> QED BY <2>1, <2>2 DEF Undecided
<1>4. CASE PublishRename \/ RollbackOpen \/ RollbackWrite
  <2>1. /\ jrn.entries = entries /\ idx \in DOMAIN entries
        /\ entries[idx].file = txn[idx].file
    BY <1>4, PublishingFacts, Zenon DEF Publishing, PublishRename, RollbackOpen, RollbackWrite
  <2>2. txn[idx].file \in Files(jrn.entries)
    BY <2>1, Zenon DEF Files
  <2>3. \A f \in File : f # txn[idx].file => live'[f] = live[f]
    BY <1>2, <1>4, Zenon DEF PublishRename, RollbackOpen, RollbackWrite
  <2> QED BY <1>3, <2>2, <2>3
<1>5. CASE RestoreEntry \/ RestoreWrite
  <2>1. jrn.entries = entries /\ idx \in DOMAIN entries
    BY <1>5, RecoveringFacts, Zenon DEF Recovering, RestoreEntry, RestoreWrite
  <2>2. entries[idx].file \in Files(jrn.entries)
    BY <2>1, Zenon DEF Files
  <2>3. \A f \in File : f # entries[idx].file => live'[f] = live[f]
    BY <1>2, <1>5, Zenon DEF RestoreEntry, RestoreWrite
  <2> QED BY <1>3, <2>2, <2>3
<1>6. CASE live' = live
  BY <1>3, <1>6
<1>7. \/ PublishRename \/ RollbackOpen \/ RollbackWrite \/ RestoreEntry \/ RestoreWrite
      \/ live' = live
  <2>1. ASSUME NEW t \in Transactions, BeginTransaction(t) PROVE live' = live
    BY <2>1, Zenon DEF BeginTransaction
  <2>2. CheckInput \/ CreateJournalDir \/ WritePreImage \/ WriteUncommitted \/ WriteCommitted \/ PublishCheck
        => live' = live
    BY Zenon DEF CheckInput, CreateJournalDir, WritePreImage, WriteUncommitted, WriteCommitted, PublishCheck
  <2>3. BeginRecover \/ MarkCompleted \/ RemoveItem \/ RemoveDir \/ InspectJournal \/ ScanLive
        \/ OverlookJournal \/ IoError \/ Crash => live' = live
    BY Zenon DEF BeginRecover, MarkCompleted, RemoveItem, RemoveDir, InspectJournal, ScanLive,
         OverlookJournal, IoError, Crash
  <2> QED
    BY <2>1, <2>2, <2>3, Zenon DEF Next, Publication, Recovery
<1> QED BY <1>4, <1>5, <1>6, <1>7, Zenon

\* While none is, a step of the holder changes no file, and only the commit
\* record makes a transaction undecided.
LEMMA DecidedStep ==
  ASSUME IInv, Next, voided' = {}, ~Undecided,
         ~ \E f \in Shared, c \in Content : ForeignWrite(f, c)
  PROVE  live' = live /\ (Undecided' => WriteCommitted)
<1> USE DEF disk, local
<1>1. voided = {}
  BY VoidedGrows, Zenon
<1>2. live \in [File -> Bytes]
  BY DEF IInv, TypeOK
<1>3. step \notin {"publish", "rename", "rollback", "rollbackWrite"} /\ ~HalfApplied
  BY DEF Undecided
<1>4. CASE RestoreEntry \/ RestoreWrite
  <2>1. /\ idx \in DOMAIN entries /\ entries[idx].file \in File
        /\ entries[idx].pre \in Hash /\ entries[idx].post \in Hash
        /\ step \in {"restore", "restoreWrite"}
    <3>1. step \in {"restore", "restoreWrite"} /\ step \in Recovering
      BY <1>4, Zenon DEF Recovering, RestoreEntry, RestoreWrite
    <3> QED
      BY <3>1, RecoveringFacts, Zenon
  <2>2. IsPre(idx)
    BY <1>1, <1>3, <2>1, RestoringIsHalfApplied, Zenon
  <2>3. live' = live
    <3>1. CASE RestoreEntry
      <4>1. step = "restore"
        BY <3>1, Zenon DEF RestoreEntry
      <4>2. scan[idx] \in {Unread, entries[idx].pre}
        <5>1. RestoreInv
          BY <1>1, ImageParts, Zenon
        <5>2. idx >= idx
          <6>1. idx \in 1..Len(entries) /\ Len(entries) \in Nat
            BY <4>1, RecoveringFacts, Zenon DEF Recovering
          <6> QED BY <6>1
        <5> QED
          BY <2>1, <2>2, <4>1, <5>1, <5>2, Zenon DEF RestoreInv, IsPre
      <4> QED
        BY <2>1, <3>1, <4>2, ShaFacts, Zenon DEF RestoreEntry
    <3>2. CASE RestoreWrite
      <4>1. Sha(blobs[idx]) = entries[idx].pre
        BY <1>1, <3>2, ImageParts, Zenon DEF RestoreWrite, RestoreInv
      <4>2. blobs[idx] = live[entries[idx].file]
        BY <2>2, <4>1, ShaFacts, Zenon DEF IsPre
      <4> QED
        BY <1>2, <2>1, <3>2, <4>2, Zenon DEF RestoreWrite
    <3> QED BY <1>4, <3>1, <3>2
  <2>4. jrn' = jrn /\ step' \in {"restore", "restoreWrite", "cleanup", "idle"}
    BY <1>4, Zenon DEF RestoreEntry, RestoreWrite, AfterRestore, Loop, Return
  <2> QED
    BY <1>3, <2>3, <2>4, HalfAppliedKept, Zenon DEF Undecided
<1>5. CASE WriteUncommitted \/ MarkCompleted
  <2>1. live' = live /\ jrn'.phase # "committed" /\ step' \in {"committed", "cleanup"}
    BY <1>5 DEF WriteUncommitted, MarkCompleted, WriteJournal
  <2> QED BY <2>1, Zenon DEF Undecided, HalfApplied
<1>6. CASE RemoveItem \/ RemoveDir
  <2>1. live' = live /\ jrn' \in {jrn, NoJournal} /\ step' \in {"cleanup", "idle"}
    BY <1>6, Zenon DEF RemoveItem, RemoveDir, Return
  <2>2. CASE jrn' = jrn
    BY <1>3, <2>1, <2>2, HalfAppliedKept, Zenon DEF Undecided
  <2>3. CASE jrn' = NoJournal
    BY <2>1, <2>3, Zenon DEF Undecided, HalfApplied
  <2> QED BY <2>1, <2>2, <2>3, Zenon
<1>7. CASE WriteCommitted
  BY <1>7, Zenon DEF WriteCommitted
<1>8. CASE \/ \E t \in Transactions : BeginTransaction(t)
           \/ BeginRecover \/ CheckInput \/ CreateJournalDir \/ WritePreImage
           \/ InspectJournal \/ ScanLive \/ OverlookJournal \/ IoError \/ Crash
  <2>1. live' = live /\ jrn' = jrn
    BY <1>8, Zenon DEF BeginTransaction, BeginRecover, CheckInput, CreateJournalDir,
         WritePreImage, InspectJournal, ScanLive, OverlookJournal, IoError, Crash
  <2>2. step' \notin {"publish", "rename", "rollback", "rollbackWrite"}
    BY <1>3, <1>8, Zenon DEF BeginTransaction, BeginRecover, CheckInput, CreateJournalDir,
         WritePreImage, InspectJournal, ScanLive, OverlookJournal, IoError, Crash, Loop, Return
  <2> QED
    BY <1>3, <2>1, <2>2, HalfAppliedKept, Zenon DEF Undecided
<1>9. ~(PublishCheck \/ PublishRename \/ RollbackOpen \/ RollbackWrite)
  BY <1>3, Zenon DEF PublishCheck, PublishRename, RollbackOpen, RollbackWrite
<1> QED
  BY <1>4, <1>5, <1>6, <1>7, <1>8, <1>9, Zenon DEF Next, Publication, Recovery

\* The abstract state with and without an undecided transaction.
LEMMA DecidedView ==
  ASSUME voided = {}, ~Undecided
  PROVE  /\ AbstractDb = [f \in File |-> Sha(live[f])]
         /\ AbstractPending = [f \in {} |-> f]
  BY Zenon DEF AbstractDb, AbstractPending, Undecidable

\* The same after a step.
LEMMA DecidedViewNext ==
  ASSUME voided' = {}, ~Undecided'
  PROVE  /\ AbstractDb' = [f \in File |-> Sha(live'[f])]
         /\ AbstractPending' = [f \in {} |-> f]
  BY Zenon DEF AbstractDb, AbstractPending, Undecidable

\* An undecided transaction is pending: its files still have the old content.
LEMMA UndecidedView ==
  ASSUME voided = {}, Undecided
  PROVE  /\ AbstractDb = [f \in File |-> IF f \in Files(jrn.entries)
                                         THEN EntryOf(f).pre ELSE Sha(live[f])]
         /\ AbstractPending = [f \in File \cap Files(jrn.entries) |-> EntryOf(f).post]
<1>1. Undecidable = File \cap Files(jrn.entries)
  BY Zenon DEF Undecidable
<1> QED BY <1>1, Zenon DEF AbstractDb, AbstractPending

\* The same after a step.
LEMMA UndecidedViewNext ==
  ASSUME voided' = {}, Undecided'
  PROVE  /\ AbstractDb' = [f \in File |-> IF f \in Files(jrn.entries)'
                                          THEN EntryOf(f)'.pre ELSE Sha(live'[f])]
         /\ AbstractPending' = [f \in File \cap Files(jrn.entries)' |-> EntryOf(f)'.post]
<1>1. Undecidable' = File \cap Files(jrn.entries)'
  BY Zenon DEF Undecidable
<1> QED BY <1>1, Zenon DEF AbstractDb, AbstractPending

\* The files of a journal are files, and its entries name them.
LEMMA JournalFiles ==
  ASSUME IInv, jrn # NoJournal
  PROVE  /\ Files(jrn.entries) \subseteq File /\ Files(jrn.entries) # {}
         /\ \A f \in Files(jrn.entries) :
              /\ EntryOf(f).pre \in Hash /\ EntryOf(f).post \in Hash
              /\ \E i \in DOMAIN jrn.entries : EntryOf(f) = jrn.entries[i] /\ jrn.entries[i].file = f
<1>1. /\ DOMAIN jrn.entries = 1..Len(jrn.entries) /\ Len(jrn.entries) \in 1..MaxFiles
      /\ \A i \in DOMAIN jrn.entries : /\ jrn.entries[i].file \in File
                                       /\ jrn.entries[i].pre \in Hash
                                       /\ jrn.entries[i].post \in Hash
  BY JournalFacts, Zenon
<1>2. 1 \in DOMAIN jrn.entries
  BY <1>1, JournalAssumption
<1>3. Files(jrn.entries) \subseteq File /\ Files(jrn.entries) # {}
  BY <1>1, <1>2, Zenon DEF Files
<1>4. \A f \in Files(jrn.entries) :
        \E i \in DOMAIN jrn.entries : EntryOf(f) = jrn.entries[i] /\ jrn.entries[i].file = f
  BY EntryOfFile, Zenon DEF Files
<1> QED BY <1>1, <1>3, <1>4, Zenon

\* At the start no transaction is pending.
LEMMA InitAtomic == Init => Atomic!Init
<1> SUFFICES ASSUME Init PROVE Atomic!Init
  OBVIOUS
<1>1. voided = {} /\ ~Undecided
  BY DEF Init, Undecided, HalfApplied
<1>2. \A f \in File : Sha(live[f]) \in Hash
  BY ShaFacts, Zenon DEF Init
<1> QED
  BY <1>1, <1>2, DecidedView, Zenon DEF Atomic!Init, Atomic!Nothing

\* Every step maps to a step of the store or changes nothing it can see.
LEMMA StepAtomic ==
  ASSUME IInv, [Next]_vars
  PROVE  [Atomic!Next]_<<AbstractDb, AbstractPending>>
<1>1. CASE voided' # {}
  BY <1>1 DEF AbstractDb, AbstractPending, Atomic!Next, Atomic!Void, Atomic!Nothing
<1>2. CASE voided' = {} /\ UNCHANGED vars
  <2>1. live' = live /\ jrn' = jrn /\ step' = step /\ voided' = voided
    BY <1>2 DEF vars
  <2>2. Undecided' <=> Undecided
    BY <2>1, HalfAppliedKept, ZenonT(30) DEF Undecided
  <2>3. Undecidable' = Undecidable
    BY <2>1, <2>2 DEF Undecidable, Files
  <2>4. \A f : EntryOf(f)' = EntryOf(f)
    BY <2>1, Zenon DEF EntryOf
  <2>5. AbstractDb' = AbstractDb
    BY <2>1, <2>3, <2>4, Zenon DEF AbstractDb
  <2>6. AbstractPending' = AbstractPending
    BY <2>1, <2>3, <2>4, Zenon DEF AbstractPending
  <2> QED BY <2>5, <2>6, Zenon
<1>3. ASSUME voided' = {}, NEW f \in Shared, NEW c \in Content, ForeignWrite(f, c)
      PROVE  Atomic!Foreign(f, Sha(c)) /\ f \in File /\ Sha(c) \in Hash
  <2>1. voided = {} /\ f \in File /\ Sha(c) \in Hash /\ live \in [File -> Bytes]
    BY <1>3, VoidedGrows, JournalAssumption, ShaFacts, Zenon DEF IInv, TypeOK
  <2>2. /\ f \notin Contested /\ jrn' = jrn /\ step' = step
        /\ live' = [live EXCEPT ![f] = c]
    BY <1>3, <2>1, Zenon DEF ForeignWrite
  <2>3. Undecided => f \notin Files(jrn.entries)
    BY <2>2, UndecidedJournal, Zenon DEF Contested
  <2>4. jrn # NoJournal /\ jrn.phase = "committed" =>
          \A i \in DOMAIN jrn.entries : live'[jrn.entries[i].file] = live[jrn.entries[i].file]
    BY <2>1, <2>2, JournalFacts, Zenon DEF Contested, Files
  <2>5. HalfApplied' <=> HalfApplied
    BY <2>2, <2>4, Zenon DEF HalfApplied, AllPost, AllPre
  <2>6. Undecided' <=> Undecided
    BY <2>2, <2>5, Zenon DEF Undecided
  <2>7. CASE Undecided
    <3>1. Files(jrn.entries)' = Files(jrn.entries) /\ \A g : EntryOf(g)' = EntryOf(g)
      BY <2>2, Zenon DEF Files, EntryOf
    <3>2. f \notin DOMAIN AbstractPending /\ f \in DOMAIN AbstractDb
      BY <1>3, <2>1, <2>3, <2>7, UndecidedView, Zenon
    <3>3. AbstractPending' = AbstractPending
      BY <1>3, <2>1, <2>6, <2>7, <3>1, UndecidedView, UndecidedViewNext, Zenon
    <3>4. AbstractDb' = [AbstractDb EXCEPT ![f] = Sha(c)]
      BY <1>3, <2>1, <2>2, <2>3, <2>6, <2>7, <3>1, UndecidedView, UndecidedViewNext, Zenon
    <3> QED BY <2>1, <3>2, <3>3, <3>4, Zenon DEF Atomic!Foreign
  <2>8. CASE ~Undecided
    BY <1>3, <2>1, <2>2, <2>6, <2>8, DecidedView, DecidedViewNext, Zenon DEF Atomic!Foreign
  <2> QED BY <2>1, <2>7, <2>8, Zenon
<1>4. CASE /\ voided' = {} /\ Next /\ Undecided
           /\ ~ \E f \in Shared, c \in Content : ForeignWrite(f, c)
  <2>1. /\ jrn' = jrn /\ voided = {}
        /\ \A f \in File : f \notin Files(jrn.entries) => live'[f] = live[f]
    BY <1>4, UndecidedStep, VoidedGrows, Zenon
  <2>2. jrn # NoJournal /\ jrn.phase = "committed"
    BY <1>4, UndecidedJournal, Zenon
  <2>3. Files(jrn.entries)' = Files(jrn.entries) /\ \A g : EntryOf(g)' = EntryOf(g)
    BY <2>1, Zenon DEF Files, EntryOf
  <2>4. CASE Undecided'
    <3>1. AbstractDb' = AbstractDb /\ AbstractPending' = AbstractPending
      BY <1>4, <2>1, <2>3, <2>4, UndecidedView, UndecidedViewNext, Zenon
    <3> QED BY <3>1, Zenon
  <2>5. CASE ~Undecided'
    <3>1. AbstractPending # Atomic!Nothing
      <4>1. DOMAIN AbstractPending # {}
        BY <1>4, <2>1, <2>2, JournalFiles, UndecidedView, Zenon
      <4>2. DOMAIN Atomic!Nothing = {}
        BY DEF Atomic!Nothing
      <4> QED BY <4>1, <4>2, Zenon
    <3>2. AbstractPending' = Atomic!Nothing
      BY <1>4, <2>5, DecidedViewNext, Zenon DEF Atomic!Nothing
    <3>3. AllPost(jrn.entries)' \/ AllPre(jrn.entries)'
      BY <2>1, <2>2, <2>5, Zenon DEF Undecided, HalfApplied
    <3>4. CASE AllPre(jrn.entries)'
      <4>1. \A f \in File : f \in Files(jrn.entries) => Sha(live'[f]) = EntryOf(f).pre
        BY <2>1, <2>2, <3>4, JournalFiles DEF AllPre
      <4>2. AbstractDb' = AbstractDb
        BY <1>4, <2>1, <2>5, <4>1, UndecidedView, DecidedViewNext, Zenon
      <4> QED BY <3>1, <3>2, <4>2, Zenon DEF Atomic!Next, Atomic!Abort
    <3>5. CASE AllPost(jrn.entries)'
      <4>1. \A f \in File : f \in Files(jrn.entries) => Sha(live'[f]) = EntryOf(f).post
        BY SMTT(30), <2>1, <2>2, <3>5, JournalFiles DEF AllPost
      <4>2. AbstractDb' = [f \in DOMAIN AbstractDb |->
                             IF f \in DOMAIN AbstractPending THEN AbstractPending[f]
                             ELSE AbstractDb[f]]
        BY <1>4, <2>1, <2>5, <4>1, UndecidedView, DecidedViewNext
      <4> QED BY <3>1, <3>2, <4>2, Zenon DEF Atomic!Next, Atomic!Commit
    <3> QED BY <3>3, <3>4, <3>5
  <2> QED BY <2>4, <2>5, Zenon
<1>5. CASE /\ voided' = {} /\ Next /\ ~Undecided
           /\ ~ \E f \in Shared, c \in Content : ForeignWrite(f, c)
  <2>1. live' = live /\ voided = {} /\ (Undecided' => WriteCommitted)
    BY <1>5, DecidedStep, VoidedGrows, Zenon
  <2>2. CASE ~Undecided'
    <3>1. AbstractDb' = AbstractDb /\ AbstractPending' = AbstractPending
      BY <1>5, <2>1, <2>2, DecidedView, DecidedViewNext, Zenon
    <3> QED BY <3>1
  <2>3. CASE Undecided'
    <3>1. WriteCommitted /\ IInv'
      BY <2>1, <2>3, InductiveStep, Zenon
    <3>2. /\ jrn' = [phase |-> "committed", entries |-> entries]
          /\ \A i \in DOMAIN entries : IsPre(i)
      BY <2>1, <3>1, ImageParts, Zenon DEF WriteCommitted, WriteJournal, SavedInv
    <3>3. /\ entries # <<>> /\ Distinct(entries)
          /\ DOMAIN entries = 1..Len(entries) /\ Len(entries) \in Nat
          /\ \A i \in DOMAIN entries : entries[i].file \in File /\ entries[i].post \in Hash
      BY <2>1, <3>1, <3>2, ImageParts, EntryFacts, WrittenJournal, JournalAssumption
         DEF WriteCommitted, Journaled, Phase
    <3>4. ASSUME NEW i \in DOMAIN entries, NEW f, f = entries[i].file
          PROVE  EntryOf(f)' = entries[i]
      <4>1. \A k \in DOMAIN entries : entries[k].file = f <=> k = i
        BY <3>3, <3>4, Zenon DEF Distinct
      <4>2. (CHOOSE k \in DOMAIN entries : entries[k].file = f) = i
        BY <3>4, <4>1
      <4>3. jrn'.entries = entries
        BY <3>2, Zenon
      <4>4. EntryOf(f)' = entries[CHOOSE k \in DOMAIN entries : entries[k].file = f]
        BY <4>3 DEF EntryOf
      <4> QED BY <4>2, <4>4, Zenon
    <3>5. ASSUME NEW f \in Files(jrn.entries)'
          PROVE  f \in File /\ EntryOf(f)'.pre = Sha(live[f]) /\ EntryOf(f)'.post \in Hash
      <4>1. PICK i \in DOMAIN entries : f = entries[i].file
        BY <3>2, Zenon DEF Files
      <4>2. EntryOf(f)' = entries[i]
        BY <3>4, <4>1, Zenon
      <4> QED BY <3>2, <3>3, <4>1, <4>2, Zenon DEF IsPre
    <3>6. Files(jrn.entries)' # {} /\ Files(jrn.entries)' \subseteq File
      BY <3>2, <3>3, <3>5 DEF Files
    <3>7. AbstractDb' = AbstractDb
      BY <1>5, <2>1, <2>3, <3>5, DecidedView, UndecidedViewNext, Zenon
    <3>8. /\ AbstractPending = Atomic!Nothing
          /\ AbstractPending' \in [Files(jrn.entries)' -> Hash]
      BY <1>5, <2>1, <2>3, <3>5, <3>6, DecidedView, UndecidedViewNext, Zenon DEF Atomic!Nothing
    <3>9. AbstractDb # Atomic!Nothing
      <4>1. DOMAIN AbstractDb # {} /\ DOMAIN Atomic!Nothing = {}
        BY <1>5, <2>1, <3>6, DecidedView, Zenon DEF Atomic!Nothing
      <4> QED BY <4>1, Zenon
    <3>10. AbstractPending' # Atomic!Nothing
      <4>1. DOMAIN AbstractPending' # {} /\ DOMAIN Atomic!Nothing = {}
        BY <3>6, <3>8, Zenon DEF Atomic!Nothing
      <4> QED BY <4>1
    <3>11. \E S \in SUBSET File : AbstractPending' \in [S -> Hash]
      BY <3>6, <3>8, Zenon
    <3>12. Atomic!Start
      BY <3>7, <3>8, <3>9, <3>10, <3>11, Zenon DEF Atomic!Start
    <3> QED
      BY <3>12 DEF Atomic!Next
  <2> QED BY <2>2, <2>3, Zenon
<1>6. ASSUME voided' = {}, \E f \in Shared, c \in Content : ForeignWrite(f, c)
      PROVE  Atomic!Next
  <2>1. PICK f \in Shared, c \in Content : ForeignWrite(f, c)
    BY <1>6, Zenon
  <2>2. Atomic!Foreign(f, Sha(c)) /\ f \in File /\ Sha(c) \in Hash
    BY <1>3, <1>6, <2>1
  <2> QED BY <2>2 DEF Atomic!Next
<1> QED BY <1>1, <1>2, <1>4, <1>5, <1>6, ZenonT(30)

\* The journal implements the atomic store, for every number of files: crashes,
\* failed calls, rollbacks and recoveries never show part of a transaction, until
\* one of the events that EditJournal lists voids the promise
\* (publish_journal_locked, recover_with_report).
THEOREM JournalImplementsStore == Spec => AllOrNothing
<1>1. Init => Atomic!Init
  BY InitAtomic
<1>2. IInv /\ [Next]_vars => [Atomic!Next]_<<AbstractDb, AbstractPending>>
  BY StepAtomic
<1> QED
  BY <1>1, <1>2, Inductive, PTL DEF Spec, AllOrNothing, Atomic!Spec
=============================================================================
