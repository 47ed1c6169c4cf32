------------------------ MODULE EditJournalInvariant ------------------------
(***************************************************************************)
(* The inductive invariant of the edit journal, the facts about its data,  *)
(* the preservation of its first three parts (the types, the memory of the *)
(* lock holder, and what it knows of the journal on disk), and the images  *)
(* of the files through a rollback.                                        *)
(***************************************************************************)
EXTENDS EditJournal, TLAPS

Publishing == {"publish", "rename", "rollback", "rollbackWrite", "complete"}
Journaled == {"uncommitted", "committed"} \cup Publishing
Recovering == {"scan", "restore", "restoreWrite"}

\* Entries about pairwise different files.
Distinct(es) == \A i, j \in DOMAIN es : es[i].file = es[j].file => i = j

\* The memory of the holder fits the place it is at.
ControlInv ==
  /\ step \in {"cas", "mkdir", "preimage"} \cup Journaled =>
       txn \in Transactions /\ idx <= Len(txn)
  /\ step \in {"mkdir", "uncommitted", "committed", "complete"} => idx = 1
  /\ step \in {"idle", "recover", "cas", "mkdir"} => entries = <<>>
  /\ step = "preimage" => Len(entries) = idx - 1
  /\ step \in Journaled => Len(entries) = Len(txn)
  /\ step \in {"preimage"} \cup Journaled =>
       \A i \in DOMAIN entries : /\ entries[i].file = txn[i].file
                                 /\ entries[i].post = Sha(txn[i].content)
  /\ step \in {"rollback", "rollbackWrite"} =>
       idx <= published /\ published <= Len(txn) /\ result = "failed"
  /\ step \in {"idle", "recover"} => txn = <<>> /\ idx = 1
  /\ step \in Recovering => txn = <<>> /\ idx <= Len(entries)
  /\ step = "scan" => idx = 1
  /\ step \in {"restore", "restoreWrite"} => Len(scan) = Len(entries)
  /\ Distinct(entries)

\* What the holder knows about the journal on disk.
LinkInv ==
  /\ step = "committed" => jrn = [phase |-> "uncommitted", entries |-> entries]
  /\ step \in Publishing \cup Recovering =>
       jrn = [phase |-> "committed", entries |-> entries]
  /\ jrn # NoJournal =>
       jrn.entries # <<>> /\ Len(jrn.entries) <= MaxFiles /\ Distinct(jrn.entries)
  /\ step \in {"preimage"} \cup Journaled =>
       \A i \in DOMAIN entries : Sha(blobs[i]) = entries[i].pre
  /\ step = "restoreWrite" => blobs[idx] # NoBlob

IsPre(i) == Sha(live[entries[i].file]) = entries[i].pre
IsPost(i) == Sha(live[entries[i].file]) = entries[i].post

\* Which of its two images every file carries while a call is under way:
\* before publication, during it, during rollback, after it, in recovery and
\* while the journal is removed.
SavedInv ==
  /\ step \in {"preimage", "uncommitted", "committed"} =>
       \A i \in DOMAIN entries : IsPre(i)
  /\ step \in {"preimage", "uncommitted"} => ~HalfApplied

PublishInv ==
  /\ step \in {"publish", "rename"} =>
       \A i \in DOMAIN entries :
         IF i < idx THEN IsPost(i) /\ entries[i].pre = txn[i].expected ELSE IsPre(i)
  /\ step = "rename" => entries[idx].pre = txn[idx].expected

RollbackInv ==
  step \in {"rollback", "rollbackWrite"} =>
    \A i \in DOMAIN entries :
      /\ i < idx => IsPre(i) \/ (IsPost(i) /\ incomplete = "yes")
      /\ i > published => IsPre(i)
      /\ i >= idx /\ i <= published =>
           IsPost(i) \/ (i = idx /\ step = "rollbackWrite")

CompleteInv ==
  step = "complete" =>
    \A i \in DOMAIN entries : IsPost(i) /\ entries[i].pre = txn[i].expected

RestoreInv ==
  /\ step \in {"restore", "restoreWrite"} =>
       /\ \A i \in DOMAIN entries :
            /\ i < idx => IsPre(i)
            /\ i >= idx => \/ IsPre(i) \/ IsPost(i)
                           \/ i = idx /\ step = "restoreWrite"
            /\ i >= idx => \/ scan[i] = Unread
                           \/ scan[i] = Sha(live[entries[i].file])
                           \/ i = idx /\ step = "restoreWrite"
       /\ \E j \in DOMAIN entries : IsPre(j) /\ ~IsPost(j)
  /\ step = "restoreWrite" => Sha(blobs[idx]) = entries[idx].pre

CleanupInv ==
  step = "cleanup" =>
    /\ ~HalfApplied
    /\ result = "ok" =>
         /\ Len(entries) = Len(txn)
         /\ \A i \in DOMAIN entries :
              /\ entries[i].file = txn[i].file
              /\ entries[i].post = Sha(txn[i].content)
              /\ IsPost(i) /\ entries[i].pre = txn[i].expected
    /\ result \in {"failed", "rolledBack"} => \A i \in DOMAIN entries : IsPre(i)

ImageInv ==
  /\ SavedInv /\ PublishInv /\ RollbackInv /\ CompleteInv /\ RestoreInv /\ CleanupInv
  /\ Recoverable

\* The inductive invariant.
IInv == TypeOK /\ ControlInv /\ LinkInv /\ (voided = {} => ImageInv)

-----------------------------------------------------------------------------
(* Facts about the data                                                    *)

\* A planned transaction is a non-empty sequence about different files.
LEMMA TransactionFacts ==
  ASSUME NEW t \in Transactions
  PROVE  /\ t \in Seq(FilePublication)
         /\ Len(t) \in 1..MaxFiles
         /\ DOMAIN t = 1..Len(t)
         /\ \A i \in 1..Len(t) : /\ t[i].file \in File
                                 /\ t[i].expected \in Hash
                                 /\ t[i].content \in Content
         /\ Distinct(t)
<1>1. PICK n \in 1..MaxFiles : t \in [1..n -> FilePublication]
  BY DEF Transactions
<1>2. n \in Nat /\ Len(t) = n /\ t \in Seq(FilePublication)
  BY <1>1, JournalAssumption
<1>3. \A i \in 1..n : t[i] \in FilePublication
  BY <1>1
<1>4. \A i \in 1..n : /\ t[i].file \in File
                      /\ t[i].expected \in Hash
                      /\ t[i].content \in Content
  BY <1>3 DEF FilePublication
<1>5. Distinct(t)
  BY <1>1 DEF Transactions, Distinct
<1> QED
  BY <1>1, <1>2, <1>4, <1>5, Zenon

\* Hashes tell contents apart, and none is the hash noted for an unread file.
LEMMA ShaFacts ==
  /\ \A c, d : Sha(c) = Sha(d) => c = d
  /\ \A c \in Bytes : Sha(c) \in Hash
  /\ Unread \notin Hash
  /\ Content \subseteq Bytes /\ Torn \in Bytes /\ NoBlob \notin Bytes
<1>1. \A c, d : Sha(c) = Sha(d) => c = d
  <2> TAKE c, d
  <2> HAVE Sha(c) = Sha(d)
  <2>1. Sha(c).sha256 = c /\ Sha(d).sha256 = d
    BY DEF Sha
  <2> QED BY <2>1
<1>2. \A c \in Bytes : Sha(c) \in Hash
  BY DEF Sha, Hash
<1>3. Content \subseteq Bytes /\ Torn \in Bytes /\ NoBlob \notin Bytes
  BY JournalAssumption DEF Bytes
<1>4. Unread \notin Hash
  BY <1>3 DEF Unread, Sha, Hash
<1> QED BY <1>1, <1>2, <1>3, <1>4

\* With no call under way and no journal, nothing is half applied.
LEMMA InitIInv == Init => IInv
<1> SUFFICES ASSUME Init PROVE IInv
  OBVIOUS
<1>1. TypeOK
  BY JournalAssumption, ShaFacts DEF Init, TypeOK, NoBlobs, Steps, Results, Events
<1>2. ControlInv
  BY DEF Init, ControlInv, Journaled, Publishing, Recovering, Distinct
<1>3. LinkInv
  BY DEF Init, LinkInv, Journaled, Publishing, Recovering
<1>4. ImageInv
  BY DEF Init, ImageInv, SavedInv, PublishInv, RollbackInv, CompleteInv, RestoreInv,
         CleanupInv, Recoverable, HalfApplied
<1> QED BY <1>1, <1>2, <1>3, <1>4 DEF IInv

\* What the types and the control invariant say of a planned transaction.
LEMMA PlannedFacts ==
  ASSUME IInv, step \in {"cas", "mkdir", "preimage"} \cup Journaled
  PROVE  /\ txn \in Transactions
         /\ txn \in Seq(FilePublication)
         /\ Len(txn) \in 1..MaxFiles
         /\ idx \in 1..Len(txn)
         /\ DOMAIN txn = 1..Len(txn)
         /\ \A i \in 1..Len(txn) : /\ txn[i].file \in File
                                   /\ txn[i].expected \in Hash
                                   /\ txn[i].content \in Content
         /\ Distinct(txn)
<1>1. txn \in Transactions /\ idx <= Len(txn) /\ idx \in 1..MaxFiles
  BY DEF IInv, TypeOK, ControlInv
<1> QED
  BY <1>1, TransactionFacts, JournalAssumption

\* The journal entries in memory.
LEMMA EntryFacts ==
  ASSUME TypeOK
  PROVE  /\ DOMAIN entries = 1..Len(entries) /\ Len(entries) \in 0..MaxFiles
         /\ \A i \in 1..Len(entries) : /\ entries[i] \in JournalEntry
                                       /\ entries[i].file \in File
                                       /\ entries[i].pre \in Hash
                                       /\ entries[i].post \in Hash
<1>1. entries \in Seq(JournalEntry) /\ Len(entries) <= MaxFiles
  BY DEF TypeOK
<1>2. DOMAIN entries = 1..Len(entries) /\ Len(entries) \in 0..MaxFiles
  BY <1>1, JournalAssumption
<1>3. \A i \in 1..Len(entries) : entries[i] \in JournalEntry
  BY <1>1, <1>2
<1> QED
  BY <1>2, <1>3 DEF JournalEntry

\* The journal on disk.
LEMMA JournalFacts ==
  ASSUME IInv, jrn # NoJournal
  PROVE  /\ jrn.phase \in Phase
         /\ jrn.entries \in Seq(JournalEntry)
         /\ DOMAIN jrn.entries = 1..Len(jrn.entries)
         /\ Len(jrn.entries) \in 1..MaxFiles
         /\ \A i \in 1..Len(jrn.entries) : /\ jrn.entries[i] \in JournalEntry
                                           /\ jrn.entries[i].file \in File
                                           /\ jrn.entries[i].pre \in Hash
                                           /\ jrn.entries[i].post \in Hash
         /\ Distinct(jrn.entries)
<1>1. jrn.phase \in Phase /\ jrn.entries \in Seq(JournalEntry)
  BY DEF IInv, TypeOK, Journal
<1>2. jrn.entries # <<>> /\ Len(jrn.entries) <= MaxFiles /\ Distinct(jrn.entries)
  BY DEF IInv, LinkInv
<1>3. DOMAIN jrn.entries = 1..Len(jrn.entries) /\ Len(jrn.entries) \in 1..MaxFiles
  BY <1>1, <1>2, JournalAssumption
<1>4. \A i \in 1..Len(jrn.entries) : jrn.entries[i] \in JournalEntry
  BY <1>1, <1>3
<1> QED
  BY <1>1, <1>2, <1>3, <1>4 DEF JournalEntry

\* The two halves of the type invariant.
DiskType ==
  /\ live \in [File -> Bytes]
  /\ dir \in {"absent", "present"}
  /\ blobs \in [1..MaxFiles -> Bytes \cup {NoBlob}]
  /\ jrn \in Journal \cup {NoJournal}

LocalType ==
  /\ step \in Steps
  /\ txn \in Transactions \cup {<<>>}
  /\ idx \in 1..MaxFiles
  /\ entries \in Seq(JournalEntry) /\ Len(entries) <= MaxFiles
  /\ published \in 0..MaxFiles
  /\ incomplete \in {"no", "yes"}
  /\ scan \in Seq(Hash \cup {Unread})
  /\ result \in Results

\* The type invariant is about the disk, the memory of the holder and the history.
LEMMA TypeHalves == TypeOK <=> DiskType /\ LocalType /\ voided \subseteq Events
  BY DEF TypeOK, DiskType, LocalType

\* A call that returns forgets what it had in memory.
LEMMA ReturnTyped ==
  ASSUME NEW r \in Results, Return(r)
  PROVE  LocalType'
  BY JournalAssumption DEF Return, NoLocals, LocalType, Steps

\* The rollback goes over the files published so far.
LEMMA StartRollbackTyped ==
  ASSUME LocalType, StartRollback
  PROVE  LocalType'
  BY JournalAssumption DEF StartRollback, LocalType, Steps, Results

\* Rollback goes on with the next file, or ends.
LEMMA AfterRollbackTyped ==
  ASSUME LocalType, NEW failure \in {"no", "yes"}, AfterRollback(failure)
  PROVE  LocalType'
<1>1. CASE idx < published
  BY <1>1, JournalAssumption DEF AfterRollback, LocalType, Steps
<1>2. CASE ~(idx < published) /\ failure = "yes"
  <2>1. Return("kept")
    BY <1>2 DEF AfterRollback
  <2> QED
    BY <2>1, ReturnTyped DEF Results
<1>3. CASE ~(idx < published) /\ failure # "yes"
  BY <1>3, JournalAssumption DEF AfterRollback, LocalType, Steps
<1> QED
  BY <1>1, <1>2, <1>3

\* Recovery goes on with the next file, or with the removal of the journal.
LEMMA AfterRestoreTyped ==
  ASSUME LocalType, AfterRestore
  PROVE  LocalType'
  BY JournalAssumption DEF AfterRestore, Loop, LocalType, Steps, Results

\* The journal written from the memory of the holder.
LEMMA WriteJournalTyped ==
  ASSUME TypeOK, NEW phase \in Phase, WriteJournal(phase)
  PROVE  jrn' \in Journal
  BY Zenon DEF TypeOK, WriteJournal, Journal

\* Every step keeps the types.
LEMMA TypeStep == IInv /\ [Next]_vars => TypeOK'
<1> SUFFICES ASSUME IInv, [Next]_vars PROVE DiskType' /\ LocalType' /\ voided' \subseteq Events
  BY DEF TypeOK, DiskType, LocalType
<1> DEFINE Typed == DiskType /\ LocalType /\ voided \subseteq Events
<1> TypeOK /\ Typed
  BY TypeHalves DEF IInv
<1> USE DEF disk, local
<1>1. ASSUME NEW t \in Transactions, BeginTransaction(t) PROVE Typed'
  BY <1>1 DEF BeginTransaction, DiskType, LocalType, Steps, Results
<1>2. ASSUME BeginRecover PROVE Typed'
  BY <1>2 DEF BeginRecover, DiskType, LocalType, Steps, Results
<1>3. ASSUME CheckInput PROVE Typed'
  <2>1. idx \in 1..Len(txn) /\ Len(txn) \in 1..MaxFiles
    BY <1>3, PlannedFacts DEF CheckInput, Journaled
  <2>2. DiskType' /\ voided' \subseteq Events
    BY <1>3 DEF CheckInput, DiskType
  <2>3. CASE Sha(live[txn[idx].file]) = txn[idx].expected
    <3>1. /\ Loop(Len(txn), "cas", "mkdir")
          /\ UNCHANGED <<txn, entries, published, incomplete, scan, result>>
      BY <1>3, <2>3 DEF CheckInput
    <3> QED
      BY <2>1, <2>2, <3>1, JournalAssumption DEF Loop, LocalType, Steps
  <2>4. CASE Sha(live[txn[idx].file]) # txn[idx].expected
    <3>1. Return("stale")
      BY <1>3, <2>4 DEF CheckInput
    <3> QED
      BY <2>2, <3>1, ReturnTyped DEF Results
  <2> QED BY <2>2, <2>3, <2>4, Zenon
<1>4. ASSUME CreateJournalDir PROVE Typed'
  BY <1>4, Zenon DEF CreateJournalDir, DiskType, LocalType, Steps, Events
<1>5. ASSUME WritePreImage PROVE Typed'
  <2>1. /\ idx \in 1..Len(txn) /\ Len(txn) \in 1..MaxFiles
        /\ txn[idx].file \in File /\ txn[idx].content \in Content
    BY <1>5, PlannedFacts DEF WritePreImage
  <2>2. live[txn[idx].file] \in Bytes
    BY <2>1, Zenon DEF DiskType
  <2>3. [file |-> txn[idx].file, pre |-> Sha(live[txn[idx].file]),
         post |-> Sha(txn[idx].content)] \in JournalEntry
    BY <2>1, <2>2, ShaFacts, Zenon DEF JournalEntry
  <2>4. Len(entries) = idx - 1
    BY <1>5, Zenon DEF WritePreImage, IInv, ControlInv
  <2>5. entries' \in Seq(JournalEntry) /\ Len(entries') <= MaxFiles
    BY <1>5, <2>1, <2>3, <2>4, JournalAssumption DEF WritePreImage, LocalType
  <2>6. DiskType' /\ voided' \subseteq Events
    BY ZenonT(20), <1>5, <2>2 DEF WritePreImage, DiskType
  <2> QED
    BY <1>5, <2>1, <2>5, <2>6, JournalAssumption
       DEF WritePreImage, Loop, LocalType, Steps
<1>6. ASSUME WriteUncommitted PROVE Typed'
  <2>1. jrn' \in Journal
    BY <1>6, WriteJournalTyped DEF WriteUncommitted, Phase
  <2> QED
    BY <1>6, <2>1 DEF WriteUncommitted, DiskType, LocalType, Steps
<1>7. ASSUME WriteCommitted PROVE Typed'
  <2>1. jrn' \in Journal
    BY <1>7, WriteJournalTyped DEF WriteCommitted, Phase
  <2> QED
    BY <1>7, <2>1 DEF WriteCommitted, DiskType, LocalType, Steps
<1>8. ASSUME PublishCheck PROVE Typed'
  <2>1. DiskType' /\ voided' \subseteq Events
    BY <1>8 DEF PublishCheck, DiskType
  <2>2. LocalType'
    BY <1>8, StartRollbackTyped DEF PublishCheck, LocalType, Steps
  <2> QED BY <2>1, <2>2
<1>9. ASSUME PublishRename PROVE Typed'
  <2>1. /\ idx \in 1..Len(txn) /\ Len(txn) \in 1..MaxFiles
        /\ txn[idx].file \in File /\ txn[idx].content \in Bytes
    BY <1>9, PlannedFacts, ShaFacts DEF PublishRename, Journaled, Publishing
  <2>2. DiskType' /\ voided' \subseteq Events
    BY <1>9, <2>1, Zenon DEF PublishRename, DiskType
  <2> QED
    BY <1>9, <2>1, <2>2, JournalAssumption DEF PublishRename, Loop, LocalType, Steps
<1>10. ASSUME RollbackOpen PROVE Typed'
  <2>1. txn[idx].file \in File
    BY <1>10, PlannedFacts DEF RollbackOpen, Journaled, Publishing
  <2>2. DiskType' /\ voided' \subseteq Events
    BY <1>10, <2>1, ShaFacts DEF RollbackOpen, DiskType
  <2>3. LocalType'
    BY <1>10, AfterRollbackTyped, Zenon DEF RollbackOpen, LocalType, Steps
  <2> QED BY <2>2, <2>3
<1>11. ASSUME RollbackWrite PROVE Typed'
  <2>1. /\ idx \in 1..MaxFiles /\ txn[idx].file \in File
        /\ idx \in DOMAIN entries
    BY <1>11, PlannedFacts, EntryFacts
       DEF RollbackWrite, Journaled, Publishing, LocalType, IInv, ControlInv
  <2>2. blobs[idx] \in Bytes
    <3>1. Sha(blobs[idx]) = entries[idx].pre /\ entries[idx].pre \in Hash
      BY <1>11, <2>1, EntryFacts DEF RollbackWrite, IInv, LinkInv, Journaled, Publishing
    <3> QED
      BY <3>1, ShaFacts, Zenon DEF Hash, Sha
  <2>3. DiskType' /\ voided' \subseteq Events
    BY <1>11, <2>1, <2>2 DEF RollbackWrite, DiskType
  <2>4. LocalType'
    BY <1>11, AfterRollbackTyped DEF RollbackWrite, LocalType
  <2> QED BY <2>3, <2>4
<1>12. ASSUME MarkCompleted PROVE Typed'
  <2>1. jrn' \in Journal
    BY <1>12, WriteJournalTyped DEF MarkCompleted, Phase
  <2> QED
    BY <1>12, <2>1 DEF MarkCompleted, DiskType, LocalType, Steps, Results
<1>13. ASSUME RemoveItem PROVE Typed'
  BY <1>13 DEF RemoveItem, DiskType, LocalType
<1>14. ASSUME RemoveDir PROVE Typed'
  <2>1. LocalType'
    BY <1>14, ReturnTyped DEF RemoveDir, LocalType
  <2> QED
    BY <1>14, <2>1 DEF RemoveDir, DiskType
<1>15. ASSUME InspectJournal PROVE Typed'
  <2>1. DiskType' /\ voided' \subseteq Events
    BY <1>15 DEF InspectJournal, DiskType
  <2>2. CASE jrn = NoJournal /\ dir = "absent" /\ Return("nothing")
    BY <2>1, <2>2, ReturnTyped DEF Results
  <2>3. CASE step' = "cleanup" /\ result' \in {"discarded", "nothing"} /\ UNCHANGED local
    BY <2>1, <2>3 DEF LocalType, Steps, Results
  <2>4. CASE /\ jrn # NoJournal /\ step' = "scan" /\ entries' = jrn.entries
             /\ UNCHANGED <<txn, idx, published, incomplete, scan, result>>
    BY <2>1, <2>4, JournalFacts DEF LocalType, Steps
  <2> QED
    BY <1>15, <2>2, <2>3, <2>4 DEF InspectJournal
<1>16. ASSUME ScanLive PROVE Typed'
  <2>1. DiskType' /\ voided' \subseteq Events
    BY <1>16 DEF ScanLive, DiskType, Events
  <2>2. \A i \in DOMAIN entries : Sha(live[entries[i].file]) \in Hash
    BY EntryFacts, ShaFacts, Zenon DEF DiskType
  <2>3. scan' \in [1..Len(entries) -> Hash \cup {Unread}]
    BY <1>16, <2>2, EntryFacts DEF ScanLive
  <2>4. scan' \in Seq(Hash \cup {Unread})
    BY <2>3, EntryFacts, JournalAssumption
  <2> QED
    BY <1>16, <2>1, <2>4 DEF ScanLive, LocalType, Steps, Results
<1>17. ASSUME RestoreEntry PROVE Typed'
  <2>1. entries[idx].file \in File
    BY SMTT(30), <1>17, EntryFacts DEF RestoreEntry, IInv, ControlInv, Recovering, LocalType
  <2>2. DiskType' /\ voided' \subseteq Events
    BY <1>17, <2>1, ShaFacts DEF RestoreEntry, DiskType
  <2>3. CASE AfterRestore
    BY <2>2, <2>3, AfterRestoreTyped
  <2>4. CASE Return("refused") \/ Return("error")
    BY <2>2, <2>4, ReturnTyped DEF Results
  <2>5. CASE step' = "restoreWrite" /\ UNCHANGED <<local, result>>
    BY <2>2, <2>5, Zenon DEF LocalType, Steps
  <2> QED
    BY <1>17, <2>3, <2>4, <2>5, Zenon DEF RestoreEntry
<1>18. ASSUME RestoreWrite PROVE Typed'
  <2>1. idx \in 1..MaxFiles /\ entries[idx].file \in File
    BY <1>18, EntryFacts DEF RestoreWrite, IInv, ControlInv, Recovering, LocalType
  <2>2. blobs[idx] \in Bytes
    BY <1>18, <2>1 DEF RestoreWrite, IInv, LinkInv, DiskType
  <2>3. DiskType' /\ voided' \subseteq Events
    BY <1>18, <2>1, <2>2, Zenon DEF RestoreWrite, DiskType
  <2>4. LocalType'
    BY SMTT(20), <1>18, AfterRestoreTyped DEF RestoreWrite
  <2> QED BY <2>3, <2>4
<1>19. ASSUME IoError PROVE Typed'
  <2>1. DiskType' /\ voided' \subseteq Events
    BY <1>19 DEF IoError, Tear, TearPreImage, DiskType, Events, Bytes
  <2>2. CASE Return("error")
    BY <2>1, <2>2, ReturnTyped DEF Results
  <2>3. CASE StartRollback
    BY <2>1, <2>3, StartRollbackTyped
  <2>4. CASE AfterRollback("yes")
    BY <2>1, <2>4, AfterRollbackTyped, Zenon
  <2>5. CASE step' = "cleanup" /\ result' = "ok" /\ UNCHANGED local
    BY <2>1, <2>5 DEF LocalType, Steps, Results
  <2>6. CASE Return(IF result \in {"discarded", "rolledBack"} THEN "error" ELSE result)
    <3>1. (IF result \in {"discarded", "rolledBack"} THEN "error" ELSE result) \in Results
      BY DEF LocalType, Results
    <3> QED
      BY <2>1, <2>6, <3>1, ReturnTyped
  <2> QED
    BY <1>19, <2>2, <2>3, <2>4, <2>5, <2>6, Zenon DEF IoError
<1>20. ASSUME Crash PROVE Typed'
  <2>1. LocalType'
    BY <1>20, ReturnTyped, Zenon DEF Crash, Results
  <2> QED
    BY <1>20, <2>1 DEF Crash, Tear, TearPreImage, DiskType, Events, Bytes
<1>21. ASSUME NEW f \in Shared, NEW c \in Content, ForeignWrite(f, c) PROVE Typed'
  BY <1>21, ShaFacts, JournalAssumption, Zenon DEF ForeignWrite, DiskType, LocalType, Events
<1>22. ASSUME UNCHANGED vars PROVE Typed'
  BY <1>22, Zenon DEF vars, DiskType, LocalType
<1>23. ASSUME OverlookJournal PROVE Typed'
  <2>1. DiskType' /\ voided' \subseteq Events
    BY <1>23, Zenon DEF OverlookJournal, DiskType, Events
  <2>2. CASE Return("nothing")
    BY <2>1, <2>2, ReturnTyped DEF Results
  <2>3. CASE step' = "cleanup" /\ result' = "discarded" /\ UNCHANGED local
    BY <2>1, <2>3 DEF LocalType, Steps, Results
  <2> QED
    BY <1>23, <2>2, <2>3, Zenon DEF OverlookJournal
<1> QED
  BY <1>1, <1>2, <1>3, <1>4, <1>5, <1>6, <1>7, <1>8, <1>9, <1>10, <1>11, <1>12,
     <1>13, <1>14, <1>15, <1>16, <1>17, <1>18, <1>19, <1>20, <1>21, <1>22, <1>23, Zenon
     DEF Next, Publication, Recovery

-----------------------------------------------------------------------------
(* Control: the memory of the holder fits the place it is at.              *)

\* The branches that several actions share keep the control invariant.
LEMMA ReturnControl ==
  ASSUME NEW r, Return(r)
  PROVE  ControlInv'
  BY DEF Return, NoLocals, ControlInv, Journaled, Publishing, Recovering, Distinct

\* A failed publication rolls back the files before the one that failed.
LEMMA StartRollbackControl ==
  ASSUME IInv, step \in {"publish", "rename"}, StartRollback
  PROVE  ControlInv'
<1>1. TypeOK /\ ControlInv
  BY DEF IInv
<1>2. idx \in 1..Len(txn) /\ Len(txn) \in Nat /\ txn \in Transactions
  BY PlannedFacts, JournalAssumption DEF Journaled, Publishing
<1>3. /\ step' = IF idx = 1 THEN "cleanup" ELSE "rollback"
      /\ published' = idx - 1 /\ idx' = 1 /\ result' = "failed"
      /\ txn' = txn /\ entries' = entries
  BY DEF StartRollback
<1>4. /\ Len(entries) = Len(txn) /\ Distinct(entries)
      /\ \A i \in DOMAIN entries : /\ entries[i].file = txn[i].file
                                   /\ entries[i].post = Sha(txn[i].content)
  BY <1>1, Zenon DEF ControlInv, Journaled, Publishing
<1>5. CASE idx = 1
  BY <1>3, <1>4, <1>5, Zenon DEF ControlInv, Journaled, Publishing, Recovering, Distinct
<1>6. CASE idx # 1
  BY <1>2, <1>3, <1>4, <1>6 DEF ControlInv, Journaled, Publishing, Recovering, Distinct
<1> QED BY <1>5, <1>6

\* Rollback keeps the plan of its transaction until it is through.
LEMMA AfterRollbackControl ==
  ASSUME IInv, step \in {"rollback", "rollbackWrite"}, NEW failure, AfterRollback(failure)
  PROVE  ControlInv'
<1>1. TypeOK /\ ControlInv
  BY DEF IInv
<1>2. idx \in 1..Len(txn) /\ Len(txn) \in Nat /\ txn \in Transactions /\ published \in Nat
  BY <1>1, PlannedFacts, JournalAssumption DEF Journaled, Publishing, TypeOK
<1>3. CASE idx < published
  BY <1>1, <1>2, <1>3
     DEF AfterRollback, ControlInv, Journaled, Publishing, Recovering, Distinct
<1>4. CASE ~(idx < published) /\ failure = "yes"
  BY <1>4, ReturnControl, Zenon DEF AfterRollback
<1>5. CASE ~(idx < published) /\ failure # "yes"
  BY <1>1, <1>5, Zenon
     DEF AfterRollback, ControlInv, Journaled, Publishing, Recovering, Distinct
<1> QED BY <1>3, <1>4, <1>5

\* Recovery keeps the entries it has read until it is through.
LEMMA AfterRestoreControl ==
  ASSUME IInv, step \in {"restore", "restoreWrite"}, AfterRestore
  PROVE  ControlInv'
  BY EntryFacts
     DEF IInv, TypeOK, AfterRestore, Loop, ControlInv, Journaled, Publishing,
         Recovering, Distinct

\* Every step keeps what the holder has in memory in line with where it is.
LEMMA ControlStep == IInv /\ [Next]_vars => ControlInv'
<1> SUFFICES ASSUME IInv, [Next]_vars PROVE ControlInv'
  OBVIOUS
<1> TypeOK /\ ControlInv /\ LinkInv
  BY Zenon DEF IInv
<1> USE JournalAssumption DEF ControlInv, TypeOK, Journaled, Publishing, Recovering, disk, local
<1>1. ASSUME NEW t \in Transactions, BeginTransaction(t) PROVE ControlInv'
  BY <1>1, TransactionFacts, EntryFacts DEF BeginTransaction
<1>2. ASSUME BeginRecover PROVE ControlInv'
  BY <1>2, EntryFacts, Zenon DEF BeginRecover
<1>3. ASSUME CheckInput PROVE ControlInv'
  BY <1>3, PlannedFacts, EntryFacts DEF CheckInput, Return, NoLocals, Loop
<1>4. ASSUME CreateJournalDir PROVE ControlInv'
  BY SMTT(30), <1>4, EntryFacts DEF CreateJournalDir
<1>5. ASSUME WritePreImage PROVE ControlInv'
  <2>1. idx \in 1..Len(txn) /\ Len(txn) \in Nat /\ txn \in Transactions /\ Distinct(txn)
    BY <1>5, PlannedFacts DEF WritePreImage
  <2> DEFINE new == [file |-> txn[idx].file, pre |-> Sha(live[txn[idx].file]),
                     post |-> Sha(txn[idx].content)]
  <2>2. entries' = Append(entries, new) /\ txn' = txn
    BY <1>5, Zenon DEF WritePreImage
  <2>3. new.file = txn[idx].file /\ new.post = Sha(txn[idx].content)
    OBVIOUS
  <2> HIDE DEF new
  <2>4. Len(entries) = idx - 1
    BY <1>5, Zenon DEF WritePreImage
  <2>5. /\ Len(entries') = idx /\ DOMAIN entries' = 1..idx
        /\ \A i \in 1..idx : entries'[i] = IF i < idx THEN entries[i] ELSE new
    BY SMTT(30), <2>1, <2>2, <2>4, EntryFacts
  <2>6. \A i \in DOMAIN entries' : /\ entries'[i].file = txn[i].file
                                   /\ entries'[i].post = Sha(txn[i].content)
    BY <1>5, <2>1, <2>3, <2>4, <2>5, EntryFacts DEF WritePreImage
  <2>7. Distinct(entries)'
    <3>1. \A i, j \in 1..Len(txn) : txn[i].file = txn[j].file => i = j
      BY <1>5, <2>1, PlannedFacts, Zenon DEF WritePreImage, Distinct
    <3>2. \A i \in 1..idx : i \in 1..Len(txn)
      BY <2>1
    <3> QED
      BY SMTT(20), <2>5, <2>6, <3>1, <3>2 DEF Distinct
  <2> QED
    BY SMTT(30), <1>5, <2>1, <2>2, <2>5, <2>6, <2>7 DEF WritePreImage, Loop
<1>6. ASSUME WriteUncommitted PROVE ControlInv'
  BY <1>6, PlannedFacts, EntryFacts, Zenon DEF WriteUncommitted, WriteJournal
<1>7. ASSUME WriteCommitted PROVE ControlInv'
  BY <1>7, PlannedFacts, EntryFacts, Zenon DEF WriteCommitted, WriteJournal
<1>8. ASSUME PublishCheck PROVE ControlInv'
  <2>1. CASE StartRollback
    BY <1>8, <2>1, StartRollbackControl, Zenon DEF PublishCheck
  <2>2. CASE step' = "rename" /\ UNCHANGED <<local, result>>
    BY <1>8, <2>2, PlannedFacts, EntryFacts, ZenonT(30) DEF PublishCheck, Distinct
  <2> QED BY Zenon, <1>8, <2>1, <2>2 DEF PublishCheck
<1>9. ASSUME PublishRename PROVE ControlInv'
  BY <1>9, PlannedFacts, EntryFacts DEF PublishRename, Loop
<1>10. ASSUME RollbackOpen PROVE ControlInv'
  <2>1. CASE AfterRollback("yes")
    BY <1>10, <2>1, AfterRollbackControl, Zenon DEF RollbackOpen
  <2>2. CASE step' = "rollbackWrite" /\ UNCHANGED <<local, result>>
    BY <1>10, <2>2, PlannedFacts, EntryFacts, Zenon DEF RollbackOpen, Distinct
  <2> QED BY <1>10, <2>1, <2>2, Zenon DEF RollbackOpen
<1>11. ASSUME RollbackWrite PROVE ControlInv'
  BY <1>11, AfterRollbackControl, Zenon DEF RollbackWrite
<1>12. ASSUME MarkCompleted PROVE ControlInv'
  BY <1>12, PlannedFacts, EntryFacts, Zenon DEF MarkCompleted, WriteJournal
<1>13. ASSUME RemoveItem PROVE ControlInv'
  BY <1>13, EntryFacts, Zenon DEF RemoveItem
<1>14. ASSUME RemoveDir PROVE ControlInv'
  BY <1>14, ReturnControl, ZenonT(30) DEF RemoveDir
<1>15. ASSUME InspectJournal PROVE ControlInv'
  BY SMTT(30), <1>15, JournalFacts, EntryFacts DEF InspectJournal, Return, NoLocals
<1>16. ASSUME ScanLive PROVE ControlInv'
  BY <1>16, EntryFacts DEF ScanLive
<1>17. ASSUME RestoreEntry PROVE ControlInv'
  <2>1. CASE AfterRestore
    BY <1>17, <2>1, AfterRestoreControl, Zenon DEF RestoreEntry
  <2>2. CASE Return("refused") \/ Return("error")
    BY <2>2, ReturnControl, Zenon
  <2>3. CASE step' = "restoreWrite" /\ UNCHANGED <<local, result>>
    BY <1>17, <2>3, Zenon DEF RestoreEntry, Distinct
  <2> QED BY <1>17, <2>1, <2>2, <2>3, Zenon DEF RestoreEntry
<1>18. ASSUME RestoreWrite PROVE ControlInv'
  BY SMTT(20), <1>18, AfterRestoreControl DEF RestoreWrite
<1>19. ASSUME IoError PROVE ControlInv'
  <2>1. CASE \E r : Return(r)
    BY <2>1, ReturnControl, Zenon
  <2>2. CASE step \in {"publish", "rename"} /\ StartRollback
    BY <2>2, StartRollbackControl, Zenon
  <2>3. CASE step \in {"rollback", "rollbackWrite"} /\ AfterRollback("yes")
    BY <2>3, AfterRollbackControl, Zenon
  <2>4. CASE step = "complete" /\ step' = "cleanup" /\ result' = "ok" /\ UNCHANGED local
    BY <2>4, Zenon DEF Distinct
  <2> QED BY <1>19, <2>1, <2>2, <2>3, <2>4, Zenon DEF IoError
<1>20. ASSUME Crash PROVE ControlInv'
  BY <1>20, ReturnControl, Zenon DEF Crash
<1>21. ASSUME NEW f \in Shared, NEW c \in Content, ForeignWrite(f, c) PROVE ControlInv'
  BY <1>21, EntryFacts, Zenon DEF ForeignWrite, Contested
<1>22. ASSUME UNCHANGED vars PROVE ControlInv'
  BY <1>22 DEF vars
<1>23. ASSUME OverlookJournal PROVE ControlInv'
  <2>1. CASE Return("nothing")
    BY <2>1, ReturnControl, Zenon
  <2>2. CASE step' = "cleanup" /\ UNCHANGED local
    BY <2>2, Zenon DEF Distinct
  <2> QED
    BY <1>23, <2>1, <2>2, Zenon DEF OverlookJournal
<1> QED
  BY Zenon, <1>1, <1>2, <1>3, <1>4, <1>5, <1>6, <1>7, <1>8, <1>9, <1>10, <1>11, <1>12,
     <1>13, <1>14, <1>15, <1>16, <1>17, <1>18, <1>19, <1>20, <1>21, <1>22, <1>23
     DEF Next, Publication, Recovery

\* The journal just written from memory is non-empty and within bounds.
LEMMA WrittenJournal ==
  ASSUME IInv, step \in Journaled, NEW phase \in Phase, WriteJournal(phase)
  PROVE  /\ jrn' = [phase |-> phase, entries |-> entries]
         /\ jrn'.entries # <<>> /\ Len(jrn'.entries) <= MaxFiles /\ Distinct(jrn'.entries)
<1>1. Len(txn) \in 1..MaxFiles
  BY PlannedFacts
<1>2. Len(entries) = Len(txn) /\ Distinct(entries)
  BY DEF IInv, ControlInv
<1>3. jrn' = [phase |-> phase, entries |-> entries] /\ jrn'.entries = entries
  BY DEF WriteJournal
<1>4. entries # <<>>
  BY <1>1, <1>2, JournalAssumption
<1> QED BY <1>1, <1>2, <1>3, <1>4, JournalAssumption

\* Every step keeps the journal on disk in line with the memory of its holder.
LEMMA LinkStep == IInv /\ [Next]_vars => LinkInv'
<1> SUFFICES ASSUME IInv, [Next]_vars PROVE LinkInv'
  OBVIOUS
<1> TypeOK /\ ControlInv /\ LinkInv
  BY DEF IInv
<1> USE JournalAssumption, NoJournalAssumption DEF LinkInv, Journaled, Publishing, Recovering, disk, local
<1>1. ASSUME NEW t \in Transactions, BeginTransaction(t) PROVE LinkInv'
  BY <1>1, EntryFacts, Zenon DEF BeginTransaction
<1>2. ASSUME BeginRecover PROVE LinkInv'
  BY <1>2, EntryFacts, Zenon DEF BeginRecover
<1>3. ASSUME CheckInput PROVE LinkInv'
  BY SMTT(20), <1>3, PlannedFacts, EntryFacts DEF CheckInput, Return, NoLocals, Loop
<1>4. ASSUME CreateJournalDir PROVE LinkInv'
  <2>1. entries = <<>> /\ step' = "preimage"
    BY <1>4, Zenon DEF CreateJournalDir, ControlInv
  <2> QED BY <1>4, <2>1 DEF CreateJournalDir
<1>5. ASSUME WritePreImage PROVE LinkInv'
  <2>1. /\ idx \in 1..Len(txn) /\ Len(txn) \in 1..MaxFiles /\ Len(entries) = idx - 1
        /\ blobs \in [1..MaxFiles -> Bytes \cup {NoBlob}]
    BY <1>5, PlannedFacts, Zenon DEF WritePreImage, ControlInv, TypeOK
  <2> DEFINE new == [file |-> txn[idx].file, pre |-> Sha(live[txn[idx].file]),
                     post |-> Sha(txn[idx].content)]
  <2>2. entries' = Append(entries, new) /\ new.pre = Sha(live[txn[idx].file])
    BY <1>5, Zenon DEF WritePreImage
  <2> HIDE DEF new
  <2>3. /\ DOMAIN entries' = 1..idx
        /\ \A i \in 1..idx : entries'[i] = IF i < idx THEN entries[i] ELSE new
    BY SMTT(30), <2>1, <2>2, EntryFacts
  <2>4. blobs'[idx] = live[txn[idx].file] /\ \A i \in 1..idx : i # idx => blobs'[i] = blobs[i]
    BY <1>5, <2>1 DEF WritePreImage
  <2>5. \A i \in 1..idx : i < idx => Sha(blobs[i]) = entries[i].pre
    <3>1. \A i \in DOMAIN entries : Sha(blobs[i]) = entries[i].pre
      BY <1>5, Zenon DEF WritePreImage
    <3>2. DOMAIN entries = 1..(idx - 1)
      BY <2>1, EntryFacts, Zenon
    <3> QED BY <2>1, <3>1, <3>2
  <2>6. \A i \in DOMAIN entries' : Sha(blobs'[i]) = entries'[i].pre
    BY SMTT(20), <2>1, <2>2, <2>3, <2>4, <2>5
  <2> QED BY <1>5, <2>6, Zenon DEF WritePreImage, Loop
<1>6. ASSUME WriteUncommitted PROVE LinkInv'
  <2>1. /\ jrn' = [phase |-> "uncommitted", entries |-> entries] /\ entries' = entries
        /\ jrn'.entries # <<>> /\ Len(jrn'.entries) <= MaxFiles /\ Distinct(jrn'.entries)
    BY <1>6, WrittenJournal, Zenon DEF WriteUncommitted, Phase
  <2> QED BY <1>6, <2>1, Zenon DEF WriteUncommitted
<1>7. ASSUME WriteCommitted PROVE LinkInv'
  <2>1. /\ jrn' = [phase |-> "committed", entries |-> entries] /\ entries' = entries
        /\ jrn'.entries # <<>> /\ Len(jrn'.entries) <= MaxFiles /\ Distinct(jrn'.entries)
    BY <1>7, WrittenJournal, ZenonT(30) DEF WriteCommitted, Phase
  <2> QED BY <1>7, <2>1, Zenon DEF WriteCommitted
<1>8. ASSUME PublishCheck PROVE LinkInv'
  BY SMTT(20), <1>8, PlannedFacts, EntryFacts DEF PublishCheck, StartRollback
<1>9. ASSUME PublishRename PROVE LinkInv'
  BY <1>9, PlannedFacts, EntryFacts, Zenon DEF PublishRename, Loop
<1>10. ASSUME RollbackOpen PROVE LinkInv'
  BY SMTT(20), <1>10, PlannedFacts, EntryFacts DEF RollbackOpen, AfterRollback, Return, NoLocals
<1>11. ASSUME RollbackWrite PROVE LinkInv'
  BY <1>11, PlannedFacts, EntryFacts, Zenon DEF RollbackWrite, AfterRollback, Return, NoLocals
<1>12. ASSUME MarkCompleted PROVE LinkInv'
  <2>1. /\ jrn' = [phase |-> "completed", entries |-> entries] /\ entries' = entries
        /\ jrn'.entries # <<>> /\ Len(jrn'.entries) <= MaxFiles /\ Distinct(jrn'.entries)
    BY <1>12, WrittenJournal, Zenon DEF MarkCompleted, Phase
  <2> QED BY <1>12, <2>1, Zenon DEF MarkCompleted
<1>13. ASSUME RemoveItem PROVE LinkInv'
  BY <1>13, EntryFacts, Zenon DEF RemoveItem
<1>14. ASSUME RemoveDir PROVE LinkInv'
  BY <1>14, EntryFacts, Zenon DEF RemoveDir, Return, NoLocals
<1>15. ASSUME InspectJournal PROVE LinkInv'
  <2>1. CASE step' \in {"idle", "cleanup"}
    BY <1>15, <2>1, Zenon DEF InspectJournal
  <2>2. CASE jrn # NoJournal /\ jrn.phase = "committed" /\ step' = "scan"
             /\ entries' = jrn.entries
    <3>1. jrn \in Journal
      BY <2>2, Zenon DEF TypeOK
    <3>2. jrn = [phase |-> "committed", entries |-> jrn.entries]
      BY <2>2, <3>1, Zenon DEF Journal
    <3> QED BY <1>15, <2>2, <3>2, Zenon DEF InspectJournal
  <2> QED BY <1>15, <2>1, <2>2, Zenon DEF InspectJournal, Return
<1>16. ASSUME ScanLive PROVE LinkInv'
  BY <1>16, EntryFacts, Zenon DEF ScanLive
<1>17. ASSUME RestoreEntry PROVE LinkInv'
  BY <1>17, EntryFacts, ZenonT(30) DEF RestoreEntry, AfterRestore, Loop, Return, NoLocals
<1>18. ASSUME RestoreWrite PROVE LinkInv'
  BY <1>18, EntryFacts DEF RestoreWrite, AfterRestore, Loop, Return, NoLocals
<1>19. ASSUME IoError PROVE LinkInv'
  <2>1. step # "preimage" => UNCHANGED disk
    BY SMTT(20), <1>19 DEF IoError, TearPreImage, disk
  <2>2. CASE step = "preimage"
    <3>1. step' = "idle" /\ jrn' = jrn
      BY <1>19, <2>2, Zenon DEF IoError, Return
    <3> QED BY <3>1, Zenon
  <2> QED
    BY ZenonT(20), <1>19, <2>1, <2>2, PlannedFacts, EntryFacts
       DEF IoError, StartRollback, AfterRollback, Return, NoLocals, disk
<1>20. ASSUME Crash PROVE LinkInv'
  BY <1>20, EntryFacts, Zenon DEF Crash, Return, NoLocals, Tear
<1>21. ASSUME NEW f \in Shared, NEW c \in Content, ForeignWrite(f, c) PROVE LinkInv'
  BY <1>21, EntryFacts DEF ForeignWrite, Contested
<1>22. ASSUME UNCHANGED vars PROVE LinkInv'
  BY <1>22, Zenon DEF vars
<1>23. ASSUME OverlookJournal PROVE LinkInv'
  <2>1. step' \in {"idle", "cleanup"} /\ jrn' = jrn
    BY <1>23, Zenon DEF OverlookJournal, Return
  <2> QED
    BY <2>1, Zenon
<1> QED
  BY ZenonT(20), <1>1, <1>2, <1>3, <1>4, <1>5, <1>6, <1>7, <1>8, <1>9, <1>10, <1>11, <1>12,
     <1>13, <1>14, <1>15, <1>16, <1>17, <1>18, <1>19, <1>20, <1>21, <1>22, <1>23
     DEF Next, Publication, Recovery

-----------------------------------------------------------------------------
(* Which image every file carries: what rollback and restore leave behind, *)
(* and the publication steps.                                              *)

\* What has voided a promise stays on the record.
LEMMA VoidedGrows == ASSUME [Next]_vars PROVE voided \subseteq voided'
<1> USE DEF disk, local
<1>1. ASSUME NEW t \in Transactions, BeginTransaction(t) PROVE voided \subseteq voided'
  BY <1>1 DEF BeginTransaction
<1>2. CASE BeginRecover
  BY <1>2, Zenon DEF BeginRecover
<1>3. CASE Publication
  BY <1>3, Zenon DEF Publication, CheckInput, CreateJournalDir, WritePreImage,
       WriteUncommitted, WriteCommitted, PublishCheck, PublishRename,
       RollbackOpen, RollbackWrite, MarkCompleted, RemoveItem, RemoveDir
<1>4. CASE Recovery
  BY <1>4, ZenonT(30) DEF Recovery, InspectJournal, ScanLive, RestoreEntry, RestoreWrite
<1>5. CASE OverlookJournal \/ IoError \/ Crash
  BY <1>5 DEF OverlookJournal, IoError, Crash, Tear
<1>6. ASSUME NEW f \in Shared, NEW c \in Content, ForeignWrite(f, c)
      PROVE  voided \subseteq voided'
  BY <1>6 DEF ForeignWrite
<1>7. CASE UNCHANGED vars
  BY <1>7, Zenon DEF vars
<1> QED BY <1>1, <1>2, <1>3, <1>4, <1>5, <1>6, <1>7, Zenon DEF Next

\* A step that leaves the files and the journal alone leaves a half-applied
\* transaction half applied, and recoverable if no file is torn.
LEMMA HalfAppliedKept ==
  ASSUME live' = live, jrn' = jrn
  PROVE  HalfApplied' <=> HalfApplied
  BY Zenon DEF HalfApplied, AllPost, AllPre

\* A step that leaves the disk alone leaves it recoverable.
LEMMA RecoverableKept ==
  ASSUME IInv, voided = {}, UNCHANGED disk, step \notin {"rollbackWrite", "restoreWrite"}
  PROVE  Recoverable'
<1>1. Recoverable
  BY DEF IInv, ImageInv
<1>2. live' = live /\ jrn' = jrn /\ blobs' = blobs
  BY DEF disk
<1>3. HalfApplied' <=> HalfApplied
  BY <1>2, HalfAppliedKept, Zenon
<1> QED BY <1>1, <1>2, <1>3 DEF Recoverable

\* Without a half-applied transaction there is nothing to recover.
LEMMA NothingHalfApplied == ASSUME ~HalfApplied' PROVE Recoverable'
  BY ZenonT(30) DEF Recoverable

\* What must be shown of a step that leads to a place without images of its own.
LEMMA PlainPlace ==
  ASSUME step' \in {"idle", "cas", "mkdir", "recover", "scan"}, Recoverable'
  PROVE  ImageInv'
  BY DEF ImageInv, SavedInv, PublishInv, RollbackInv, CompleteInv, RestoreInv, CleanupInv

\* The parts of the invariant that matter at each place.
LEMMA ImageParts ==
  ASSUME IInv, voided = {}
  PROVE  /\ TypeOK /\ ControlInv /\ LinkInv
         /\ SavedInv /\ PublishInv /\ RollbackInv /\ CompleteInv /\ RestoreInv
         /\ CleanupInv /\ Recoverable
  BY Zenon DEF IInv, ImageInv

\* From the commit record to the completion marker, journal and memory agree.
LEMMA PublishingFacts ==
  ASSUME IInv, step \in Publishing
  PROVE  /\ jrn # NoJournal /\ jrn.phase = "committed" /\ jrn.entries = entries
         /\ DOMAIN entries = 1..Len(txn) /\ Len(txn) \in Nat /\ idx \in 1..Len(txn)
         /\ \A i \in DOMAIN entries : /\ entries[i].file = txn[i].file
                                      /\ entries[i].post = Sha(txn[i].content)
                                      /\ Sha(blobs[i]) = entries[i].pre
                                      /\ entries[i].file \in File
                                      /\ txn[i].content \in Content
                                      /\ blobs[i] \in Bytes
         /\ Distinct(entries)
<1>1. TypeOK /\ ControlInv /\ LinkInv
  BY Zenon DEF IInv
<1>2. jrn = [phase |-> "committed", entries |-> entries]
  BY <1>1, Zenon DEF LinkInv
<1>3. jrn \in Journal
  BY <1>1, <1>2 DEF TypeOK, Journal, Phase
<1>4. jrn # NoJournal
  BY <1>3, NoJournalAssumption, Zenon
<1>5. /\ Len(entries) = Len(txn) /\ Distinct(entries)
      /\ \A i \in DOMAIN entries : /\ entries[i].file = txn[i].file
                                   /\ entries[i].post = Sha(txn[i].content)
                                   /\ Sha(blobs[i]) = entries[i].pre
  BY <1>1, Zenon DEF ControlInv, LinkInv, Journaled
<1>6. /\ DOMAIN entries = 1..Len(txn) /\ Len(txn) \in Nat /\ idx \in 1..Len(txn)
      /\ \A i \in DOMAIN entries : txn[i].content \in Content
  BY <1>1, <1>5, EntryFacts, PlannedFacts, JournalAssumption DEF Journaled
<1>7. \A i \in DOMAIN entries : entries[i].file \in File /\ entries[i].pre \in Hash
  BY <1>1, EntryFacts, Zenon
<1>8. \A i \in DOMAIN entries : blobs[i] \in Bytes
  <2> TAKE i \in DOMAIN entries
  <2>1. PICK b \in Bytes : entries[i].pre = Sha(b)
    BY <1>7, Zenon DEF Hash, Sha
  <2> QED
    BY <1>5, <2>1, ShaFacts, Zenon
<1> QED
  BY <1>2, <1>4, <1>5, <1>6, <1>7, <1>8, Zenon

\* All files at one of their images everywhere: nothing is half applied.
LEMMA AllPreNotHalf ==
  ASSUME NEW es, jrn'.entries = es,
         \A i \in DOMAIN es : Sha(live'[es[i].file]) = es[i].pre
  PROVE  ~HalfApplied'
  BY Zenon DEF HalfApplied, AllPre

\* The same with every file at its new image.
LEMMA AllPostNotHalf ==
  ASSUME NEW es, jrn'.entries = es,
         \A i \in DOMAIN es : Sha(live'[es[i].file]) = es[i].post
  PROVE  ~HalfApplied'
  BY DEF HalfApplied, AllPost

\* When the rollback starts, the files before the failed one carry the new image and
\* the others the old one.
LEMMA StartRollbackImages ==
  ASSUME IInv, voided = {}, UNCHANGED disk, step \in {"publish", "rename"}, StartRollback
  PROVE  ImageInv'
<1>1. /\ jrn.entries = entries /\ idx \in 1..Len(txn)
      /\ DOMAIN entries = 1..Len(txn) /\ Len(txn) \in Nat
  BY PublishingFacts, Zenon DEF Publishing
<1>2. \A i \in DOMAIN entries : IF i < idx THEN IsPost(i) ELSE IsPre(i)
  BY ImageParts DEF PublishInv
<1>3. /\ step' = IF idx = 1 THEN "cleanup" ELSE "rollback"
      /\ published' = idx - 1 /\ idx' = 1 /\ result' = "failed"
      /\ entries' = entries /\ live' = live /\ jrn' = jrn
  BY DEF StartRollback, disk
<1>4. Recoverable'
  BY RecoverableKept, Zenon
<1>5. \A i \in DOMAIN entries : (IsPost(i)' <=> IsPost(i)) /\ (IsPre(i)' <=> IsPre(i))
  BY <1>3, Zenon DEF IsPost, IsPre
<1>6. CASE idx = 1
  <2>1. \A i \in DOMAIN entries : IsPre(i)'
    BY <1>1, <1>2, <1>5, <1>6
  <2>2. ~HalfApplied'
    BY <1>1, <1>3, <2>1, AllPreNotHalf, Zenon DEF IsPre
  <2> QED
    BY <1>3, <1>4, <1>6, <2>1, <2>2, Zenon
       DEF ImageInv, SavedInv, PublishInv, RollbackInv, CompleteInv, RestoreInv, CleanupInv
<1>7. CASE idx # 1
  <2>1. \A i \in DOMAIN entries : /\ i >= 1 /\ i <= idx - 1 => IsPost(i)'
                                  /\ i > idx - 1 => IsPre(i)'
                                  /\ ~(i < 1)
    BY <1>1, <1>2, <1>5
  <2> QED
    BY <1>3, <1>4, <1>7, <2>1, Zenon
       DEF ImageInv, SavedInv, PublishInv, RollbackInv, CompleteInv, RestoreInv, CleanupInv
<1> QED BY <1>6, <1>7, Zenon

\* The rollback of file idx is over; live' holds what it left.
LEMMA AfterRollbackImages ==
  ASSUME IInv, voided = {}, NEW failure \in {"no", "yes"},
         step \in {"rollback", "rollbackWrite"}, AfterRollback(failure),
         jrn' = jrn, blobs' = blobs,
         incomplete = "yes" => failure = "yes",
         \/ Sha(live'[entries[idx].file]) = entries[idx].pre
         \/ Sha(live'[entries[idx].file]) = entries[idx].post /\ failure = "yes",
         \A i \in DOMAIN entries : i # idx => live'[entries[i].file] = live[entries[i].file]
  PROVE  ImageInv'
<1> DEFINE Now(i) == Sha(live'[entries[i].file])
<1>1. /\ jrn.entries = entries /\ idx \in 1..Len(txn)
      /\ DOMAIN entries = 1..Len(txn) /\ Len(txn) \in Nat
      /\ \A i \in DOMAIN entries : Sha(blobs[i]) = entries[i].pre
  BY PublishingFacts, Zenon DEF Publishing
<1>2. /\ idx <= published /\ published \in Nat /\ result = "failed"
      /\ incomplete \in {"no", "yes"}
  BY ImageParts, JournalAssumption DEF TypeOK, ControlInv
<1>3. \A i \in DOMAIN entries :
        /\ i <= idx => Now(i) = entries[i].pre \/ (Now(i) = entries[i].post /\ failure = "yes")
        /\ i > idx /\ i <= published => Now(i) = entries[i].post
        /\ i > published => Now(i) = entries[i].pre
  <2> SUFFICES ASSUME NEW i \in DOMAIN entries
               PROVE  /\ i <= idx => Now(i) = entries[i].pre
                                     \/ (Now(i) = entries[i].post /\ failure = "yes")
                      /\ i > idx /\ i <= published => Now(i) = entries[i].post
                      /\ i > published => Now(i) = entries[i].pre
    BY SMTT(30)
  <2>1. i \in Nat /\ idx \in Nat
    BY <1>1
  <2>2. /\ i < idx => IsPre(i) \/ (IsPost(i) /\ incomplete = "yes")
        /\ i > published => IsPre(i)
        /\ i >= idx /\ i <= published =>
             IsPost(i) \/ (i = idx /\ step = "rollbackWrite")
    BY ImageParts, Zenon DEF RollbackInv
  <2>3. CASE i = idx
    BY SMTT(30), <1>2, <2>1, <2>3
  <2>4. CASE i # idx
    BY <1>2, <2>1, <2>2, <2>4 DEF IsPre, IsPost
  <2> QED BY <2>3, <2>4, Zenon
<1>4. Recoverable'
  <2>1. \A i \in DOMAIN entries : Now(i) \in {entries[i].pre, entries[i].post}
    BY SMTT(30), <1>1, <1>2, <1>3
  <2> QED
    BY <1>1, <2>1, Zenon DEF Recoverable
<1>5. CASE idx < published
  <2>1. /\ step' = "rollback" /\ idx' = idx + 1 /\ incomplete' = failure
        /\ entries' = entries /\ published' = published
    BY <1>5, Zenon DEF AfterRollback
  <2>2. RollbackInv'
    BY <1>1, <1>2, <1>3, <2>1 DEF RollbackInv, IsPre, IsPost
  <2> QED
    BY <1>4, <2>1, <2>2
       DEF ImageInv, SavedInv, PublishInv, CompleteInv, RestoreInv, CleanupInv
<1>6. CASE ~(idx < published) /\ failure = "yes"
  BY <1>4, <1>6, PlainPlace, Zenon DEF AfterRollback, Return
<1>7. CASE ~(idx < published) /\ failure # "yes"
  <2>1. step' = "cleanup" /\ entries' = entries /\ result' = "failed"
    BY <1>2, <1>7, Zenon DEF AfterRollback
  <2>2. \A i \in DOMAIN entries : Now(i) = entries[i].pre
    BY SMTT(30), <1>1, <1>2, <1>3, <1>7
  <2>3. ~HalfApplied'
    BY <1>1, <2>2, AllPreNotHalf
  <2> QED
    BY <1>4, <2>1, <2>2, <2>3, Zenon
       DEF ImageInv, SavedInv, PublishInv, RollbackInv, CompleteInv, RestoreInv,
           CleanupInv, IsPre
<1> QED BY <1>5, <1>6, <1>7
=============================================================================
