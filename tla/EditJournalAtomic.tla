------------------------- MODULE EditJournalAtomic -------------------------
(***************************************************************************)
(* The journal implements the atomic store: the refinement mapping.        *)
(***************************************************************************)
EXTENDS EditJournal

\* From the commit record on, a transaction is undecided until its last file
\* is published or its first published file is restored; after a crash it
\* remains so for as long as recovery would restore something.
Undecided ==
  \/ step \in {"publish", "rename", "rollback", "rollbackWrite"}
  \/ HalfApplied

Undecidable == {f \in File : Undecided /\ f \in Files(jrn.entries)}

EntryOf(f) == jrn.entries[CHOOSE i \in DOMAIN jrn.entries : jrn.entries[i].file = f]

\* A reader sees the old hashes until the transaction is decided.
AbstractDb ==
  IF voided # {} THEN [f \in {} |-> f]
  ELSE [f \in File |-> IF f \in Undecidable THEN EntryOf(f).pre ELSE Sha(live[f])]

AbstractPending ==
  IF voided # {} THEN [f \in {} |-> f]
  ELSE [f \in Undecidable |-> EntryOf(f).post]

Atomic == INSTANCE AtomicStore WITH db <- AbstractDb, pending <- AbstractPending

\* A transaction is all or nothing: whatever crashes, failed calls, rollbacks
\* and recoveries come in between, an observer of the hashes sees all files of
\* a committed journal change together or none of them.  The promise ends with
\* the first event of voided: a journal that is written over or overlooked, a
\* file that somebody else writes, a restore cut off inside a file, or a failed
\* read of a finished transaction.
AllOrNothing == Atomic!Spec

=============================================================================
