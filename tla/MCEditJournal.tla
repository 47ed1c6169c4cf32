--------------------------- MODULE MCEditJournal ---------------------------
(***************************************************************************)
(* Instances of the edit journal for TLC.                                  *)
(***************************************************************************)
EXTENDS EditJournalAtomic, TLC

\* Files and contents are interchangeable: no action names one of them.
Symmetry == Permutations(File) \cup Permutations(Content)

\* The same when one file is singled out as the shared one.
ContentSymmetry == Permutations(Content)

=============================================================================
