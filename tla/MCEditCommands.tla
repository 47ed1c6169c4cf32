--------------------------- MODULE MCEditCommands ---------------------------
(***************************************************************************)
(* Instances of the edit commands for TLC.                                 *)
(***************************************************************************)
EXTENDS EditCommands, TLC

\* Processes, files and contents are interchangeable.
Symmetry == Permutations(Proc) \cup Permutations(File) \cup Permutations(Content)

\* Where other programs write only some of the files.
ContentSymmetry == Permutations(Content)

=============================================================================
