----------------------------- MODULE MCProposals -----------------------------
(***************************************************************************)
(* Instances of the proposals for TLC.                                     *)
(***************************************************************************)
EXTENDS Proposals, TLC

CONSTANTS r1, r2

\* Two runs: one changes two paths, the other one of them.
MCDelta == [r \in Run |-> IF r = r1 THEN {1, 2} ELSE {1}]

\* The first run deletes the first of its paths.
MCDeleted == [r \in Run |-> IF r = r1 THEN {1} ELSE {}]

\* The first run applies its proposal, the second keeps its workspace.
MCFlags == [r \in Run |-> IF r = r1 THEN {{"apply"}} ELSE {{"keep"}}]

Symmetry == Permutations(Proc)

=============================================================================
