-------------------------- MODULE MCInferenceDaemon --------------------------
(***************************************************************************)
(* Instances of the inference daemon for TLC.                              *)
(***************************************************************************)
EXTENDS InferenceDaemon

CONSTANTS c1, c2, q1, q2, q3

\* One client sends two requests, the other one.
MCSender == [q \in Req |-> IF q = q3 THEN c2 ELSE c1]

=============================================================================
