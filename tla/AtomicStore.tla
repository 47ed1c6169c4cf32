---------------------------- MODULE AtomicStore ----------------------------
(***************************************************************************)
(* What the edit journal promises: a store of files in which a transaction *)
(* takes effect on all of its files at once or on none, whatever crashes   *)
(* and failures interrupt it.  Files are known by the hash of their bytes. *)
(***************************************************************************)
CONSTANTS
  File,   \* the files of the store
  Hash    \* the hashes a file may have

VARIABLES
  db,       \* hash of each file; no file at all once the promise is void
  pending   \* new hashes of the files of the undecided transaction

Nothing == [f \in {} |-> f]

Init == db \in [File -> Hash] /\ pending = Nothing

\* A transaction over some files is promised.
Start ==
  /\ db # Nothing /\ pending = Nothing
  /\ pending' # Nothing
  /\ \E S \in SUBSET File : pending' \in [S -> Hash]
  /\ UNCHANGED db

\* All of its files change at once.
Commit ==
  /\ pending # Nothing
  /\ db' = [f \in DOMAIN db |-> IF f \in DOMAIN pending THEN pending[f] ELSE db[f]]
  /\ pending' = Nothing

\* None of them does.
Abort ==
  /\ pending # Nothing
  /\ pending' = Nothing
  /\ UNCHANGED db

\* Somebody else writes a file no undecided transaction is about.
Foreign(f, h) ==
  /\ f \in DOMAIN db /\ f \notin DOMAIN pending
  /\ db' = [db EXCEPT ![f] = h]
  /\ UNCHANGED pending

\* An event the promise does not cover; nothing is promised any more.
Void == db' = Nothing /\ pending' = Nothing

Next ==
  \/ Start \/ Commit \/ Abort \/ Void
  \/ \E f \in File, h \in Hash : Foreign(f, h)

Spec == Init /\ [][Next]_<<db, pending>>

=============================================================================
