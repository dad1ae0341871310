------------------------------ MODULE MCRecords ------------------------------
(* What a run leaves on record: executors on one ledger, where key "b"      *)
(* consumes key "a", or attempts, snapshots and the pointer to the active   *)
(* generation.  A behaviour is of one of them.                              *)
EXTENDS ShardLedger, ActivePointer, TLC

CONSTANT Asked       \* the records a run has
VARIABLE record      \* the one of a behaviour

all == <<record, vars, publicationVars>>

MCUpstream == [k \in Key |-> IF k = "b" THEN {"a"} ELSE {}]
MCOwned == [k \in Key |-> IF k = "a" THEN "v1" ELSE "v2"]

RecordsInit == record \in Asked /\ Init /\ PointerInit
RecordsNext ==
  \/ record = "ledger" /\ Next /\ UNCHANGED <<record, publicationVars>>
  \/ record = "pointer" /\ PointerNext /\ UNCHANGED <<record, vars>>
RecordsSpec == RecordsInit /\ [][RecordsNext]_all

MCSymmetry == Permutations(Executor) \cup Permutations(RunId)
=============================================================================
