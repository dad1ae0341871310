---------------------------- MODULE LedgerStates ----------------------------
(***************************************************************************)
(* The status machines of the run ledger (pipeline/control/states.py): the *)
(* table of legal steps of run, stage and shard rows, the one of reuse     *)
(* leases, and the rule every ledger write applies before it changes a     *)
(* status.  The consumer closure of pipeline/control/lineage.py is here    *)
(* too: both are pure and every ledger component uses them.                *)
(***************************************************************************)
EXTENDS Naturals

LedgerStatus ==
  {"pending", "running", "succeeded", "failed",
   "quarantined", "superseded", "stale", "pruned"}

LedgerTransitions ==
  [pending     |-> {"running", "failed", "stale", "pruned"},
   running     |-> {"succeeded", "failed", "quarantined", "stale"},
   succeeded   |-> {"superseded", "stale", "pruned", "quarantined"},
   failed      |-> {"stale", "pruned", "superseded"},
   quarantined |-> {"stale", "pruned", "superseded"},
   superseded  |-> {"stale", "pruned"},
   stale       |-> {"pruned", "superseded"},
   pruned      |-> {}]

LeaseStatus == {"acquired", "released", "expired", "failed"}

LeaseTransitions ==
  [acquired |-> {"released", "expired", "failed"},
   released |-> {},
   expired  |-> {},
   failed   |-> {}]

\* Mutant: only a failed row is protected.
LegalUnlessFailed(table, current, target) ==
  current = "failed" => target = current \/ target \in table[current]

\* require_transition: keeping a status is always legal, anything else must
\* be in the table; where this is FALSE the code raises IllegalTransitionError.
Legal(table, current, target) == target = current \/ target \in table[current]

\* The statuses that mark_stale and accept_shard treat as already retired.
Retired == {"stale", "pruned", "superseded"}

\* The statuses fail_shard leaves alone (settle._TERMINAL).
Terminal == Retired \cup {"failed"}

\* The statuses whose attempt may be served again (reusable_shard).
Accepted == {"succeeded", "quarantined"}

TransientCodes == {"timeout", "lease-expired", "connection", "busy", "interrupted"}
PermanentCodes == {"validation", "quality", "illegal-input", "checksum", "activation"}

\* The changed keys and every consumer reachable over the producer-consumer
\* pairs in edges: the least set that contains roots and is closed under edges.
StaleClosure(keys, roots, edges) ==
  LET Closed(S) == \A e \in edges : e[1] \in S => e[2] \in S
  IN  {k \in keys : \A S \in SUBSET keys : roots \subseteq S /\ Closed(S) => k \in S}
=============================================================================
