--------------------------- MODULE ExclusiveLease ---------------------------
(***************************************************************************)
(* What the host GPU lease promises: one client holds the device at a      *)
(* time, and the lease ledger tells the same story, so that each row that  *)
(* ends a lease directly follows the row that began it, unless the client  *)
(* vanished and never wrote one.                                           *)
(***************************************************************************)
CONSTANTS Client, None

VARIABLES
  holder,     \* the client whose lease the ledger shows as begun, or None
  last        \* the last acquired, released or cancelled row: <<status, client>>

vars == <<holder, last>>

Init == holder = None /\ last = None

Acquire(c) ==
  /\ holder = None
  /\ holder' = c /\ last' = <<"acquired", c>>

Finish(c, status) ==
  /\ holder = c /\ last = <<"acquired", c>>
  /\ holder' = None /\ last' = <<status, c>>

\* The client died, or could not write the row that ends its lease.
Vanish ==
  /\ holder # None
  /\ holder' = None /\ UNCHANGED last

Next ==
  \/ \E c \in Client : Acquire(c) \/ \E s \in {"released", "cancelled"} : Finish(c, s)
  \/ Vanish

Spec == Init /\ [][Next]_vars
=============================================================================
