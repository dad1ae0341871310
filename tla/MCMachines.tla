----------------------------- MODULE MCMachines -----------------------------
(* The machines that must come to an end: a behaviour is one of them.      *)
EXTENDS Observability, Setup, InferenceClient, ShardLedger

CONSTANT Asked       \* the machines a run has
VARIABLE machine     \* the one of a behaviour

MCUpstream == ("a" :> {}) @@ ("b" :> {"a"})
MCOwned == ("a" :> "v1") @@ ("b" :> "v2")

all == <<machine, call, logs, setups, client, stage, vars>>

MachinesInit ==
  machine \in Asked /\ call = Ready /\ LogInit /\ SetupInit /\ ClientInit /\ StageInit /\ Init
Machines ==
  \/ machine = "log" /\ LogNext /\ UNCHANGED <<setups, client, stage>>
  \/ machine = "setup" /\ SetupNext /\ UNCHANGED <<logs, client, stage>>
  \/ machine = "client" /\ ClientNext /\ UNCHANGED <<logs, setups, stage>>
  \/ machine = "stage" /\ StageNext /\ UNCHANGED <<logs, setups, client>>
MachinesNext ==
  \/ Machines /\ UNCHANGED <<machine, vars>>
  \/ machine = "ledger" /\ Next /\ UNCHANGED <<machine, call, logs, setups, client, stage>>
MachinesSpec == MachinesInit /\ [][MachinesNext]_all
FairMachines ==
  MachinesSpec /\ LogFairness /\ SetupFairness /\ ClientFairness /\ StageFairness /\ LedgerFairness

\* A call of execute returns or hands its exception on, though another contends
\* for the directory; a setup ends, though services never become healthy.
CallsEnd ==
  /\ ExecuteReturns
  /\ SetupEnds
=============================================================================
