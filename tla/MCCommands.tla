----------------------------- MODULE MCCommands -----------------------------
(* The commands over the runs directory, or the tools over the projections: *)
(* a behaviour is of one of them.                                           *)
EXTENDS MCLocalPipeline, MCProjections

VARIABLE side

all == <<side, vars, projectionVars>>

CommandsInit == side \in {"pipeline", "projections"} /\ Init /\ ProjectionsInit
CommandsNext ==
  \/ side = "pipeline" /\ Next /\ UNCHANGED <<side, projectionVars>>
  \/ side = "projections" /\ ProjectionsNext /\ UNCHANGED <<side, vars>>
CommandsSpec == CommandsInit /\ [][CommandsNext]_all

CommandSymmetry == MCSymmetry \cup MCTools
=============================================================================
