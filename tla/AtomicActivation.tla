-------------------------- MODULE AtomicActivation --------------------------
(***************************************************************************)
(* What activation promises a reader of active-generation.json: at any     *)
(* time it names one complete generation, or none yet, and it moves from   *)
(* one to the next in a single step.                                       *)
(***************************************************************************)
CONSTANTS Complete, None      \* the generations that may be activated
VARIABLE visible

Init == visible = None
Next == visible' \in Complete
Spec == Init /\ [][Next]_visible

=============================================================================
