------------------------------- MODULE Calls -------------------------------
(***************************************************************************)
(* A client of the sequential parts of the program: it calls an operation  *)
(* and takes the answer before it calls the next one.  Each module of      *)
(* operations extends this one and says what a call of them answers.       *)
(***************************************************************************)
VARIABLE call       \* the last call with its arguments and its answer

Ready == [op |-> "none"]

\* call' = record is the whole of an operation: nothing else keeps state.
Ask(record) == call = Ready /\ call' = record
Return == call # Ready /\ call' = Ready
=============================================================================
