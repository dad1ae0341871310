--------------------------- MODULE MCGpuScheduler ---------------------------
(* Threads t1 and t3, each in a process of its own.                        *)
EXTENDS GpuScheduler

CONSTANTS t1, t3, p, q

MCHome == [t \in Thread |-> IF t = t3 THEN q ELSE p]
MCOllama == [backend |-> "ollama", control |-> FALSE, cpu |-> TRUE]
MCVllm == [backend |-> "vllm", control |-> TRUE, cpu |-> FALSE]
MCEither == {MCOllama, MCVllm}
MCOther == {[MCVllm EXCEPT !.cpu = TRUE]}
=============================================================================
