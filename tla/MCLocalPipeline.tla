-------------------------- MODULE MCLocalPipeline --------------------------
(* Instances of LocalPipeline: stage "index" is made from stage "extract". *)
EXTENDS LocalPipeline, TLC

MCStages == <<"extract", "index">>
MCProducers == [s \in Stage |-> IF s = "index" THEN {"extract"} ELSE {}]
MCDefault == <<"default">>
MCShards == <<"doc1", "doc2">>
MCSymmetry == Permutations(Command) \cup Permutations(Run)
=============================================================================
