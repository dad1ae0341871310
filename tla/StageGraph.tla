----------------------------- MODULE StageGraph -----------------------------
(***************************************************************************)
(* The stage registry and the plan of a run (pipeline/dag: registry, graph,*)
(* stages, actions, upstream): dependency closures, the stable topological *)
(* order, --from and --to, what a resumed run skips, and the reuse keys    *)
(* each executed stage is given.  A graph is a record of the declaration   *)
(* order and the dependencies; a name no spec declares is out of place in  *)
(* either.                                                                 *)
(***************************************************************************)
EXTENDS Calls, Naturals, SequencesExt, TLC

CONSTANT None        \* no --from, no --to

Cyclic == <<"cyclic">>
Stages(g) == ToSet(g.order)

\* PRODUCTION_DEPENDENCIES, in the order of declaration.
Production ==
  [order |-> <<"preflight", "inventory", "extract", "normalize", "dedupe", "chunk", "classify",
               "load-lexical", "nlp", "embed", "load-vector", "topics", "entities", "ontology",
               "facts", "graph", "domain-artifacts", "evaluate", "report">>,
   deps |-> ("preflight" :> {} @@ "inventory" :> {"preflight"} @@ "extract" :> {"inventory"}
             @@ "normalize" :> {"extract"} @@ "dedupe" :> {"normalize"}
             @@ "chunk" :> {"normalize", "dedupe"} @@ "classify" :> {"inventory", "normalize"}
             @@ "load-lexical" :> {"chunk"} @@ "nlp" :> {"normalize", "chunk"}
             @@ "embed" :> {"chunk"} @@ "load-vector" :> {"embed"} @@ "topics" :> {"nlp"}
             @@ "entities" :> {"nlp"} @@ "ontology" :> {} @@ "facts" :> {"entities", "ontology"}
             @@ "graph" :> {"facts"} @@ "domain-artifacts" :> {"facts"}
             @@ "evaluate" :> {"load-lexical", "topics", "facts", "domain-artifacts"}
             @@ "report" :> {"evaluate"})]
OptionalStages == {"embed", "load-vector", "graph"}
ProfileStages ==
  [investigation |-> Stages(Production) \ OptionalStages,
   lexical |-> {"preflight", "inventory", "extract", "normalize", "dedupe", "chunk", "classify",
                "load-lexical", "evaluate", "report"}]

RECURSIVE Gather(_, _, _)
Gather(seen, stack, next) ==
  IF stack = {} THEN seen
  ELSE LET current == CHOOSE s \in stack : TRUE
           rest == stack \ {current}
       IN  IF current \in seen THEN Gather(seen, rest, next)
           ELSE Gather(seen \cup {current}, rest \cup next[current], next)

Ancestors(g, s) == Gather({}, g.deps[s], g.deps)

Consumers(g) == [p \in Stages(g) |-> {c \in Stages(g) : p \in g.deps[c]}]
Descendants(g, s) == Gather({}, Consumers(g)[s], Consumers(g))

\* Of the stages whose selected dependencies are out, the one declared first.
RECURSIVE Emit(_, _, _)

Emit(emitted, remaining, deps) ==
  LET Free(s) == deps[s] \cap ToSet(remaining) = {}
      ready == SelectSeq(remaining, Free)
  IN  IF remaining = <<>> THEN emitted
      ELSE IF ready = <<>> THEN Cyclic
      ELSE Emit(Append(emitted, ready[1]), Remove(remaining, ready[1]), deps)

Declared(g, S) == SelectSeq(g.order, LAMBDA s : s \in S)
TopologicalOrder(g, S) == Emit(<<>>, Declared(g, S), g.deps)

\* StageRegistry refuses duplicates, unregistered dependencies and cycles.
Registers(g) ==
  /\ \A s \in Stages(g) : g.deps[s] \subseteq Stages(g)
  /\ TopologicalOrder(g, Stages(g)) # Cyclic

-----------------------------------------------------------------------------
(* select_plan.                                                            *)

Refused == [execute |-> <<>>, assumed |-> <<>>, skipped |-> <<>>, refused |-> TRUE]

\* The closure a range selects; nothing, when it is not connected.
Executed(g, required, optional, from, to) ==
  LET above == IF to = None THEN required ELSE Ancestors(g, to) \cup {to}
      below == {from} \cup Descendants(g, from)
  IN  IF from = None THEN above
      ELSE IF to # None THEN IF from \in above THEN below \cap above ELSE {}
      ELSE IF from \in optional THEN below
      ELSE below \cap (required \cup {from})

SelectPlan(g, profile, optional, from, to) ==
  LET run == Executed(g, profile \ optional, optional, from, to)
      above == IF from = None THEN {} ELSE Ancestors(g, from) \ run
  IN  IF run = {} /\ from # None THEN Refused
      ELSE [execute |-> TopologicalOrder(g, run),
            assumed |-> TopologicalOrder(g, above),
            skipped |-> Declared(g, optional \ (run \cup above)),
            refused |-> FALSE]

\* Mutant: a resumed run forgets what it has already done.
RemainingAlone(plan, done) ==
  [plan EXCEPT !.execute = SelectSeq(@, LAMBDA s : s \notin done)]

\* remaining_plan: a resumed run assumes what it has already done.
Remaining(plan, done) ==
  [plan EXCEPT !.execute = SelectSeq(@, LAMBDA s : s \notin done),
               !.assumed = @ \o SelectSeq(plan.execute, LAMBDA s : s \in done)]

-----------------------------------------------------------------------------
(* The keys of the stages, in the walk of the plan: resolve_upstream puts  *)
(* the assumed stages and all above them there before the first stage runs.*)

Resolved(g, plan) ==
  ToSet(plan.assumed) \cup UNION {Ancestors(g, s) : s \in ToSet(plan.assumed)}

\* The dependencies whose keys the i-th executed stage is run with: those
\* that are there, and no complaint about the others.
Inputs(g, plan, i) ==
  LET there == Resolved(g, plan) \cup {plan.execute[j] : j \in 1 .. i - 1}
  IN  g.deps[plan.execute[i]] \cap there

-----------------------------------------------------------------------------
(* Calls.                                                                  *)

AskPlan(g, profile, optional, from, to) ==
  Ask([op |-> "plan", graph |-> g, profile |-> profile, optional |-> optional,
       from |-> from, to |-> to, plan |-> SelectPlan(g, profile, optional, from, to)])

AskOrder(g) ==
  Ask([op |-> "order", graph |-> g, answer |-> TopologicalOrder(g, Stages(g))])

-----------------------------------------------------------------------------
(* Properties.                                                             *)

\* s is above t, said without a worklist: every set that holds what t depends
\* on and is closed under dependencies holds s.
Above(g, s, t) ==
  \A S \in SUBSET Stages(g) :
    g.deps[t] \subseteq S /\ (\A u \in S : g.deps[u] \subseteq S) => s \in S

Reaches(g, s, t) == s = t \/ Above(g, s, t)

\* topological_order refuses exactly the graphs in which some set of stages
\* waits for itself, and else emits each stage once, after its dependencies,
\* and as early as its declaration allows: a stage that is ready is overtaken
\* only by one declared before it.
OrderIsStable ==
  call.op = "order" =>
    LET g == call.graph
        o == call.answer
        Knot == \E S \in SUBSET Stages(g) : S # {} /\ \A s \in S : g.deps[s] \cap S # {}
        At(s) == CHOOSE i \in 1 .. Len(o) : o[i] = s
        Before(i) == {o[j] : j \in 1 .. i - 1}
    IN  IF Knot THEN o = Cyclic
        ELSE /\ Len(o) = Len(g.order) /\ ToSet(o) = Stages(g)
             /\ \A i \in 1 .. Len(o) : g.deps[o[i]] \subseteq Before(i)
             /\ \A i, j \in 1 .. Len(g.order) :
                  i < j /\ At(g.order[i]) > At(g.order[j]) =>
                    ~(g.deps[g.order[i]] \subseteq Before(At(g.order[j])))

\* With both ends given a plan executes exactly the stages that lie on a path
\* from one to the other, and is refused when there is none; with --to alone,
\* exactly what the endpoint needs.
RangeIsBetween ==
  call.op = "plan" /\ call.to # None =>
    LET g == call.graph
        between == {s \in Stages(g) : /\ call.from = None \/ Reaches(g, call.from, s)
                                      /\ Reaches(g, s, call.to)}
    IN  /\ call.plan.refused <=> between = {}
        /\ ToSet(call.plan.execute) = between

\* The profile holds all its stages are made from.
ProfileIsClosed(c) == \A s \in c.profile : c.graph.deps[s] \subseteq c.profile \ c.optional

\* Wherever a run without --from is interrupted, the plan it resumes with gives
\* each remaining stage the same inputs as the plan it began with, provided its
\* profile is closed under dependencies (the lexical profile is not).
ResumeKeepsInputs ==
  call.op = "plan" /\ call.from = None /\ ProfileIsClosed(call) =>
    \A n \in 0 .. Len(call.plan.execute) :
      LET plan == call.plan
          rest == Remaining(plan, {plan.execute[i] : i \in 1 .. n})
      IN  \A i \in 1 .. Len(rest.execute) :
            Inputs(call.graph, rest, i) = Inputs(call.graph, plan, i + n)

\* docs/design/architecture.md:79: a selected stage executes its closure or
\* validates exact existing artifacts, and --from does not excuse missing inputs:
\* what each stage of a cut is made from is executed before it or assumed.
FromExcusesNothing ==
  call.op = "plan" /\ call.from # None /\ ProfileIsClosed(call) =>
    \A i \in 1 .. Len(call.plan.execute) :
      Inputs(call.graph, call.plan, i) = call.graph.deps[call.plan.execute[i]]

\* What a cut does leave out lies beside it: an input that is neither executed
\* before nor assumed is not above the first stage, which does not lead to it.
CutLosesStrangers ==
  call.op = "plan" /\ call.from # None /\ ProfileIsClosed(call) =>
    \A i \in 1 .. Len(call.plan.execute) :
      LET g == call.graph
      IN  \A p \in g.deps[call.plan.execute[i]] \ Inputs(g, call.plan, i) :
            p \notin Ancestors(g, call.from) /\ call.from \notin Ancestors(g, p) \cup {p}
=============================================================================
