------------------------------ MODULE Evolution -----------------------------
(***************************************************************************)
(* How contracts and the ontology may change (contracts/evolution,         *)
(* ontology): from one accepted state to the next.                         *)
(***************************************************************************)
EXTENDS Calls, Integers, FiniteSets, SequencesExt

-----------------------------------------------------------------------------
(***************************************************************************)
(* The evolution policy of data contracts (contracts/evolution): what      *)
(* changed since the reviewed baseline, how grave that is, and the version *)
(* it asks for.  A snapshot is what schema_snapshot and projection_        *)
(* snapshot keep of one contract.                                          *)
(***************************************************************************)

NoField == [type |-> "none", required |-> FALSE]
Present(fields) == {n \in DOMAIN fields : fields[n] # NoField}

Majors == {"breaking", "vector-dimension", "semantic-retarget"}
Minors == {"additive", "reindex", "graph-projection"}

-----------------------------------------------------------------------------
(* What changed.                                                           *)
ClassifyChange(old, new) ==
  CASE \/ Present(old) \ Present(new) # {}
       \/ \E n \in Present(new) \ Present(old) : new[n].required
       \/ \E n \in Present(old) \cap Present(new) : old[n] # new[n]  -> "breaking"
    [] /\ Present(old) \subseteq Present(new) /\ Present(old) # Present(new)
       /\ \A n \in Present(new) : ~new[n].required \/ new[n] = old[n]
       /\ \A n \in Present(old) : new[n] = old[n]                    -> "additive"
    [] old = new -> "identical"

\* classify_projection_change: each hint may raise the class, none lowers it.
ClassifyProjections(old, new) ==
  CASE old.dims # new.dims -> "vector-dimension"
    [] old.dims = new.dims /\ (old.search # new.search \/ old.vector # new.vector) -> "reindex"
    [] OTHER -> IF old.graph # new.graph THEN "graph-projection" ELSE "none"
ClassifySemantics(old, new) == IF old.semantics = new.semantics THEN "none" ELSE "semantic-retarget"

Gravity(class) ==
  CASE class = "breaking" -> 60 [] class = "vector-dimension" -> 50
    [] class = "semantic-retarget" -> 40 [] class = "reindex" -> 30
    [] class = "graph-projection" -> 20 [] class = "additive" -> 10 [] OTHER -> 0
\* merge_change_reports: the gravest, the first of equals.
Merge(reports) ==
  LET best == CHOOSE r \in reports : \A other \in reports : Gravity(r) >= Gravity(other)
  IN  IF Gravity(best) = 0 THEN "identical" ELSE best
ClassifyEvolution(old, new) ==
  Merge({ClassifyChange(old.fields, new.fields), ClassifyProjections(old, new),
         ClassifySemantics(old, new)})

-----------------------------------------------------------------------------
(* What version it asks for.                                               *)
Below(v, w) ==
  \/ v[1] < w[1] \/ (v[1] = w[1] /\ v[2] < w[2])
  \/ v[1] = w[1] /\ v[2] = w[2] /\ v[3] < w[3]
MinorKept(old, new) == new[1] < old[1] \/ (new[1] = old[1] /\ new[2] <= old[2])
MinorBumpErrors(old, new, class) ==
  CASE Below(new, old) -> {"backward"}
    [] ~Below(new, old) /\ class \in Minors \cup Majors /\ MinorKept(old, new) -> {"minor"}
    [] OTHER -> {}
VersionErrors(old, new, class) ==
  CASE Below(new, old) -> {"backward"}
    [] ~Below(new, old) /\ class \in Minors /\ MinorKept(old, new) -> {"minor"}
    [] ~Below(new, old) /\ class \in Majors /\ new[1] <= old[1] -> {"major"}
    [] OTHER -> {}
\* Of a change that is not identical the version is looked at.
ContractFindings(old, new) ==
  LET class == ClassifyEvolution(old, new)
  IN  IF class = "identical" THEN {} ELSE {class} \cup VersionErrors(old.version, new.version, class)

\* freeze_baseline: a changed snapshot is appended; the check that tells is
\* the one before it, which always names the class of a change.
FreezeBaseline(history, snapshot) ==
  IF history # <<>> /\ history[Len(history)] = snapshot THEN history ELSE Append(history, snapshot)
Reviewed(history, snapshot) ==
  \/ history = <<>>
  \/ ContractFindings(history[Len(history)], snapshot) \cap {"backward", "minor", "major"} = {}

AskEvolution(old, new) ==
  Ask([op |-> "evolve", old |-> old, new |-> new, findings |-> ContractFindings(old, new)])
\* A contract is changed and frozen, time after time, as the check tells.
AskBaselines(snapshots) ==
  LET frozen[i \in 0 .. Len(snapshots)] ==
        IF i = 0 THEN <<>>
        ELSE IF Reviewed(frozen[i - 1], snapshots[i]) THEN FreezeBaseline(frozen[i - 1], snapshots[i])
        ELSE frozen[i - 1]
  IN  Ask([op |-> "freeze", history |-> frozen[Len(snapshots)]])

-----------------------------------------------------------------------------
(* Several consequences in one change hide none: a change that is not      *)
(* identical gets no finding about its version only if the version did not *)
(* move back and rose as far as each consequence alone asks.               *)
StrictestBump ==
  (call.op = "evolve" /\ call.findings # {}) =>
    LET old == call.old new == call.new
        major == \/ \E n \in DOMAIN old.fields :
                      /\ old.fields[n] # new.fields[n]
                      /\ old.fields[n] # NoField \/ new.fields[n].required
                 \/ old.dims # new.dims \/ old.semantics # new.semantics
        refused == \/ Below(new.version, old.version)
                   \/ IF major THEN new.version[1] = old.version[1]
                      ELSE new.version[1] = old.version[1] /\ new.version[2] = old.version[2]
    IN  refused <=> call.findings \cap {"backward", "minor", "major"} # {}

(* A row that one baseline of a contract admits is admitted by every later *)
(* one of the same major version, over any number of reviewed changes,     *)
(* unless an identical snapshot was frozen under a lower version.          *)
Admits(fields, row) ==
  \A n \in DOMAIN fields :
    IF fields[n].required THEN row[n] = fields[n].type ELSE row[n] \in {"none", fields[n].type}
SameMajorReads ==
  call.op = "freeze" =>
    LET h == call.history
        climbs == \A i \in 1 .. Len(h) - 1 : ~Below(h[i + 1].version, h[i].version)
    IN  \A i, j \in 1 .. Len(h) :
          (climbs /\ i < j /\ h[i].version[1] = h[j].version[1]) =>
            \A row \in [DOMAIN h[i].fields -> {"none", "t1", "t2"}] :
              Admits(h[i].fields, row) => Admits(h[j].fields, row)

-----------------------------------------------------------------------------
(***************************************************************************)
(* The ontology (ontology/): the validation of assertions against a        *)
(* catalog of classes and predicates, the classification of a change of    *)
(* the catalog, and the search for cycles among parts.  A catalog maps the *)
(* classes and predicates it declares to what it says of them.             *)
(***************************************************************************)

-----------------------------------------------------------------------------
(* Validation.                                                             *)

\* subclass_closure; of a class that is not declared it is the class alone.
Parents(catalog, c) == IF c \in DOMAIN catalog.classes THEN catalog.classes[c].parents ELSE {}
SubclassClosure(catalog, types) ==
  LET up[n \in Nat] == IF n = 0 THEN types
                       ELSE up[n - 1] \cup UNION {Parents(catalog, c) : c \in up[n - 1]}
  IN  up[Cardinality(DOMAIN catalog.classes)]
DisjointConflict(catalog, closure) ==
  \E c \in closure \cap DOMAIN catalog.classes : catalog.classes[c].disjoint \cap closure # {}
Datatypes == {"string", "number"}
\* _matches_domain_or_range: one of the classes required, if any class is.
Matches(closure, required) == required \subseteq Datatypes \/ closure \cap required # {}
\* _range_literal_ok: a literal without a datatype is a string.
LiteralFits(a, p) == p.ranges = {} \/ (IF a.datatype = "none" THEN "string" ELSE a.datatype) \in p.ranges
\* A confidence score is a number from 0 to 1; texts are put by where they lie.
ScoreFits(a) == a.predicate # "confidence-score" \/ a.text \in {"low", "high"}

\* _assertion_findings: whether there are none.  The assertions of one subject
\* by one predicate are as many as they say; an assertion has an object, a
\* literal, both or neither.
Accepts(catalog, a, allowDeprecated) ==
  /\ a.predicate \in DOMAIN catalog.predicates
  /\ LET p == catalog.predicates[a.predicate]
         subject == SubclassClosure(catalog, a.subject)
         object == SubclassClosure(catalog, a.object)
     IN  /\ p.status = "active" \/ (allowDeprecated /\ p.status = "deprecated")
         /\ ~DisjointConflict(catalog, subject) /\ Matches(subject, p.domains)
         /\ \/ /\ a.value = {"object"} /\ p.kind = "object"
               /\ ~DisjointConflict(catalog, object) /\ Matches(object, p.ranges)
            \/ a.value = {"literal"} /\ p.kind = "datatype" /\ LiteralFits(a, p) /\ ScoreFits(a)
         /\ p.functional => a.count = 1

-----------------------------------------------------------------------------
(* Evolution.                                                              *)
PredicateBreaks(old, new) ==
  \E p \in DOMAIN old.predicates :
    LET before == old.predicates[p]
    IN  IF p \notin DOMAIN new.predicates THEN before.status = "active"
        ELSE LET after == new.predicates[p]
             IN  \/ \E f \in {"uri", "kind", "domains", "ranges", "functional", "binding"} : before[f] # after[f]
                 \/ before.status = "active" /\ after.status = "deprecated" /\ ~after.successor
ClassBreaks(old, new) ==
  \E c \in DOMAIN old.classes :
    IF c \notin DOMAIN new.classes THEN old.classes[c].status = "active"
    ELSE \E f \in {"uri", "parents", "disjoint"} : old.classes[c][f] # new.classes[c][f]
ClassifyOntology(old, new) ==
  IF PredicateBreaks(old, new) \/ ClassBreaks(old, new) THEN "breaking"
  ELSE IF old = new THEN "identical" ELSE "additive"

\* version_policy_errors.  A catalog carries its version, so that two which
\* are identical have the same.
OntologyVersionErrors(old, new, change) ==
  LET v == old.version w == new.version
  IN  CASE change = "identical" -> IF v # w THEN {"changed"} ELSE {}
        [] change = "additive"  -> (IF v[1] # w[1] THEN {"major"} ELSE {})
                                   \cup (IF w = v \/ Below(w, v) THEN {"minor"} ELSE {})
        [] change = "breaking"  -> IF w[1] <= v[1] THEN {"major"} ELSE {}
\* check_ontology_evolution, of a baseline that is there.
OntologyFindings(old, new) ==
  LET change == ClassifyOntology(old, new)
  IN  (IF change = "identical" THEN {} ELSE {change}) \cup OntologyVersionErrors(old, new, change)

AskOntology(old, new) ==
  Ask([op |-> "ontology", old |-> old, new |-> new, findings |-> OntologyFindings(old, new)])

-----------------------------------------------------------------------------
(***************************************************************************)
(* The domain rules (ontology/domain_rules.py): a batch of assertions with *)
(* rows of an assembly, of allocations and of a registry beside them.  A   *)
(* predicate is written as its term, as its URI or as the same name under  *)
(* a foreign URI, which the catalog does not know.                         *)
(***************************************************************************)
Unsaid == -1      \* a quantity or an amount that is not given
PredKey(predicate) == predicate.term
TermKnown(predicate) == IF predicate.as = "foreign" THEN "unknown" ELSE predicate.term

\* validate_assertions: the assertions that Accepts refuses, each with all that
\* say the same of its subject.
Said(assertions, i) ==
  {j \in DOMAIN assertions : /\ assertions[j].who = assertions[i].who
                             /\ TermKnown(assertions[j].predicate) = TermKnown(assertions[i].predicate)}
RefusedFacts(catalog, assertions) ==
  {i \in DOMAIN assertions :
     ~Accepts(catalog, [assertions[i] EXCEPT !.predicate = TermKnown(@)] @@ [count |-> Cardinality(Said(assertions, i))], FALSE)}

\* _conflicting_pair_findings.
Apart == {{"part-of", "references"}, {"owns-explicit", "owns-candidate"},
          {"allocates-to", "amount-date-similar-to"}, {"same-name-as", "alias-of"}}
PairKeys(assertions, term) ==
  {<<a.who, a.whom>> : a \in {b \in Range(assertions) : PredKey(b.predicate) = term /\ "object" \in b.value}}
ConflictingPairs(assertions) ==
  UNION {{pair \in UNION {PairKeys(assertions, t) : t \in terms} :
            \A t \in terms : pair \in PairKeys(assertions, t)} : terms \in Apart}

\* detect_bom_cycles: the graph from a part to what it is a part of, and depth
\* first from every node; what is being visited again closes a cycle.
PartGraph(lines) ==
  LET parts == {l \in Range(lines) : PredKey(l.predicate) = "part-of"}
  IN  [n \in {l.parent : l \in parts} \cup {l.child : l \in parts} |-> {l.parent : l \in {k \in parts : k.child = n}}]
RECURSIVE Walk(_, _, _)
LeavePart(found, n) == [found EXCEPT !.visiting = @ \ {n}, !.visited = @ \cup {n}]
Walk(graph, n, found) ==
  IF n \in found.visiting THEN [found EXCEPT !.cycles = @ + 1]
  ELSE IF n \in found.visited THEN found
  ELSE LeavePart(FoldLeft(LAMBDA f, next : Walk(graph, next, f),
                      [found EXCEPT !.visiting = @ \cup {n}], SetToSeq(graph[n])), n)
DetectCycles(graph) ==
  FoldLeft(LAMBDA f, n : Walk(graph, n, f), [visiting |-> {}, visited |-> {}, cycles |-> 0],
           SetToSeq(DOMAIN graph)).cycles

\* alternative_quantity_findings: the groups in which several lines are
\* mandatory, each of them with a quantity.
Mandatory(lines, group) == {i \in DOMAIN lines : lines[i].group = group /\ lines[i].mandatory}
SummedGroups(lines) ==
  {g \in {l.group : l \in Range(lines)} \ {"none"} :
     /\ Cardinality(Mandatory(lines, g)) > 1
     /\ \A i \in Mandatory(lines, g) : lines[i].quantity # Unsaid}

\* allocation_findings and registry_findings, of one row.
MatchStates == {"matched", "partial", "duplicate", "disputed", "unmatched", "candidate"}
WrongAllocation(row) ==
  \/ row.state \notin MatchStates
  \/ PredKey(row.predicate) = "amount-date-similar-to" /\ row.state = "matched"
  \/ PredKey(row.predicate) = "allocates-to" /\ row.invoice # row.payment
  \/ row.amount # Unsaid /\ row.allocated # Unsaid /\ row.allocated > row.amount
WrongCreation(row) ==
  \/ row.status \notin {"produced", "partial", "empty", "failed"}
  \/ row.status = "failed" /\ ~row.reason
  \/ row.status = "empty" /\ row.reason

\* validate_domain_assertions.
DomainFindings(catalog, batch) ==
  [refused |-> RefusedFacts(catalog, batch.assertions), pairs |-> ConflictingPairs(batch.assertions),
   cycles |-> DetectCycles(PartGraph(batch.lines)), summed |-> SummedGroups(batch.lines),
   allocations |-> {r \in batch.allocations : WrongAllocation(r)},
   registry |-> {r \in batch.registry : WrongCreation(r)}]
NoFinding(findings) ==
  /\ findings.refused = {} /\ findings.pairs = {} /\ findings.cycles = 0 /\ findings.summed = {}
  /\ findings.allocations = {} /\ findings.registry = {}
AskDomain(catalog, batch) ==
  Ask([op |-> "domain", catalog |-> catalog, batch |-> batch, findings |-> DomainFindings(catalog, batch)])

-----------------------------------------------------------------------------
(* A change that is not called breaking keeps facts valid: what the old    *)
(* catalog accepts the new one accepts, deprecated predicates allowed, as  *)
(* long as every parent is declared before and no class is removed.  The   *)
(* check tells so by the version: without a word about it the version      *)
(* stays with the catalog and only rises, and only a rise of the major     *)
(* version may invalidate facts.                                           *)
AssertionsOver(classes, predicates) ==
  [predicate : predicates, subject : SUBSET classes, object : SUBSET classes,
   value : SUBSET {"object", "literal"}, datatype : {"none", "string", "number"},
   text : {"low", "above"}, count : {1, 2}]
AssertionsSurvive ==
  call.op = "ontology" =>
    LET old == call.old new == call.new
        declared == \A c \in DOMAIN old.classes : old.classes[c].parents \subseteq DOMAIN old.classes
        kept == DOMAIN old.classes \subseteq DOMAIN new.classes
    IN  /\ call.findings \cap {"changed", "major", "minor"} = {} =>
             /\ (old.version = new.version) <=> (old = new)
             /\ ~Below(new.version, old.version)
             /\ "breaking" \in call.findings <=> old.version[1] # new.version[1]
        /\ "breaking" \notin call.findings /\ declared /\ kept =>
             \A a \in AssertionsOver(DOMAIN old.classes, DOMAIN old.predicates) :
               Accepts(old, a, FALSE) => Accepts(new, a, TRUE)

(* A cycle of parts is told exactly when a part is a part of itself, over  *)
(* any number of steps; a part of two assemblies is none, and no other     *)
(* relation makes one.                                                     *)
CyclesAreTold ==
  call.op = "domain" =>
    LET lines == Range(call.batch.lines)
        nodes == {l.parent : l \in lines} \cup {l.child : l \in lines}
        direct(x) == {l.parent : l \in {k \in lines : k.child = x /\ k.predicate.term = "part-of"}}
        reach[n \in 0 .. Cardinality(nodes)] ==
          IF n = 0 THEN [x \in nodes |-> direct(x)]
          ELSE [x \in nodes |-> reach[n - 1][x] \cup UNION {direct(y) : y \in reach[n - 1][x]}]
    IN  (call.findings.cycles > 0) <=> \E x \in nodes : x \in reach[Cardinality(nodes)][x]

(* A batch without findings keeps apart what the domain keeps apart,       *)
(* however its predicates are written: no pair is in two relations of      *)
(* which one is only a hint of the other, a subject has one value of a     *)
(* functional predicate, what a group of alternatives asks for together is *)
(* one line's quantity (unless a mandatory line of it has none), and what  *)
(* is settled is an allocation within the amount of its invoice, in the    *)
(* same currency, and no likeness.                                         *)
Settled(row) == row.state = "matched" /\ row.predicate.term \in {"allocates-to", "amount-date-similar-to"}
DistinctionsKept ==
  (call.op = "domain" /\ NoFinding(call.findings)) =>
    LET facts == call.batch.assertions lines == call.batch.lines
    IN  /\ \A i, j \in DOMAIN facts :
             LET terms == {facts[i].predicate.term, facts[j].predicate.term}
             IN  /\ terms \in Apart => <<facts[i].who, facts[i].whom>> # <<facts[j].who, facts[j].whom>>
                 /\ (i # j /\ facts[i].who = facts[j].who /\ Cardinality(terms) = 1) =>
                      ~call.catalog.predicates[facts[i].predicate.term].functional
        /\ \A i, j \in DOMAIN lines :
             (i # j /\ lines[i].group = lines[j].group /\ lines[i].group # "none"
                /\ lines[i].mandatory /\ lines[j].mandatory) =>
               \E k \in DOMAIN lines : lines[k].group = lines[i].group /\ lines[k].quantity = Unsaid
        /\ \A row \in call.batch.allocations : Settled(row) =>
             /\ row.predicate.term = "allocates-to" /\ row.invoice = row.payment
             /\ row.amount = Unsaid \/ row.allocated = Unsaid \/ row.allocated <= row.amount
=============================================================================
