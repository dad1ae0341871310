----------------------------- MODULE QualityGate ----------------------------
(***************************************************************************)
(* What a stage output passes before it is published: the checks of a      *)
(* dataset, and the gate of the quality boundary.                          *)
(***************************************************************************)
EXTENDS Calls, Integers, SequencesExt

-----------------------------------------------------------------------------
(***************************************************************************)
(* The checks of a dataset before it is published (data_quality): the      *)
(* rules of its contract, checked batch by batch and merged, and over the  *)
(* whole snapshot; the status they add up to and whether it may be         *)
(* published.  A row is a record of what the rules look at.                *)
(***************************************************************************)

CONSTANTS QualityBatch,     \* batch_rows
          ContractColumns   \* the columns of the contract, each as it is declared: its type, whether it
                            \* is nullable and unique, the set of its maxLength (or of none), its
                            \* accepted values ({}: any) and the contract it references, or "none"

ASSUME QualityAssumption ==
  /\ QualityBatch \in Nat \ {0}
  /\ \A column \in DOMAIN ContractColumns :
       ContractColumns[column] \in [type : STRING, nullable : BOOLEAN, unique : BOOLEAN, longest : SUBSET Nat,
                                   accepted : SUBSET STRING, references : STRING]

Null == "null"
Units == {"currency", "unit"}
UnitColumn == IF "currency" \in DOMAIN ContractColumns THEN "currency" ELSE "unit"

\* column_rules and _unique_rules.
ColumnRule(kind, of) ==
  \/ kind = "type"
  \/ kind = "nullability" /\ ~of.nullable
  \/ kind = "max_length" /\ of.longest # {}
  \/ kind = "decimal" /\ of.type = "decimal"
  \/ kind \in {"batch_unique", "unique"} /\ of.unique
\* unit_rules.
UnitRule(kind, of) ==
  kind = "unit" /\ of.type \in {"decimal", "float"} /\ Units \cap DOMAIN ContractColumns # {}
\* _relationship_rule.
RelationshipRule(kind, of) == kind = "relationship" /\ of.references # "none"
\* declared_quality.
AcceptedRule(kind, of) == kind = "accepted_values" /\ of.accepted # {}

\* The rules a contract compiles to, all of them required.
Rules(kinds) ==
  {rule \in [kind : kinds, column : DOMAIN ContractColumns] :
     LET of == ContractColumns[rule.column]
     IN  \/ ColumnRule(rule.kind, of) \/ UnitRule(rule.kind, of)
         \/ RelationshipRule(rule.kind, of) \/ AcceptedRule(rule.kind, of)}
BatchRules ==
  Rules({"type", "nullability", "max_length", "decimal", "batch_unique", "unit", "accepted_values"})
SnapshotRules == Rules({"unique", "relationship"})
CatalogRules == BatchRules \cup SnapshotRules

\* The handlers of batch_kinds: check_type and check_decimal look at the dtype
\* of the column, a decimal of any width being as good as another; the others
\* at the rows.
HasDtype(column, dtypes) == dtypes[column] = ContractColumns[column].type
Longer(value, most) == value # Null /\ Len(value) > most
Duplicated(i, batch, column) == \E j \in DOMAIN batch \ {i} : batch[j][column] = batch[i][column]
RowBreaks(rule, i, batch) ==
  LET column == rule.column
      of == ContractColumns[column]
      value == batch[i][column]
  IN  \/ rule.kind = "nullability" /\ value = Null
      \/ rule.kind = "max_length" /\ \E most \in of.longest : Longer(value, most)
      \/ rule.kind = "accepted_values" /\ value \notin of.accepted \cup {Null}
      \/ rule.kind = "unit" /\ value # Null /\ batch[i][UnitColumn] = Null
      \/ rule.kind = "batch_unique" /\ Duplicated(i, batch, column)

\* check_batch_rule, of a frame with the columns and types in dtypes.
CheckBatch(rule, batch, dtypes) ==
  IF batch = << >> THEN "not-applicable"
  ELSE IF \/ rule.column \notin DOMAIN dtypes
          \/ rule.kind \in {"type", "decimal"} /\ ~HasDtype(rule.column, dtypes)
          \/ \E i \in DOMAIN batch : RowBreaks(rule, i, batch)
       THEN "fail" ELSE "pass"
\* merge_batch_results.
MergeLast(left, right) == IF right = "not-applicable" THEN left ELSE right
MergeResults(left, right) ==
  IF left = "not-applicable" THEN right
  ELSE IF right = "not-applicable" THEN left
  ELSE IF "fail" \in {left, right} THEN "fail" ELSE left

\* load_batches: parquet files and frames are cut (a file without rows has no
\* batch, a frame has one); other tables stay whole.
BatchesCut(rows) ==
  [b \in 1 .. (Len(rows) + QualityBatch - 1) \div QualityBatch |->
     SubSeq(rows, (b - 1) * QualityBatch + 1,
            IF b * QualityBatch < Len(rows) THEN b * QualityBatch ELSE Len(rows))]
QualityBatches(rows, source) ==
  IF source = "parquet" \/ (source = "frame" /\ rows # << >>) THEN BatchesCut(rows) ELSE <<rows>>

\* run_batch_checks: every rule over every batch, merged in order.
MergedResult(results) ==
  LET merged[n \in 1 .. Len(results)] ==
        IF n = 1 THEN results[1] ELSE MergeResults(merged[n - 1], results[n])
  IN  merged[Len(results)]
BatchChecks(batches, dtypes) ==
  IF batches = << >> THEN << >>
  ELSE [rule \in BatchRules |->
          MergedResult([b \in 1 .. Len(batches) |-> CheckBatch(rule, batches[b], dtypes)])]

\* check_unique and check_relationship, over all the batches.
CheckUnique(rule, rows, minRows) ==
  IF rows = << >> THEN "not-applicable"
  ELSE IF Len(rows) < minRows \/ \E i \in DOMAIN rows : Duplicated(i, rows, rule.column)
       THEN "fail" ELSE "pass"
CheckRelationship(rule, rows, related) ==
  LET parent == ContractColumns[rule.column].references
  IN  IF parent \notin DOMAIN related THEN "not-run"
      ELSE IF rows = << >> THEN "not-applicable"
      ELSE IF {rows[i][rule.column] : i \in DOMAIN rows} \subseteq related[parent] \cup {Null}
           THEN "pass" ELSE "fail"

\* run_snapshot_checks; nothing hands it results of dbt.
SnapshotChecks(rows, with) ==
  [rule \in SnapshotRules |->
     IF ~with.execute THEN "not-run"
     ELSE IF rule.kind = "unique" THEN CheckUnique(rule, rows, with.minRows)
     ELSE CheckRelationship(rule, rows, with.related)]

\* from_ontology_findings, missing_semantic_result and shacl_not_run: what the
\* producer attaches.
Attached(findings) ==
  CASE findings = "none" -> "pass" [] findings = "some" -> "fail" [] findings = "missing" -> "not-run"

\* overall_status, of all results and with the required ones not run.
OverallStatus(results, missing) ==
  IF "fail" \in results THEN "fail"
  ELSE IF missing # {} \/ "not-run" \in results THEN "not-run"
  ELSE IF "warning" \in results THEN "warning"
  ELSE IF results = {"not-applicable"} THEN "not-applicable" ELSE "pass"

\* build_result and is_publishable; a schema without data is no validation.
BuildResult(checks, attached) ==
  LET ran == [rule \in CatalogRules |-> IF rule \in DOMAIN checks THEN checks[rule] ELSE "not-run"]
      missing == {rule \in CatalogRules : ran[rule] = "not-run"}
      results == {ran[rule] : rule \in CatalogRules} \cup attached
      status == OverallStatus(results, missing)
  IN  [status |-> status, publishable |-> missing = {} /\ status \in {"pass", "not-applicable"}]
NoResult(status) == [status |-> status, publishable |-> FALSE]

\* What the caller gets no result of: a JSON table that is longer than a batch
\* may be, and a check that reads a column the frame does not have.
CheckRaises(rows, with) ==
  \/ with.source = "json" /\ Len(rows) > QualityBatch
  \/ /\ rows # << >>
     /\ \E rule \in BatchRules :
          rule.kind = "unit" /\ rule.column \in DOMAIN with.dtypes /\ UnitColumn \notin DOMAIN with.dtypes
  \/ /\ rows # << >> /\ with.execute
     /\ \E rule \in SnapshotRules :
          /\ rule.column \notin DOMAIN with.dtypes
          /\ IF rule.kind = "unique" THEN Len(rows) >= with.minRows
             ELSE ContractColumns[rule.column].references \in DOMAIN with.related

\* validate_dataset.
ChecksRun(batch, snapshot) ==
  [rule \in DOMAIN batch \cup DOMAIN snapshot |-> IF rule \in DOMAIN batch THEN batch[rule] ELSE snapshot[rule]]
ValidateDataset(rows, with) ==
  IF with.lazy THEN NoResult("fail")
  ELSE IF CheckRaises(rows, with) THEN NoResult("raised")
  ELSE IF Len(rows) < with.minRows THEN NoResult("fail")
  ELSE BuildResult(ChecksRun(BatchChecks(QualityBatches(rows, with.source), with.dtypes), SnapshotChecks(rows, with)),
                   {Attached(findings) : findings \in with.attached})

AskQuality(rows, with) ==
  Ask([op |-> "quality", rows |-> rows, with |-> with, answer |-> ValidateDataset(rows, with)])
-----------------------------------------------------------------------------
\* What the contract says of a dataset, whole.
ValidValue(column, value, related) ==
  LET of == ContractColumns[column]
  IN  IF value = Null THEN of.nullable
      ELSE /\ ~\E most \in of.longest : Longer(value, most)
           /\ of.accepted # {} => value \in of.accepted
           /\ of.references # "none" => value \in related[of.references]
Valid(rows, dtypes, related) ==
  /\ \A column \in DOMAIN ContractColumns : column \in DOMAIN dtypes /\ HasDtype(column, dtypes)
  /\ \A column \in DOMAIN ContractColumns, i \in DOMAIN rows :
       LET of == ContractColumns[column]
       IN  /\ ValidValue(column, rows[i][column], related)
           /\ of.type \in {"decimal", "float"} /\ rows[i][column] # Null /\ Units \cap DOMAIN ContractColumns # {}
                => rows[i][UnitColumn] # Null
           /\ of.unique => \A j \in DOMAIN rows \ {i} : rows[j][column] # rows[i][column]
\* Every snapshot rule can be looked at.
Looked(with) ==
  SnapshotRules # {} =>
    /\ with.execute
    /\ \A column \in DOMAIN ContractColumns : ContractColumns[column].references \in DOMAIN with.related \cup {"none"}

\* However a dataset is cut into batches, it is published exactly if every
\* rule was looked at, whatever the producer attached was clean and the whole
\* satisfies the contract.
PublishedIffValid ==
  call.op = "quality" /\ call.rows # << >> =>
    LET w == call.with
    IN  call.answer.publishable <=>
          /\ ~w.lazy /\ (w.source = "json" => Len(call.rows) <= QualityBatch)
          /\ Len(call.rows) >= w.minRows /\ w.attached \subseteq {"none"}
          /\ Looked(w) /\ Valid(call.rows, w.dtypes, w.related)

-----------------------------------------------------------------------------
(***************************************************************************)
(* The gate a stage's output passes before it is sealed (pipeline/quality, *)
(* pipeline/control/quality): the evidence that the stage brings itself,   *)
(* what the boundary validates and transforms in its place, and the        *)
(* decision over both.                                                     *)
(***************************************************************************)

\* _quality_findings: a required check that neither passed nor warned blocks.
ChecksBlock(checks) ==
  \/ ~\E c \in ToSet(checks) : c.scope = "global"
  \/ \E c \in ToSet(checks) : c.required /\ c.status \notin {"pass", "warning"}
\* _validation_findings and _transformation_findings.
ValidationsBlock(validations, generation) ==
  \E v \in validations : v.generation # generation \/ ~v.publishable
TransformationsBlock(transformations, generation) ==
  \E t \in ToSet(transformations) : t.generation # generation \/ ~t.activatable \/ t.status # "ok"
\* activation_decision.
ActivationDecision(checks, validations, transformations, generation) ==
  LET allowed == /\ ~ChecksBlock(checks)
                 /\ ~ValidationsBlock(validations, generation)
                 /\ ~TransformationsBlock(transformations, generation)
  IN  [allowed |-> allowed, quarantined |-> allowed /\ \E c \in ToSet(checks) : c.status = "warning"]

\* What a stage brings for a dataset, and beyond what its spec declares.
Brought(own, d) == {v \in ToSet(own.validations) : v.contract = d}
Undeclared(spec, own) == {v \in ToSet(own.validations) : v.contract \notin ToSet(spec.validators)}
\* The evidence for each dataset the spec declares: what the stage brought, or
\* else what the boundary finds.
DeclaredEvidence(spec, own, boundary) ==
  [k \in DOMAIN spec.validators |->
     LET d == spec.validators[k]
     IN  IF Brought(own, d) # {} THEN CHOOSE v \in Brought(own, d) : TRUE ELSE boundary.validate[d]]

\* apply_boundary; boundary is what QualityBoundary would answer: its checks,
\* a validation per dataset and one transformation.
GateRefuses == [passed |-> FALSE]
ApplyBoundary(spec, own, boundary, generation) ==
  LET declared == DeclaredEvidence(spec, own, boundary)
      validations == ToSet(declared) \cup Undeclared(spec, own)
      transformations == (IF spec.select THEN <<boundary.transform>> ELSE << >>) \o own.transformations
      repeated == \E j, k \in DOMAIN own.validations : j # k /\ own.validations[j].contract = own.validations[k].contract
      foreign == \E k \in DOMAIN declared : declared[k].contract # spec.validators[k]
  IN  IF \/ repeated \/ foreign
         \/ ~ActivationDecision(boundary.checks, validations, transformations, generation).allowed
      THEN GateRefuses
      ELSE [passed |-> TRUE, validations |-> validations, transformations |-> transformations]

AskBoundary(spec, own, boundary) ==
  Ask([op |-> "boundary", spec |-> spec, own |-> own, boundary |-> boundary,
       gate |-> ApplyBoundary(spec, own, boundary, "g1")])

-----------------------------------------------------------------------------
(* What passes was validated and transformed as its spec declares, once and*)
(* for the generation that is sealed; no evidence the stage brought itself *)
(* is left out; all that is kept speaks for it; and some check was about   *)
(* the whole.                                                              *)
EvidenceIsExact ==
  call.op = "boundary" /\ call.gate.passed =>
    LET gate == call.gate
    IN  /\ \A d \in ToSet(call.spec.validators) : \E v \in gate.validations : {w \in gate.validations : w.contract = d} = {v}
        /\ call.spec.select => Len(gate.transformations) > Len(call.own.transformations)
        /\ ToSet(call.own.validations) \subseteq gate.validations
        /\ \A v \in gate.validations : v.generation = "g1" /\ v.publishable
        /\ \A t \in ToSet(gate.transformations) : t.generation = "g1" /\ t.status = "ok" /\ t.activatable
        /\ \E c \in ToSet(call.boundary.checks) : c.scope = "global" /\ (c.required => c.status \in {"pass", "warning"})

\* A violation in any batch, snapshot or external evidence, or evidence that
\* is missing or of another generation, keeps a stage from publication, and
\* nothing else does.
GateHolds ==
  /\ PublishedIffValid
  /\ EvidenceIsExact
=============================================================================
