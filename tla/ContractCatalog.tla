-------------------------- MODULE ContractCatalog --------------------------
(***************************************************************************)
(* The registry of data contracts (contracts/catalog), the tables that are *)
(* made of it (contracts/sqlalchemy) and the tree of artifacts that is     *)
(* generated (contracts/generate).  Two checks stand before the tables:    *)
(* the integrity of the documents across the registry, and what the        *)
(* generator refuses; the properties are about what passes both.  A        *)
(* document is kept as far as these look at it.                            *)
(***************************************************************************)
EXTENDS Calls, Integers, FiniteSets, SequencesExt

Flaw(contract, what) == [contract |-> contract, what |-> what]
FlawIf(condition, contract, what) == IF condition THEN {Flaw(contract, what)} ELSE {}
\* The elements of a sequence before the k-th.
Preceding(s, k) == ToSet(SubSeq(s, 1, k - 1))

-----------------------------------------------------------------------------
(* integrity.py.  An entry of the registry names a contract, its canonical *)
(* entity, its document and its mapping; either may not load.              *)

Readable(registry) == SelectSeq(registry, LAMBDA e : e.loads)
\* semantic_metadata refuses a mapping that repeats a source or a binding, and
\* verify_semantic_fingerprint one that is not as it was reviewed.
MappingLoads(e) ==
  LET fields == e.mapping.fields
  IN  /\ e.mapping.reviewed
      /\ \A j, k \in DOMAIN fields : j # k => fields[j].source # fields[k].source /\ fields[j].binding # fields[k].binding
Mapped(registry) == SelectSeq(Readable(registry), MappingLoads)
FieldNames(doc) == {p.name : p \in ToSet(doc.fields)}

\* _register_entity: the first contract of an entity keeps it.
EntityFaults(registry) ==
  UNION {FlawIf(/\ registry[k].entity # "none"
                 /\ \E e \in Preceding(registry, k) : e.entity = registry[k].entity, registry[k].id, "entity twice")
           : k \in DOMAIN registry}

\* _required_identity_findings.
IdentityFaults(e) ==
  LET keys == {p \in ToSet(e.doc.fields) : p.key}
  IN  FlawIf(keys = {}, e.id, "no identity") \cup FlawIf(\E p \in keys : ~p.required, e.id, "identity not required")

\* _check_odcs_document.
DocumentFaults(registry) ==
  LET docs == Readable(registry)
  IN  UNION {FlawIf(docs[k].doc.id = "none" \/ \E e \in Preceding(docs, k) : e.doc.id = docs[k].doc.id, docs[k].id, "document id")
             \cup FlawIf(~docs[k].doc.versioned, docs[k].id, "version")
             \cup FlawIf(docs[k].doc.table = "none", docs[k].id, "table hints")
             \cup IdentityFaults(docs[k]) : k \in DOMAIN docs}

\* _record_binding: the first contract of a binding owns it.
TakenBefore(mapped, k, binding) == \E e \in Preceding(mapped, k) : binding \in {m.binding : m \in ToSet(e.mapping.fields)}

\* _check_mapping.
MappingFaults(registry) ==
  LET mapped == Mapped(registry)
      bound(doc) == {p.name : p \in {q \in ToSet(doc.fields) : q.bound}}
  IN  UNION {FlawIf(TakenBefore(mapped, k, m.binding), mapped[k].id, "binding")
             \cup FlawIf(m.source \notin FieldNames(mapped[k].doc), mapped[k].id, "source field")
             \cup FlawIf(m.source \notin bound(mapped[k].doc), mapped[k].id, "no canonical binding")
               : <<k, m>> \in UNION {{<<k, m>> : m \in ToSet(mapped[k].mapping.fields)} : k \in DOMAIN mapped}}

\* _check_relationships: of two documents with one schema name the last one's
\* fields are looked at.
RelationFaults(registry) ==
  LET docs == Readable(registry)
      fieldsOf(name) == LET named == {k \in DOMAIN docs : docs[k].doc.schema = name}
                        IN  IF named = {} THEN {} ELSE FieldNames(docs[CHOOSE k \in named : \A j \in named : j <= k].doc)
  IN  UNION {UNION {UNION {FlawIf(r.field \notin fieldsOf(r.schema), e.id, "relation") : r \in ToSet(p.refs)}
                      : p \in ToSet(e.doc.fields)} : e \in ToSet(docs)}

\* load_canonical_model and _check_canonical_model: the bound fields of the
\* model; a binding is used once, by a field with a name of its own.
CanonicalFaults(registry, canonical) ==
  LET fields == canonical.fields
      loads == /\ canonical.loads
               /\ \A j, k \in DOMAIN fields : j # k => /\ fields[j].binding # fields[k].binding
                                                       /\ <<fields[j].entity, fields[j].name>> # <<fields[k].entity, fields[k].name>>
      entities == {f.entity : f \in ToSet(fields)}
      registered == {e.entity : e \in ToSet(registry)} \ {"none"}
  IN  IF ~loads THEN {Flaw("canonical", "load")}
      ELSE {Flaw(n, "not in the model") : n \in registered \ entities}
           \cup {Flaw(n, "not registered") : n \in entities \ registered}
           \cup {Flaw(n, "nothing required") :
                   n \in {m \in registered \cap entities : \A f \in ToSet(fields) : f.entity = m => ~f.required}}

\* validate_registry_integrity.
Integrity(registry, canonical) ==
  {Flaw(e.id, "document") : e \in {x \in ToSet(registry) : ~x.loads}}
  \cup {Flaw(e.id, "mapping") : e \in {x \in ToSet(Readable(registry)) : ~MappingLoads(x)}}
  \cup EntityFaults(registry) \cup DocumentFaults(registry) \cup MappingFaults(registry)
  \cup RelationFaults(registry) \cup CanonicalFaults(registry, canonical)

-----------------------------------------------------------------------------
(* normalize.py and metadata.py: tables.                                   *)

\* normalize_contract refuses a document; the partition key becomes a column
\* when no field has its name.
Normalizes(e) ==
  LET fields == e.doc.fields
  IN  /\ e.loads /\ fields # << >>
      /\ \A p \in ToSet(fields) : p.type # "unsupported" /\ (p.key => p.position > 0) /\ Len(p.refs) <= 1
      /\ \A j, k \in DOMAIN fields : j # k => fields[j].name # fields[k].name
Normalized(e) ==
  LET columns == FieldNames(e.doc) \cup ({e.doc.partition} \ {"none"})
      keys == {p \in ToSet(e.doc.fields) : p.key}
  IN  [contract |-> e.id, schema |-> e.doc.schema, columns |-> columns,
       name |-> IF e.doc.table = "none" THEN e.doc.schema ELSE e.doc.table,
       notNull |-> {p.name : p \in {q \in ToSet(e.doc.fields) : q.required}},
       positions |-> [n \in {p.name : p \in keys} |-> (CHOOSE p \in keys : p.name = n).position],
       refs |-> UNION {{[column |-> p.name, to |-> r] : r \in ToSet(p.refs)} : p \in ToSet(e.doc.fields)}]

\* build_metadata: a schema name and a table name each belong to one contract.
Collide(a, b) == a.schema = b.schema \/ a.name = b.name

\* _build_table: what a relation leads to must exist; keys have positions.
TargetOf(tables, name) == CHOOSE t \in tables : t.schema = name
Builds(tables) ==
  /\ \A a, b \in tables : a.contract # b.contract => ~Collide(a, b)
  /\ \A t \in tables :
       /\ DOMAIN t.positions # {}
       /\ \A m, n \in DOMAIN t.positions : m # n => t.positions[m] # t.positions[n]
       /\ \A r \in t.refs : /\ \E u \in tables : u.schema = r.to.schema
                            /\ r.to.field \in TargetOf(tables, r.to.schema).columns
ForeignKeys(tables) ==
  UNION {{[from |-> t.contract, column |-> r.column, to |-> TargetOf(tables, r.to.schema).contract, field |-> r.to.field]
            : r \in t.refs} : t \in tables}
SchemaModel(registry) ==
  LET tables == {Normalized(e) : e \in ToSet(registry)}
  IN  IF (\A e \in ToSet(registry) : Normalizes(e)) /\ Builds(tables)
      THEN [built |-> TRUE, tables |-> tables, foreign |-> ForeignKeys(tables)]
      ELSE [built |-> FALSE, tables |-> {}, foreign |-> {}]

AskCatalog(registry, canonical) ==
  Ask([op |-> "catalog", registry |-> registry, canonical |-> canonical,
       faults |-> Integrity(registry, canonical), model |-> SchemaModel(registry)])

-----------------------------------------------------------------------------
(* generate/pipeline.py: the tree, a function from files to what they say. *)

Formats == {"avro", "jsonschema", "pydantic", "postgres", "parquet", "extensions", "rules", "dbt", "provenance"}
\* search_extension_sql, vector_extension_sql and graph_extension_sql: a hint
\* that says something has a file of its own.
ArtifactsOf(c) ==
  [f \in ((Formats \cup c.hints) \X {c.id}) |-> c.content]
\* What is generated from all contracts and the manifest over it.
TreeOf(contracts) ==
  LET each == FoldSet(LAMBDA c, tree : ArtifactsOf(c) @@ tree, << >>, contracts)
  IN  (<<"shared", "all">> :> {c.content : c \in contracts}) @@ (<<"manifest", "all">> :> DOMAIN each) @@ each

\* generate_all_contracts removes the tree, and then makes the model, which a
\* contract may refuse: what is left then is an empty tree.
Generate(tree, contracts) == IF \E c \in contracts : c.refused THEN << >> ELSE TreeOf(contracts)
\* check_generation_drift: the committed tree against one made from nothing.
DriftFindings(tree, contracts) ==
  LET fresh == Generate(<< >>, contracts)
  IN  {f \in DOMAIN tree \cup DOMAIN fresh : f \notin DOMAIN tree \/ f \notin DOMAIN fresh \/ tree[f] # fresh[f]}

\* Contracts are generated, changed, generated again and then checked.
AskGeneration(first, then, checked) ==
  Ask([op |-> "generation", first |-> first, then |-> then, checked |-> checked,
       tree |-> Generate(Generate(<< >>, first), then),
       drift |-> DriftFindings(Generate(Generate(<< >>, first), then), checked)])

-----------------------------------------------------------------------------
(* Of a registry without findings whose tables are built, every relation   *)
(* that a document declares is a foreign key to a field that the one       *)
(* contract of that schema name declares; tables are not shared; and no    *)
(* column of a primary key may be null.                                    *)
RelationsHold ==
  call.op = "catalog" /\ call.faults = {} /\ call.model.built =>
    LET entries == ToSet(call.registry)
        declared == UNION {{[from |-> e.id, column |-> p.name, refs |-> p.refs] : p \in ToSet(e.doc.fields)} : e \in entries}
    IN  /\ \A d \in declared : \A r \in ToSet(d.refs) :
             \A e \in entries : e.doc.schema = r.schema =>
               /\ r.field \in FieldNames(e.doc)
               /\ [from |-> d.from, column |-> d.column, to |-> e.id, field |-> r.field] \in call.model.foreign
        /\ \A t \in call.model.tables : DOMAIN t.positions # {} /\ DOMAIN t.positions \subseteq t.notNull
        /\ \A a, b \in call.model.tables : a.name = b.name => a.contract = b.contract

(* Of a registry without findings, each binding belongs to the mapping of  *)
(* one contract and to a field that declares one; and each entity of the   *)
(* canonical model to one contract, with a binding that is required.       *)
BindingsAreOwned ==
  call.op = "catalog" /\ call.faults = {} =>
    LET entries == ToSet(call.registry)
        owners(b) == {e.id : e \in {x \in entries : \E m \in ToSet(x.mapping.fields) : m.binding = b}}
    IN  /\ \A e \in entries : \A m \in ToSet(e.mapping.fields) :
             owners(m.binding) = {e.id} /\ \E p \in ToSet(e.doc.fields) : p.name = m.source /\ p.bound
        /\ \A f \in ToSet(call.canonical.fields) :
             /\ Cardinality({e.id : e \in {x \in entries : x.entity = f.entity}}) = 1
             /\ \E g \in ToSet(call.canonical.fields) : g.entity = f.entity /\ g.required

(* A tree without drift is what its contracts say and no more: nothing of a*)
(* contract or a hint that is gone is left, and every generation ends in   *)
(* such a tree unless a contract is refused.                               *)
NothingLeftOver ==
  call.op = "generation" =>
    LET refused == \E c \in call.then : c.refused
    IN  /\ ~refused /\ call.checked = call.then => call.drift = {}
        /\ call.drift = {} /\ ~(\E c \in call.checked : c.refused) =>
             \A f \in DOMAIN call.tree : f[2] = "all" \/ \E c \in call.checked : f[2] = c.id /\ f[1] \in Formats \cup c.hints
=============================================================================
