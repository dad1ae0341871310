----------------------------- MODULE StoreTables ----------------------------
(***************************************************************************)
(* The canonical tables of the store, the sessions that load them, and the *)
(* projections that are built of them.                                     *)
(***************************************************************************)
EXTENDS Calls, Integers, FiniteSets, SequencesExt, Functions, TLC

-----------------------------------------------------------------------------
(***************************************************************************)
(* The canonical tables of revision 0001 (migrations/versions) and the     *)
(* sessions that load them: load-lexical replaces the documents and chunks *)
(* of the corpus, load_canonical_batch (stores/postgres/load.py) adds rows *)
(* to one table.  Each is one transaction of PostgreSQL at read committed: *)
(* it sees what is committed and what it wrote itself, waits for rows that *)
(* others have written, and for the staging table it truncates first.      *)
(* A row is its primary key and the key its references hold.               *)
(***************************************************************************)

CONSTANTS Session, Table,    \* the tables that have rows
          MaxLoads           \* bound: transactions

VARIABLE store

\* Foreign keys: pairs of a table and one it refers to.
SourceTables == {"document_path_event"} \X {"documents", "source_occurrences"}
SeparateTables ==
  {"domain_artifact_registry", "evaluation_items", "objects", "terms", "embeddings"}
TextTables ==
  ({"chunks", "spans", "normalized_documents", "duplicate_groups"} \X {"documents"})
  \cup {<<"anomaly_findings", "objects">>}
NamedTables ==
  ({"aliases", "bom_lines", "catalog_entries"} \X {"objects"}) \cup {<<"bom_lines", "documents">>}
TradeTables ==
  ({"invoice_payment_rows", "transactions"} \X {"documents", "objects"})
  \cup {<<"topic_assignments", "documents">>}
FactTables ==
  ({"facts", "mentions", "relationship_edges"} \X {"documents", "spans"})
  \cup ({"facts", "mentions"} \X {"chunks"}) \cup ({"facts", "relationship_edges"} \X {"objects"})
SupplyTables == {"supply_chain_edges"} \X {"documents", "objects", "transactions"}
ProjectionTables == {"projection_active", "projection_evidence", "projection_cleanup"} \X {"projections"}
LedgerTables ==
  {<<"stage_run", "run">>} \cup ({"shard_run"} \X {"run", "stage_run"})
  \cup ({"checkpoint", "shard_error", "artifact_manifest"} \X {"shard_run"})
EventTables == {<<"stage_progress", "stage_run">>}

References ==
  SourceTables \cup TextTables \cup NamedTables \cup TradeTables \cup FactTables \cup SupplyTables
  \cup ProjectionTables \cup LedgerTables \cup EventTables
ParentTables(table) == {t \in Table : <<table, t>> \in References}
ChildTables(table) == {t \in Table : <<t, table>> \in References}
ASSUME TableAssumption ==
  /\ {"documents", "chunks", "facts", "embeddings"} \subseteq Table
  /\ Table \subseteq SeparateTables \cup UNION {{pair[1], pair[2]} : pair \in References}

\* todo: the batches to load; keep: the chunks of the snapshot, for load-lexical;
\* mine, wrote, uses: own rows, the keys written, the keys referred to.
NoTransaction == [at |-> "none"]
StoreInit ==
  store = [rows |-> [t \in Table |-> {}], session |-> [s \in Session |-> NoTransaction],
           loading |-> FALSE, loads |-> 0]
Transaction(todo, lexical, keep) ==
  [at |-> "begun", todo |-> todo, keep |-> keep, lexical |-> lexical,
   mine |-> [t \in Table |-> {}], wrote |-> {}, uses |-> {}, staging |-> {}]

Loading(s, at) == call.op = "tables" /\ store.session[s].at = at /\ UNCHANGED call
Others(s) == {store.session[t] : t \in {u \in Session \ {s} : store.session[u].at \in {"begun", "copied", "loaded"}}}
Visible(s, table) ==
  {r \in store.rows[table] : <<table, r.id>> \notin store.session[s].wrote} \cup store.session[s].mine[table]
RowKeys(table, rows) == {<<table, r.id>> : r \in rows}

RollBack(s) == [store EXCEPT !.session[s] = NoTransaction, !.loading = @ /\ ~store.session[s].lexical]

-----------------------------------------------------------------------------
\* validate_rows: one row for a key, whatever the contract asks else.
ValidBatch(batch) == \A i, j \in DOMAIN batch : i # j => batch[i].id # batch[j].id

Start(s, transaction) ==
  /\ call.op \in {"none", "tables"} /\ call' = [op |-> "tables"]
  /\ store.session[s].at = "none" /\ store.loads < MaxLoads
  /\ store' = [store EXCEPT !.session[s] = transaction, !.loads = @ + 1,
                            !.loading = @ \/ transaction.lexical]
\* load_canonical_batch validates before it writes.
StartBatch(s, table, batch) ==
  ValidBatch(batch) /\ Start(s, Transaction(<<[table |-> table, batch |-> batch]>>, FALSE, {}))
\* exclusive_lexical_load refuses a second load.
StartLexical(s, documents, chunks) ==
  /\ ~store.loading
  /\ Start(s, Transaction(<<[table |-> "documents", batch |-> documents], [table |-> "chunks", batch |-> chunks]>>,
                          TRUE, RowKeys("chunks", ToSet(chunks))))

\* truncate_staging: the lock is held to the end of the transaction.
CopyToStaging(s) ==
  /\ Loading(s, "begun") /\ store.session[s].todo # <<>>
  /\ LET table == Head(store.session[s].todo).table
     IN  /\ \A o \in Others(s) : table \notin o.staging
         /\ store' = [store EXCEPT !.session[s].at = "copied", !.session[s].staging = @ \cup {table}]

\* enforce_embedding_profile, before each row.
TargetTaken(table, rows, row) ==
  table = "embeddings" /\ \E r \in rows : r.id # row.id /\ r.to = row.to
Unparented(s, table, row) == \E p \in ParentTables(table) : ~\E r \in Visible(s, p) : r.id = row.to
\* The rows of a table after the first n rows of a batch: of two for one key the
\* later is left.
RowsAfter(rows, batch, n) ==
  {r \in rows : \A k \in 1 .. n : batch[k].id # r.id}
  \cup {batch[k] : k \in {j \in 1 .. n : \A l \in j + 1 .. n : batch[l].id # batch[j].id}}
\* Row by row, unless one is refused.
AfterBatch(s, table, batch) ==
  LET rows == Visible(s, table)
  IN  [ok |-> \A n \in DOMAIN batch : /\ ~TargetTaken(table, RowsAfter(rows, batch, n - 1), batch[n])
                                      /\ ~Unparented(s, table, batch[n]),
       rows |-> RowsAfter(rows, batch, Len(batch))]
\* A row that another wrote, and a parent that another deletes, is waited for.
DeletedKeys(o) == {k \in o.wrote : ~\E r \in o.mine[k[1]] : r.id = k[2]}
MustWait(s, table, batch) ==
  \E o \in Others(s), row \in ToSet(batch) :
    \/ <<table, row.id>> \in o.wrote
    \/ \E p \in ParentTables(table) : <<p, row.to>> \in DeletedKeys(o)
Upserted(transaction, table, batch, rows) ==
  [transaction EXCEPT !.at = "begun", !.todo = Tail(@), !.wrote = @ \cup RowKeys(table, ToSet(batch)),
     !.mine[table] = {r \in rows : <<table, r.id>> \in transaction.wrote \/ r \in ToSet(batch)},
     !.uses = @ \cup {<<p, r.to>> : p \in ParentTables(table), r \in ToSet(batch)}]
Upsert(s) ==
  /\ Loading(s, "copied")
  /\ LET table == Head(store.session[s].todo).table
         batch == Head(store.session[s].todo).batch
         after == AfterBatch(s, table, batch)
     IN  /\ ~MustWait(s, table, batch)
         /\ store' = IF after.ok
                     THEN [store EXCEPT !.session[s] = Upserted(store.session[s], table, batch, after.rows)]
                     ELSE RollBack(s)

\* retract_absent_chunks: a chunk that something refers to cannot go.
KeepAbsent(s) ==
  /\ Loading(s, "begun") /\ store.session[s].todo = <<>>
  /\ store' = [store EXCEPT !.session[s].at = "loaded"]
RetractAbsent(s) ==
  /\ Loading(s, "begun") /\ store.session[s].todo = <<>>
  /\ LET transaction == store.session[s]
         absent == IF transaction.lexical THEN {r \in Visible(s, "chunks") : <<"chunks", r.id>> \notin transaction.keep}
                   ELSE {}
     IN  /\ \A o \in Others(s) : RowKeys("chunks", absent) \cap (o.wrote \cup o.uses) = {}
         /\ store' = IF \E t \in ChildTables("chunks"), r \in absent : \E c \in Visible(s, t) : c.to = r.id
                     THEN RollBack(s)
                     ELSE [store EXCEPT !.session[s].at = "loaded",
                             !.session[s].wrote = @ \cup RowKeys("chunks", absent),
                             !.session[s].mine["chunks"] = @ \ absent]
CommitLoad(s) ==
  /\ Loading(s, "loaded")
  /\ store' = [store EXCEPT !.rows = [t \in Table |-> Visible(s, t)],
                            !.session[s] = IF @.lexical THEN [@ EXCEPT !.at = "built"] ELSE NoTransaction]
\* An error, an interrupt or a death rolls back what is not committed.
AbortLoad(s) ==
  /\ call.op = "tables" /\ store.session[s].at \in {"begun", "copied", "loaded"} /\ UNCHANGED call
  /\ store' = RollBack(s)
\* The projection is built and reconciled, then the load lock is released.
Release(s) == Loading(s, "built") /\ store' = RollBack(s)

TablesNext(snapshots, batches) ==
  \E s \in Session :
    \/ \E x \in snapshots : StartLexical(s, x.documents, x.chunks)
    \/ \E b \in batches : StartBatch(s, b.table, b.batch)
    \/ CopyToStaging(s) \/ Upsert(s) \/ RetractAbsent(s) \/ CommitLoad(s) \/ AbortLoad(s) \/ Release(s)

-----------------------------------------------------------------------------
(* No two embeddings are of one target, though the trigger that sees to it *)
(* reads what is committed only and two loads may run at once.             *)
OneEmbeddingEach ==
  \A e, f \in store.rows["embeddings"] : e.to = f.to => e = f

(* When load-lexical has committed, the chunks are those of its snapshot,  *)
(* though batches of chunks are loaded at the same time.                   *)
LoadReplacesChunks ==
  [][\A s \in Session :
       store.session[s].at = "loaded" /\ store'.session[s].at = "built" =>
         RowKeys("chunks", store'.rows["chunks"]) = store.session[s].keep]_store

(* A fact keeps the chunk and the document it was read in: a load that     *)
(* would retract them fails as a whole.                                    *)
FactsKeepText ==
  \A f \in store.rows["facts"], t \in {"documents", "chunks"} : \E r \in store.rows[t] : r.id = f.to

-----------------------------------------------------------------------------
(***************************************************************************)
(* What one projection is built from its dbt input and whether it may be   *)
(* activated (stores/projections/builder and its adapters).  A row is      *)
(* known by its id, which the input's canonical table keeps from being     *)
(* NULL; a vector by its length, 0 where there is none; an edge by its     *)
(* fact and its two ends.  Projections has the transactions this is in.    *)
(***************************************************************************)

CONSTANT SampleLimit      \* vertices that the paths are compared from
ASSUME SampleLimitAssumption == SampleLimit \in Nat \ {0}

\* A primary key takes no id twice.
KeyHolds(rows, at) == \A j, k \in at : j # k => rows[j].id # rows[k].id
\* fetch_ids: the ids of some of the rows, in order.
Arrangements(rows, at) ==
  {[n \in 1 .. Cardinality(at) |-> rows[order[n]].id] : order \in Bijection(1 .. Cardinality(at), at)}
InOrder(ids) == \A m, n \in DOMAIN ids : m < n => ids[m] <= ids[n]
FetchIds(rows, at) == CHOOSE ids \in Arrangements(rows, at) : InOrder(ids)

\* An exception leaves the build, and the transaction is rolled back.
Raises == [built |-> FALSE]
FoundRows(observed) == [built |-> TRUE, observed |-> observed, parity |-> TRUE]
BuildLexical(rows) == IF KeyHolds(rows, DOMAIN rows) THEN FoundRows(FetchIds(rows, DOMAIN rows)) ELSE Raises
BuildVector(rows) ==
  LET dims == {rows[k].dims : k \in DOMAIN rows} \ {0}
      selected == {k \in DOMAIN rows : rows[k].vector # 0 /\ rows[k].dims # 0}
  IN  IF rows = << >> THEN FoundRows(<< >>)
      ELSE IF \/ Cardinality(dims) # 1 \/ ~KeyHolds(rows, selected)
              \/ \E k \in selected : rows[k].vector \notin dims
           THEN Raises
           ELSE FoundRows(FetchIds(rows, selected))

\* load_age_graph: an edge of which an end is no vertex matches nothing, and is
\* left out without an error.
LoadAgeGraph(vertices, edges) ==
  LET known == {vertices[k].id : k \in DOMAIN vertices}
  IN  {k \in DOMAIN edges : edges[k].from \in known /\ edges[k].to \in known}
\* one_hop_sql and cypher_one_hop: how often each vertex is reached from start.
OneHop(edges, at, start) ==
  LET out == {k \in at : edges[k].from = start}
  IN  [to \in {edges[k].to : k \in out} |-> Cardinality({k \in out : edges[k].to = to})]
SampleStep(ids) == IF Len(ids) <= SampleLimit THEN 1 ELSE Len(ids) \div SampleLimit
SampleStarts(ids) ==
  {ids[1 + (k - 1) * SampleStep(ids)] : k \in {n \in 1 .. SampleLimit : 1 + (n - 1) * SampleStep(ids) <= Len(ids)}}
SameHops(reference, observed) == reference = observed

BuildGraph(vertices, edges, age) ==
  LET loaded == IF age THEN LoadAgeGraph(vertices, edges) ELSE {}
      observed == FetchIds(vertices, DOMAIN vertices)
      starts == SampleStarts(observed)
  IN  IF ~KeyHolds(vertices, DOMAIN vertices) \/ ~KeyHolds(edges, DOMAIN edges) THEN Raises
      ELSE [built |-> TRUE, observed |-> observed, loaded |-> loaded, starts |-> starts,
            parity |-> age => \A s \in starts : SameHops(OneHop(edges, DOMAIN edges, s), OneHop(edges, loaded, s))]

BuildOne(kind, input, edges, age) ==
  CASE kind = "lexical" -> BuildLexical(input)
    [] kind = "vector" -> BuildVector(input)
    [] kind = "graph" -> BuildGraph(input, edges, age)
\* build_kind: what is found is compared with the ids of the input.
Publishable(input, result) ==
  result.built /\ result.observed = FetchIds(input, DOMAIN input) /\ result.parity

AskBuild(kind, input, edges, age) ==
  LET result == BuildOne(kind, input, edges, age)
  IN  Ask([op |-> "build", kind |-> kind, input |-> input, edges |-> edges, age |-> age, result |-> result,
           publishable |-> Publishable(input, result)])

-----------------------------------------------------------------------------
(* What may be activated is whole: it has each row of the input once, all  *)
(* its vectors are of one length, and of the edges that leave a sampled    *)
(* vertex none was lost when the graph was loaded; as many vertices as the *)
(* limit allows are sampled, so that of a graph of no more than those no   *)
(* edge is missing, but one that leaves something that is no vertex.       *)
ActivatedIsWhole ==
  call.op = "build" /\ call.publishable =>
    LET result == call.result
        ids == {call.input[k].id : k \in DOMAIN call.input}
    IN  /\ Len(result.observed) = Len(call.input) /\ ToSet(result.observed) = ids
        /\ call.kind = "vector" =>
             \A j, k \in DOMAIN call.input : call.input[j].vector = call.input[k].vector /\ call.input[k].vector # 0
        /\ call.kind = "graph" =>
             /\ Cardinality(result.starts) = Min({SampleLimit, Len(call.input)})
             /\ call.age => \A k \in DOMAIN call.edges :
                              call.edges[k].from \in result.starts => k \in result.loaded /\ call.edges[k].to \in ids

\* Loads that overlap leave every reference with its row, and what is built of
\* the rows is activated only if it holds all of them.
TablesHold ==
  /\ []OneEmbeddingEach
  /\ []FactsKeepText
  /\ []ActivatedIsWhole
  /\ LoadReplacesChunks
=============================================================================
