# A verification project for arxiv-int

arxiv-int is a local-first pipeline that turns an archive of papers into a
queryable corpus.  A good part of its 54 000 lines of Python transform data, but
much of it decides: what may be reused, replaced, removed, activated, published
or served, while processes overlap, files change, steps fail and commands are
repeated.  This directory holds TLA+ modules of those decisions, TLC
configurations that check them, and TLAPS proofs about sixteen of the modules.

Paths below are relative to `src/arxiv_int/` of the source tree, those under
`docs/` to the tree itself.

## Inventory

| component | state | operations | what is hard | what makes it correct |
|---|---|---|---|---|
| Run ledger and shard executor, `pipeline/control/` | rows of `ctl.run`, `stage_run`, `shard_run`, `reuse_lease`, `artifact_manifest`, `artifact_lineage`; attempt directories | `ShardExecutor.execute`, `invalidate_owned`; `add_shard`, `acquire_lease`, `heartbeat_lease`, `release_lease`, `transition_shard`, `mark_stale` | several processes on one database, each call its own READ COMMITTED transaction; lease time-outs; crashes between ledger and file steps | one live lease and one number per attempt; accepted means complete and recorded; stale is final; calls clean up |
| Local pipeline, `pipeline/dag/`, `pipeline/run/` | reuse index, lineage, status and manifest files; run directories | `run_dag`, `execute_plan`, resume, invalidate | a file lock held for part of a command, saves in several files, halts and crashes mid-walk | a succeeded shard names a live attempt; resume finishes a halted run |
| Stage graph and plans, `pipeline/dag/` | none | registration, closures, order, ranges, what a resume skips | partial plans, assumed upstream | a plan is closed, ordered, and resumes to the same inputs |
| Prune and compact, `pipeline/prune/` | prune plans; the directories they delete | `build_prune_plan`, `apply_prune_plan` | a plan applied later, without the pipeline lock | nothing protected is ever removed |
| Generation activation, `pipeline/publish/` | `active-generation.json`, catalog, knowledge-base file, snapshots | finalize, verify, `reconcile_orphans` | a crash between any two of six file writes, readers without a lock | the pointer names one complete generation |
| Snapshots and attempt files, `pipeline/lake/`, `pipeline/control/` | scratch directories, roots, manifests | `SnapshotPublisher`, `publish_attempt` | failure or death at any rename | a manifest appears last, an abort leaves nothing |
| Corpus stages, `pipeline/{inventory,extract,normalize,dedupe,chunk}`, `extraction/` | checkpoints and snapshots | scans, archives, lanes, views, groups, chunks | files that change during a scan, budgets, repeated and forced stages | nothing that was read is lost, each item is accounted for once |
| Load and projections, `pipeline/load_lexical/`, `stores/` | canonical tables, versioned tables and graph, catalog rows | load, build, activate, drop | locks of three kinds, a graph extension that commits by itself | one active version, whole, of one load |
| Schema store, `contracts/migrations/`, `migrations/` | revisions, head state, a database's stamp | generate, check, upgrade, downgrade, adopt | commands that die, files edited after review | the revisions lead to what the contracts describe |
| Contracts, ontology, data quality, `contracts/`, `ontology/`, `data_quality/` | registry, baselines, generated tree | integrity, generation, drift, version policy, validation | rules in several places that must agree | what is accepted fits together; what is published is valid |
| Quality boundary and forecast, `pipeline/quality/`, `pipeline/forecast/` | evidence of an attempt, a retained forecast | boundary, gate, guard | evidence that speaks for something else | activated is validated; what was allowed starts |
| Transforms, `transformations/` | relations of a generation, the active pointer | parse, build, test, publish | processes and crashes around dbt | active is tested and never rebuilt |
| GPU scheduler, `inference/scheduler/` | the host flock, `gpu.lease.json`, a JSONL ledger, device occupancy | `HostGpuLease.hold`, `session`, placement | threads and processes, time-outs, a session decided before its lease | one holder, nobody waits for ever, a grant fits |
| Inference client, `inference/client/` | a call and its stream | generate, embed, health, cancel | retries, repairs, a reader thread, stalls | a call ends and answers from one stream |
| Runtime, `runtime/`, `readiness/` | setup state and lock, services, roots, reports | `setup`, `up`, `reset`, readiness | cancellation, links that appear, an erasing command | sources survive; ready is usable |
| Observability, `observability/` | a bounded log queue, stage rows | log, stop; beat, complete | overflow, a pump thread beside a worker | stop loses nothing, one ending is told |
| Retrieval, query, evaluation | frozen inputs, bundles, rankings | search, locate, score, decide, publish | paging, repetition, evaluations that overlap | a place that is told is true; evidence stays; rules decide |
| Plan records, `quality/plan*` | the project's own plan documents | integrity, next task | cycles, records, edits | a plan without findings can be worked off |

How they interact: the stage workers are called by the local pipeline or by the
executor and only write into the attempt directory they are given.  The local
pipeline and prune share the reuse index and the run directories; finalize
and prune share the active pointer.  The executor's processes share the
PostgreSQL ledger and the attempt directories.  The corpus stages follow each
other through snapshots that name their predecessors; `load-lexical` ends the
chain in the tables that projections are built from.  Stages that use a model go
through the inference client and the GPU scheduler.  Every stage passes the
quality boundary, and a run starts only behind its forecast.

`PROJECT.json` lists 63 components with their files; the parts of the table
that are only rows, text or payloads are components of their own there.

## Plan

Modelled first was what overlaps and dies: the ledger, the GPU, the local
pipeline; then activation and publication, the stores, the client and setup;
then the sequential parts whose rules have to agree with each other.  All of
that is built.  Proved is the safety of every machine with a `Spec` of its own,
the two refinements among it, of transforms and evidence bundles, of the machines of
`MCMachines` (log session, stage session, inference client, setup), of what an
update, a prune and a command on the roots may take away, of what readiness
reports, of the quality gate, of duplicate groups and the chain of snapshots, of
the loads of the canonical tables, and of what is granted of the disks and the GPU.

Left, in this order:

1. Proofs about the machine of `SchemaStore`.
2. A consumer outside the closure that `invalidate_owned` read, as a property
   (the one hazard without one).
3. Overlapping attempts of `Setup`, several databases in `SchemaStore`.

## Modules

Four kinds of modules: machines with variables of their own and a `Spec`
(`ShardLedger`, `GpuScheduler`, `LocalPipeline`, `ActivePointer` with
`ArtifactPublish`, `Projections`), what they implement (`ExclusiveLease`,
`AtomicActivation`), parts that extend `Calls` and are composed in `MCParts` and
`MCMachines`, and the proofs.

### LedgerStates
The status tables of `pipeline/control/states.py`, `Legal` for
`require_transition`, and `StaleClosure` for `lineage.stale_closure`, as a least
fixed point.

### ShardLedger
Executors (one per concurrent `ShardExecutor.execute` call) over one ledger.

| variable | code |
|---|---|
| `shards`, `leases`, `manifests`, `lineage`, `errors` | the `ctl` tables, reduced to the columns a decision reads.  Leases are indexed by their holder: `new_shard` makes a fresh holder id for every acquisition |
| `disk` | attempt directories: reserved, partial (payloads renamed, no manifest), complete with the manifest's key, or damaged |
| `pc`, `job` | the point in `execute`/`produce_shard`/`accept_shard` and the local variables |
| `inval` | the locals of a running `invalidate_owned` |
| `now` | the `clock` argument.  `job.at` is the clock value a call took before it used it: `produce_shard` reads `now` once at its start |
| `crashed`, `escaped` | history: shards whose process died or let an `IllegalTransitionError` out |

One action is one transaction or one file-system step.  On PostgreSQL
`transition_shard` is two steps (`ReadRow`, `WriteRow`), since its SELECT takes
no lock; so are `add_lineage` and `mark_stale`.  `acquire_lease`,
`heartbeat_lease`, `release_lease` and `add_shard` take a row or advisory lock
and are one step.  `Durable = FALSE` is the in-memory ledger.

Abstractions: a payload is nothing but its key; reuse keys are opaque and
collision-free (SHA-256); a lost database connection is an `Interrupt`; run and
stage rows are left out, they gate nothing.  A call that loses its lease after
the accepting transition lets the cleanup's `succeeded -> failed` escape
`execute` (`settle.py:19`): `escaped` remembers it, and `NothingLeftOpen` excuses
it.

### GpuScheduler and ExclusiveLease
Threads that run `ModelResourceScheduler.session` in processes that each have
one `HostGpuLease`.  `ExclusiveLease` is what the lease on the device promises:
one client at a time, and a ledger in which the row that ends a lease directly
follows the row that began it.

| variable | code |
|---|---|
| `pc`, `req`, `occupied`, `status`, `cancelled`, `late` | the point in `session`, and per call the requirement, the occupancy snapshot of `decide`, the status its lease will end with, the cancel event, and whether its deadline has passed |
| `threadLock`, `lockFile` | `HostGpuLease._thread_lock` and `_lock_file`, one of each per process |
| `flock` | who has the flock on `gpu.lock` |
| `current`, `last` | `gpu.lease.json`, and the last lease row of the JSONL ledger |
| `vllm` | the vLLM service is up |
| `probe`, `seen`, `answer` | a call of `current()`, which tries the flock for a moment |

`Decide`, the two waits, the four row writes, `Prepare`, `Serve`, `Unlock` and
`ReleaseThread` follow `session`, `acquire` and `release` in order, and each
write, wait and preparation may fail.  `Crash` kills a process with all its
threads; an acquired row may stay in `gpu.lease.json` (`lease.py:117`), and a
probe can make a session that has no time to wait give up (`lease.py:127`).
Which Ollama models are resident, telemetry and the rows of rejected requests are
left out; whether a model fits is in `Resources`.

### Resources
What a run takes of its host, decided before it is used.

The disks (`pipeline/forecast`): upper costs, devices, decisions, roots that are gone,
freshness of a retained forecast, the guard before a stage.  Roots are those of
`runtime_placements`, with any archive silos (`SiloVariables`) and tablespaces.
Freshness compares neither fingerprint, inventory nor telemetry; a device is
looked at by its first root only; amplification is a natural number.

The GPU (`inference/scheduler`, `inference/policy`): what
a request needs (its footprint, or the memory its caller declares), what a
device has free with what could be unloaded, the
choice of a device with its reason, preparation and release.  Not covered, as in
the code: only the first GPU is looked at, missing values read as 0,
`with_cpu_offload` raises no need of RAM, a running vLLM's memory is neither its
own nor reclaimable, a failing unload or listing is swallowed (the property
excepts it).  So the advice "start the vllm Compose profile" can lead to "GPU
budget is insufficient", and "pass allow_service_control" is judged without the
memory that stopping vLLM frees.

### LocalPipeline
Processes that run pipeline commands over one runs directory.

| variable | code |
|---|---|
| `lock` | the holder of `pipeline_lock` |
| `index`, `lineage`, `superseded` | the three parts of `reuse-index.json`: an entry per reuse key with its attempt directory and stale flag, the producer-consumer edges, the attempts that were replaced |
| `disk` | attempt directories: reserved, produced, partial |
| `status` | `status.json` of each run: the last execution per shard, and whether the walk was halted |
| `active` | `active-generation.json` with the attempts the generation publishes |
| `pc`, `job` | the point in the command and its variables: the plan that is left, the entries and edges in memory, the rows of this walk |
| `revoked` | history: attempts that a finished invalidation marked stale |
| `disturbed` | history: a prune has worked while another command held the lock or pruned, or has died |

`BeginRun` reads the status and loads the index before the lock, as `run_dag`
and the constructor do; `Enter` takes the lock and loads again; `Hit`, `Reserve`
and `Work` execute one shard; `SaveStatus` and `SaveIndex` end the command (a
crash between the two is `orchestrate.py:115`).  `SaveInvalidation` is
`apply_invalidation` and the save.  `Finalize` is one step here; its steps are
`ActivePointer`.  `BeginPrune`, `Delete` and `SaveAfterDelete` are
`apply_prune_plan`: the plan's fingerprint is compared with a new plan, so that a
plan from any earlier time is the current one; it takes no lock, so it runs
beside the other commands.  `Crash` may happen anywhere, in a prune too, which may
leave a directory half removed.

Abstractions: the configuration and source snapshot are frozen and shared by all
runs, so the reuse key of a shard is its stage and source; the quality decision
allows, and "empty" counts as produced; which other protections a candidate has
is `Upkeep`.

What the design and the guide promise of a prune is stated as it stands there, as
`InvalidatedNotServed`, `PruneSparesLive` and `PruneSparesActive`, and the code
breaks each (finding 4 and "Known to fail"): a prune beside another command writes the index it
has read over what that command saved; one that dies leaves attempts listed whose
directories, and so whose numbers, are free again; and an attempt that the active
generation took over from another run is not protected by its path.  What does hold
is the subject of the run `commands`: as long as no prune was `disturbed`, and of
the active generation what its own run made (`PruneSparesOwn`).

### ArtifactPublish, ActivePointer, AtomicActivation
From the files of a worker to what a reader sees.  `ArtifactPublish` is the
`SnapshotPublisher` (scratch directory, roots moved one by one, manifest root
last, abort) and then `publish_attempt` (temporary files, renames, manifest
last).  `ActivePointer` extends it by walks, invalidations, finalizations and
readers:

| variable | code |
|---|---|
| `work`, `scratch`, `moved`, `sealed`, `temp`, `file` | where the worker of an attempt is, and what of its snapshot and its files is in place |
| `stageOf`, `outcome`, `damaged` | the stage of an attempt, its `stage.json`, whether its files still match |
| `index`, `status`, `knowledge` | live attempts of the reuse index, `status.json`, `knowledge-base.json` |
| `snapshots`, `catalogs`, `pointer`, `temps` | the publications, `active-generation.json`, and temporary files left over |
| `progress`, `command`, `reader` | the command that holds `pipeline_lock`; somebody who follows the pointer without it |

`AssembleRun` to `EndFinalization` are orphan cleanup, verification, assembly and the six writes of an
activation.  `AtomicActivation` is a variable that moves to a complete generation
in one step; `ActivatesAtOnce` is its specification under the mapping
`VisibleGeneration`,
what a reader of the pointer would find.

A stage with several executions in the status has only its last one sealed
(`assemble.py:28`), a failed finalization overwrites the report
(`report.py:13`), and a worker that dies leaves its scratch directory
(`lake/publish.py:46`).

### Projections
Tools build, switch and clean up versions under the catalog lock;
`load-lexical` replaces chunks and builds the lexical version of its run.

| variable | code |
|---|---|
| `corpus` | the canonical rows behind a kind of projection |
| `derived` | the inputs dbt builds, in a session of its own (`lifecycle.py:144`) |
| `catalog` | committed registry rows, active pointers, search tables |
| `age` | AGE graphs, which no rollback restores |
| `txn` | the transaction that has the catalog lock, with what it sees |
| `loading`, `published` | the load lock; runs whose summary is written |
| `place`, `task` | the point in the tool and its variables |

Every tool is taken to have a project root of its own, so that the lock file of a
version never helps.  `result.json`, which is looked at and then written
(`lifecycle.py:54-66`), is left out.

### Calls
A client that calls a sequential operation and takes the answer.  The modules
below extend it: a call of a pure operation asks with bounded inputs and answers
with what the code computes; a machine has actions between a call and its answer.

### Threads and phases: Observability, Setup, InferenceClient
- `Observability`, a log session: producers that put records or drop them, the listener, and
  `stop` with its eviction and sentinel.  If the listener empties a full queue
  between the two calls of `enqueue_sentinel`, stop hangs, against its docstring:
  `StopEnds` is violated (finding 7).  `StopReturns` says that this is the only case.
- `Setup`: the phases under the setup lock, what each finds on the host and
  repairs, `verified.json`, and attempts of both modes (downloads on or off) that
  fail, are cancelled or die while the lockfile changes, back too, and models vanish
  between them.  A fingerprint is of the lockfile, the extras (constants of
  `settings.py`, which change with the checkout as the lockfile does) and the mode.
  No fingerprint is withdrawn when a sync breaks off, so `ReuseIsSound` does not
  hold ("Known to fail"); the history `lapsed` marks that a sync broke off or died since, and
  `ReuseIsVerified` is what holds without.  Attempts that overlap are not modelled
  (`coordinator.py:83`).  The models phase pulls the first missing model only; images
  are built here or pulled; with the vLLM backend a setup without downloads never
  gets past the models phase.
- `InferenceClient`: the identifying requests of both backends, streams with a
  reader thread, time-outs, retries, repairs, cancellation.  A stream that was given up is read on by its
  thread; parsers' `ValueError`s leave `health` and `embed`; error lines that Ollama
  sends within a stream are ignored.
- `Observability`, the session of a stage: worker and pump under one lock.  `stop` waits two seconds for the pump, so
  one beat more may follow; a beat between `complete` and `stop` writes a
  "running" row behind the terminal one; the pump beats on for a dead worker, so
  "stalled" is never told.  The body of the `with` statement calls the session, ends
  or raises, and `__exit__` completes what it has not.  A write of a row, of the
  latest snapshot or of a manifest may fail, before it has written, after, or with
  the file emptied (`SinkFails`): it ends the pump's thread or the worker's body;
  behind a failure in `start`, or in the `complete` of `__exit__`, nobody
  stops the pump.  `stop` also waits for the listener of the log, taken as
  returning (the log session says when it does).

### Transforms
Requests of several processes for derived generations: the lock of a generation,
dbt as an external that builds and tests its relations, validation of the evidence,
and the pointer.  A relation is known by the request that built it and by
whether all its tests have passed since.  `transforms` is one record: `job` per
runner, `owner` of each generation's lock, `rel`, and `active`.  A failure after
the pointer moved (`runner.py:192`) leaves the generation active with a failed
result; `_fail` writes outside the lock.

### EvidenceBundles
The development, preregister, final and calibration stages of
an evaluation publish bundles: staged, verified, moved onto a directory claimed for
them.  `project` is the versions of the frozen inputs, `bundles` what stands at
each place, `evaluation` where each process is and what it has read.  A claim
whose process died blocks its place; `_frozen_copies` copies files as they are at
publication; `load_protocol` reads and hashes in two reads.

Its second part: names, files, directories, manifest and verification of one
bundle, after whatever happened to the tree.  Hashes are collision-free.

### Sources to chunks: SourceInventory, Extraction, Chunks, CorpusChain
- `SourceInventory`: scans of one run over files that change: metadata before and
  after, the checkpoint with its epochs, quarantine.  Second part: the members of
  nested archives under one budget.  A reader delivers at most what a member
  declares.
- `Extraction`: which lanes a source is tried with, and the walk over inventory
  items into a sealed snapshot.  `ocr or baseline` takes a blank OCR result over
  sparse text; a failed plain-text lane is missing among the fallback reasons.
- `Chunks`: the canonical and search views with their offset maps in both
  directions; blocks, prose, tables and sections.  A word that fills the limit
  exactly and is followed by white space yields an empty chunk; the overlap may put
  a chunk wholly inside the next; table chunks have no limit.
- `CorpusChain`: key edges, buckets with their limits, the forest of `UnionFind`,
  groups and leaders; and the snapshots of extract, normalize, dedupe, chunk and
  load over commands that run, force, invalidate, halt and lose files.  The stages
  really compute: a parser may give another text each time, normalization and
  chunking refuse texts, and dedupe runs the same plan of groups over the rows it
  reads, with its buckets in any order.  Chunking does not compare the
  normalization it reads with the one the duplicates were found in
  (`chunk/publish.py:108`): after a forced part of the plan a document can be
  suppressed for one that is not there, which `TextSurvives` excepts.  After a
  lost file an unforced run makes that stage again but reuses the chunks.

### Stores: StoreTables, SchemaStore
- `StoreTables`: references between the canonical tables and the transactions that
  load them at once (staging, upsert, trigger, retraction, load lock); what each
  kind of projection is built of and checked by.  A load that would take a chunk
  from under a fact fails as a whole; a batch that swaps two embeddings is refused;
  an edge whose subject is no vertex is never sampled.
- `SchemaStore`: contracts change, revisions are generated, reviewed, applied and
  taken back, a database is adopted.  A generation that dies between manifest and
  head state (`torn`) makes the next one start from a stale state; upgrade runs
  files no manifest lists (`loose`).  The properties except the two.

### Rules: StageGraph, Upkeep, QualityGate, Evolution, ContractCatalog, PlanIntegrity
- `StageGraph`: registration, closures, stable order, ranges, what a resume skips.
  A plan with `--from` may hold stages with an input that is neither executed nor
  assumed (`graph.py:147`), against the architecture page: `FromExcusesNothing` is
  violated (finding 6).  `CutLosesStrangers` says that only such inputs are left out
  as lie beside the first stage.  The lexical profile is not closed under
  dependencies.
- `Upkeep`: what reconcile computes from two scans with unreadable silos, and which
  candidates a prune deletes.  `_run_id` takes the first path component that
  begins with "run-": below a directory of such a name the active run is not
  protected, and the inputs exclude that.
- `QualityGate`: the rules that a contract's columns compile to, over batches and
  over the whole, merging, the checks that raise, publication; and
  the boundary that asks for, makes or refuses evidence.  A parquet file without
  rows is "not-run" while an empty frame may be published; a composite key is
  checked column by column, so that rows with different keys can fail; attached
  results with a rule's id replace its result, which the model does not let the
  producer do.
- `Evolution`: classes of contract changes (URIs and bindings among them), the
  version policy and histories of frozen baselines; versions, findings,
  assertions and classes of the ontology, and the domain rules of a batch: facts whose
  predicates are terms or URIs, the graph of parts and its cycles, alternatives, allocations.
- `ContractCatalog`: integrity of the registry, canonical model, tables and keys,
  the generated tree.  Neither check asks whether a foreign key's target is
  unique; relationships of a schema are checked but never generated; unsupported
  options are dropped silently, though `normalize.py:5` says they raise.
- `PlanIntegrity`: prerequisites, cycles, checkpoints, audit notes, lanes, the next
  task, the fields of a task.

### Answers and Retrieval
- `Answers`: places of a source after files were moved: ledgers of path events
  that are imported in pieces and again, and laid over sealed occurrences;
  citations to facts, reports and passages; answers in JSON, validated against the
  schema of their kind.  Of several citations with one id the first is taken; a
  refusal envelope is accepted for every schema; quotes are not compared with the
  text.  The operator page says that members hash the container, the code
  compares the container's hash with the member's.
- `Retrieval`: the plan of a query, stages tried in turn, paging, totals,
  facets, tokens of two scripts; then the evaluation of a second opinion: repeated
  queries, readings of a ranking, and the verdict over endpoints, seeds and
  gates.  Search, count and facets are separate statements without a snapshot:
  nothing else writes meanwhile in the model.  The bootstrap is an input.
  `protocol.json` would adopt also for a gain in precision alone; the code calls
  that inconclusive if quality improved on too few pairs.

### Runtime
The services of a request, their Compose commands, the layout of configured roots
with the commands that write reports and plan and apply an erasure, while
directories become links (where a link is, a layout makes nothing; the checkout does
not become one), and a layout, a start, a stop or a deletion fails half-way; and
readiness on a host with given defects.  The last check of a reset and its
deletion are one step here (record 0005 names the gap).  A start whose database has
a write-ahead log or a tablespace of its own makes the data directory, for the
file that tells Compose of the mounts: by default it is in the checkout, which is
what `LayoutOutside` excepts.  `AdviceHelps` names the hosts on which a report advises
nothing: of a misplaced root that the request does not inspect there is only a finding
without an action, and a pipeline on vLLM is told to start the `vllm` profile,
which serves one model and not those for retrieval, and wants a GPU.  With the profiles pipeline and vllm only vLLM's model
is checked; a closed AGE gate is only "degraded" though `up` refuses it.  Sites
(`Sites`) and hosts (`Hosts`) are enumerated one defect or two at a time.

### MCParts, MCMachines, MCRecords and MCCommands
`MCParts` composes the parts that are checked for safety: in each behaviour one
of them (`focus`) is called, one call after the other, with inputs that the
module enumerates, or its machine takes its steps.  The parts share no state in
the code either, except through the files that the machines above model.
`MCMachines` is the same for the machines that must come to an end, the in-memory
ledger among them, `MCRecords` for the ledger on PostgreSQL and the activation of
generations, and `MCCommands` for the commands over the runs directory and the tools
over the projections.

## Runs

| run | question | bounds |
|---|---|---|
| `records` | `TypeOK`, `LeaseExclusive`, `AttemptUnique`, `SettledWhole`, `AcceptedUnderLease` on PostgreSQL; of the publication `FilesAppearWhole`, `PointerSound`, `ActivatesEvidence`, `ActivatesAtOnce` (refinement of `AtomicActivation`) | 2 executors with 2 calls each, 4 rows, a producer and a consumer key, TTL 2 and time 2, one fault, one invalidation: a takeover and a late holder; two runs of two stages, 3 attempts of two files and two roots, 4 commands, one fault, one damaged attempt |
| `lost_stale` | violated: `StaleIsFinal` on PostgreSQL | one call each, one invalidation |
| `gpu` | `TypeOK`, `DeviceExclusive`, `KeepsLease` (refinement of `ExclusiveLease`), `SessionEnds` | two processes, one of them probing; crashes, errors and time-outs without bound |
| `gpu_runtime` | violated: `RuntimeMatches` | two processes, both runtimes |
| `commands` | of the pipeline `IndexSound`, `PruneSpares`, `NothingForgotten`; of the projections `CatalogSound`, `LoadReconciles`, `SwitchesTogether` | two processes, one run of two stages, 4 commands, 3 attempts per key, one fault; 2 tools, 2 versions, 4 commands, one fault |
| `generation` | violated: `PruneSparesActive` | one process, two runs, 5 commands, no fault |
| `resume` | violated: `ResumeContinues` | one process, two shards, 2 commands |
| `reload` | violated: `InterruptedLoadsResume` | one tool, one fault |
| `parts` | 14 properties of the parts | below |
| `machines` | `LogEnds`, `SetupSound`, `ClientSound`, `SessionTold`; of the in-memory ledger `StaleIsFinal`, `PublishedImmutable`; `CallsEnd` of the ledger and of setup; under fairness | queue of 2 and 4 records by 2 producers; 3 setups in either mode, 2 models, 2 lockfiles; 3 tries, 2 repairs, streams of 2 lines; 3 items, one beat, one write that fails; 2 executors, a restart between calls, two keys in one slot |
| `cut` | violated: `FromExcusesNothing` | the production graph, the investigation profile, every first stage |
| `shutdown` | violated: `StopEnds`, under fairness | as `machines`, the log alone |

Most properties are conjunctions of named parts that one question joins; each
part was also checked, and seen violated by a defect in the code's definitions,
by itself.  In the run `parts`:

| property | its parts, and what they say |
|---|---|
| `PlansHold` | `OrderIsStable`, `RangeIsBetween`, `ResumeKeepsInputs`, `CutLosesStrangers` of stage plans; `PlanIsWorkable`, `CyclesAreReal`, `LinesStayInField` of the project's plan |
| `UpkeepHolds` | `LostContentInvalidates`, `DeltaReplays`, `TombstonesAreEvidence`, `ViewFollowsSources` of an update; `NothingProtectedGoes` of a prune |
| `SourcesHold` | `PublishedIsFrozen`, `FailuresAreRetried` of scans; `ExpansionIsBounded`, `EveryEntryIsTold` of archives; `TextIsKept`, `SealedIsWhole`, `EveryItemAccounted` of extraction |
| `ChunksHold` | `SpansCover`, `ProseKept`, `ProseBounded`, `TablePacked`, `LinesKept`, `SectionsEnclose` |
| `CorpusHolds` | `OneSurvivor`, `TruncationTold` of groups; `TextSurvives`, `LoadedTogether`, `RebuildIsNew` of the chain of snapshots |
| `AnswersHold` | `LocateFollows`, `RowsRoundTrip`, `PlacesAreTrue` of places; `TakenIfUsable` of structured answers |
| `ContractsHold` | `RelationsHold`, `BindingsAreOwned`, `NothingLeftOver`; `StrictestBump`, `SameMajorReads`; `AssertionsSurvive`, `CyclesAreTold`, `DistinctionsKept`; `RevisionsLeadToContracts`, `StampMeansSchema` |
| `GateHolds` | `PublishedIffValid` of a dataset however it is cut into batches; `EvidenceIsExact` of the boundary |
| `RetrievalHolds` | `PagesJoin`, `LiteralIsKept`, `CodesMeet`; `CoverageIsExact`, `ScoresAgree`; `RulesDecide`, `OnlyOneWins`, `RowsSpeakForTheirPair`; `FingerprintIsWhole` |
| `RuntimeHolds` | `SourcesKept`, `RunsKept`, `RefusedIsWhole`, `LayoutOutside`, `ReportInside`, `UpFollowsReadiness`; `ReadyIsUsable`, `AdviceHelps` |
| `ResourcesHold` | `BoundIsCurrent`, `CostsChargedOnce`, `AllowedStarts` of the forecast; `GrantFits`, `SessionGivesBack` of a placement |
| `TransformsHold` | `PointerTested`, `ActiveIsImmutable` |
| `EvidenceHolds` | `EvidenceStays`, `FinalFollowsPlan`, `ClaimsAreHeld` |
| `TablesHold` | `LoadReplacesChunks`, `OneEmbeddingEach`, `FactsKeepText`, `ActivatedIsWhole` |

And elsewhere: `SettledWhole` is `NothingLeftOpen` (a call leaves no lease and no
running row) and `AcceptedComplete` (ledger and files agree).  `DeviceExclusive`
is `OneHolder` and `NothingLocked`.  `IndexSound` is `TypeOK` and, unless a prune
was disturbed, `LiveFollowsProducer`; with the same exception `PruneSpares` is
`PruneSparesLive` and `PruneSparesOwn`, and `NothingForgotten` is `ServesValid` and
`KnownUntilRemoved` of every step.  `FilesAppearWhole` is `PointerTypeOK`, `ManifestsAreLast` and
`AbortLeavesNothing`; `PointerSound` is `PointerComplete`,
`ReaderSeesOneSnapshot` and `ReturnsClean`.  `CatalogSound` is `CatalogTypeOK`,
`ActiveIsWhole` and `PointersMatchRows`.  `LogEnds` is `StopReturns` and
`StopDrains`; `SetupSound` is `ReuseIsVerified` and `ReadyIsWhole`; `CallsEnd` is
`ExecuteReturns` and `SetupEnds`;
`ClientSound` is `CallReturns`, `OneStreamAnswers` and `WaitsOnce`; `SessionTold`
is `LatestIsTold`, `OneEnding`, `QuietAfterStop` and `SessionStops`.

Why the bounds are enough.  Ledger: each decision compares an executor's own row
with at most one other, so two executors meet every order the code tells apart;
four rows give an attempt after a takeover, and a consumer.  GPU: nothing is
counted, so the state space is finite by itself; two threads of one process,
which this run leaves out, are covered by the theorem `Exclusion`.  Pipeline:
each hazard needs a run, something that changes its result (invalidate, force,
halt), and one more command that meets it; the fourth is the competitor that
waits with what it loaded.  Publication: two runs give a generation before and
one after, a third attempt a replacement; one fault is a death at every write.
Stores: two versions switch, the third command meets a version that is being
dropped or built, the fourth repeats.  Parts: every input that the code's case
distinctions tell apart is enumerated at the smallest size at which they meet:
graphs of three stages with all edges, silos of three paths, texts of five
characters, blocks of nine, tables of five rows, groups of four documents,
archives nested three deep where the policy
allows two, contracts with two fields, rankings of three chunks; two
processes and one death in each machine.

Deadlock is checked in the run `gpu`.  The other runs end when the bounds on
calls, commands, faults and time are used up.  Executors, commands, runs and
tools are symmetric; symmetry is used in no run with a liveness property.

Fairness.  Ledger: weak fairness of each executor's own step and of a running
invalidation.  No call of `execute` waits for another (a held lease fails the
attempt at once), so a process that is scheduled progresses; workers are assumed
to return.  GPU: weak fairness of each thread's own step and of its deadline.
The waits poll, so weak fairness does not promise that a waiter ever finds the
lock free; its deadline passes whatever the others do.  The body of a session is
assumed to end.  Machines: the listener and the thread that stops the log; the
phases of a setup, whose tools have time-outs; the requests and reads of a client
and its deadline; the worker of a stage session, once it has completed
(`_execute_one` calls nothing but `__exit__` after `complete`, `orchestrate.py:180`).
Before that it is not fair: only what comes after `complete` is promised to end.  Crashes, faults,
cancellation, edits, probes and the clock of the ledger are not fair.

## Findings

1. `lost_stale`: an acceptance that overlaps `mark_stale` overwrites `stale`
   (`pipeline/control/postgres.py:163`), though the documentation says the
   invalidation wins.
2. `gpu_runtime`: a session decides before it waits for the lease
   (`inference/scheduler/__init__.py:96`), so an Ollama session may be served on
   the GPU while vLLM, started by the session it waited behind, is up.
3. `resume`: a stage is taken for done when one of its shards succeeded
   (`pipeline/dag/actions.py:26`), so a walk halted at a later shard of that stage
   cannot be resumed.
4. `generation`: only attempts below the active run's directory are protected
   (`pipeline/prune/protect.py:81`), not those the active generation took over from
   another run.
5. `reload`: a load interrupted between its activation and its summary is refused
   on every repetition with its run id (`pipeline/load_lexical/stage.py:121`),
   until another run is activated.
6. `cut`: with `--from` only what lies above the first stage is assumed and
   validated (`pipeline/dag/graph.py:147`); from `chunk` on, `facts` runs without a
   key of the ontology.
7. `shutdown`: `enqueue_sentinel` returns without a sentinel when the listener
   empties the full queue between its two calls
   (`observability/logging/__init__.py:65`), and stop waits for a listener that
   waits for records.

### Known to fail
Three more properties are stated in the modules and do not hold; no configuration of
this directory keeps their runs, but each is found in seconds when a configuration
named here checks it instead of its own property.

- `InvalidatedNotServed` (two processes, one run; otherwise `MCLocalPipeline_generation.cfg`):
  a prune takes no lock (`pipeline/prune/apply.py:35`) and saves the index it has
  read, so an invalidation that was saved meanwhile is undone and what it marked is
  served again, against `docs/design/spec.md:1478-1479`.
- `PruneSparesLive` (6 commands, 3 attempts, one fault; likewise): a prune that dies
  between its deletions and its save leaves a removed attempt listed as superseded; its
  number is used again, by an attempt that becomes live, and the next prune removes that
  (`pipeline/prune/apply.py:34`), against `docs/design/spec.md:1507-1508`.
- `ReuseIsSound` (`MCMachines_shutdown.cfg` with `Asked = {"setup"}`): nothing withdraws
  the fingerprint of the environment when a sync of another mode or lockfile breaks off
  in it (`runtime/setup/env_phase.py:43`); a later setup with the old fingerprint
  reuses what is left.

## Proofs

### ShardLedgerProofs
For all constants that satisfy `LedgerAssumption` (its last line says that `None`
is no row, key or directory):

- `TypeCorrect`: `Spec => []TypeOK`;
- `LeaseExclusion`: `Spec => []LeaseExclusive`;
- `AttemptsUnique`: `Spec => []AttemptUnique`;
- `CallsSettle`: `Spec => []SettledWhole`;
- `AcceptanceIsLeased`: `Spec => AcceptedUnderLease`;
- `PublishedStays`: `Spec => PublishedImmutable`, for both ledgers;
- `StaleStaysStale`: `~Durable` implies `Spec => StaleIsFinal`.  With `Durable`
  it is false, as the run `lost_stale` shows.

The first three rest on `InductiveInvariant`: `IInv` joins the type invariant with
the two properties and with three facts they need.  `Locals` says what an executor's
variables hold in each phase (its row, the key, the status it would write), so
that a row it writes is well formed.  `RowsOK` says that an absent row has no
live lease and that an executor works on an existing row of its own key: without
it a lease could be granted to a row of another key.  `AttemptsBounded` says
the attempt numbers of a key have a greatest one, which `Max` needs since the
set of rows may be infinite.  There is a lemma per action for types; the
actions that change neither keys nor attempts and acquire no lease go through
one lemma, `KeepInv`, and `AddShard` and `AcquireLease` have proofs of
their own.

The others rest on `LedgerInvariant`, which adds four invariants, each preserved
because of the ones before it:

- `RowsOwned`: no two executors have one attempt.  Nothing in the code checks it,
  but everything below needs it, since a step could otherwise settle or reopen
  what another executor works on.
- `Settling`: `NothingLeftOpen`, with what an executor still owes in each phase
  (`Closing`): it has no lease before it takes one and after it gave it up, and
  its attempt is not open any more when it leaves it.  The status an invalidation
  sets in between is no obstacle, since it closes the attempt; an exception that
  leaves `execute` is one, and is excused by `escaped`.
- `Filing`: what is on disk and recorded for an executor in each phase
  (`Prepared`); that no two executors write one directory (`DirsApart`: `mkdir`
  refuses the second, even after the ledger was forgotten); and that a row which
  names a directory names a complete one of its key, with lineage and manifest
  (`RecordOK`).  `AcceptedComplete` and `PublishedImmutable` follow.
- `Timing`: since the second heartbeat an executor's lease is the one it renewed,
  unless its time is over: who takes the key over looks at the clock first.

`StaleStaysStale` uses `Undivided`: in memory no status change is between its
read and its write.  Then only `Legal` moves a row, and from "stale" it allows
none but "pruned" and "superseded".

### LocalPipelineProofs
For any processes, runs, stages, shards and bounds and any plan in topological order.
Nothing is assumed of who prunes when; the properties themselves speak of the
time up to the first prune that was `disturbed` ("Known to fail" tells what
follows it):

- `IndexIsSound`: `Spec => []IndexSound`;
- `PruneIsSafe`: `Spec => []PruneSpares`;
- `NothingIsForgotten`: `Spec => NothingForgotten`.

A command decides on the copy of the index that it loaded, and saves the whole
copy.  So the invariant says of the stored index and of the copy of whoever has
the lock the same thing (`Sound`: a live entry was made from live ones and lineage
says so, it is on disk, not superseded and not revoked), and that the copy misses
nothing that is stored (`HeldSound`).  `PlanCovered` says that what a walk has still
to execute rests on what it assumes, on what it executes before, or on what is
live by now: a plan is made before the lock, so this is what a competing
invalidation could break.  `WorkerApart` keeps a worker's directory new to
everybody, `PruneApart` says what a prune that runs alone may count on.  All of it
is claimed until a prune is disturbed, and only the shape of the variables
(`Forms`) beyond.

### ActivePointerProofs
For any attempts, runs, stages and bounds:

- `FilesAreWhole`: `PointerSpec => []FilesAppearWhole`;
- `PointerIsSound`: `PointerSpec => []PointerSound`;
- `EvidencedActivation`: `PointerSpec => ActivatesEvidence`;
- `ActivationIsAtomic`: `PointerSpec => ActivatesAtOnce`, the refinement of
  `AtomicActivation` by the six writes.

`FilesInv` is what is in place of an attempt for where its worker is.  `Finalization`
says how far the command with the lock has come: its document is backed by
indexed attempts that validate, its manifest and then its catalog are there
before the pointer names them.  `PointerNames` and `ReaderFollows` say that the
pointer, and each thing a reader has read of it, belong to one complete
generation that is in force; published entries are never rewritten
(`EntriesFollow`), so a reader that began with an older pointer still reads one
generation.  `Leftovers` is what a death between a temporary file and its rename
leaves, and why a finalization that returns has left nothing.  For the refinement
only the rename of the pointer changes `VisibleGeneration`, and it does so to a complete
document.

### ProjectionsProofs
For any tools, versions, ids and bounds, and `NeverCleans` (no command of the
repository builds and cleans up in one call):

- `CatalogIsSound`: `ProjectionsSpec => []CatalogSound`;
- `PointersSwitchTogether`: `ProjectionsSpec => SwitchesTogether`;
- `LoadIsReconciled`: `ProjectionsSpec => []LoadReconciles`.

A transaction sees its own catalog, and AGE graphs are outside of it.  `StoresSound`
says of both catalogs that what is active stands: a table with the rows of its
checksum and a graph that is whole.  `BuildApart` says that a build only touches
versions active in neither, so that neither its rollback nor its graph, which no
rollback restores, harms an active one; `DropApart` the same of a clean-up.
`LoadAlone` says what the lock of a load guarantees from its rows to its
verification.

### SharedStateProofs
Of the transforms, for any processes, generations and models, assuming only that "none" is no
process (`RunnerAssumption`):

- `PointerIsTested`: `TransformSpec => []PointerTested`;
- `ActiveStays`: `TransformSpec => ActiveIsImmutable`;
- `TransformsAreSound`: `TransformSpec => TransformsHold`, both.

The pointer is read before dbt runs and moved after it.  The invariant
(`Good(transforms)`) says that a runner beyond the lock owns its generation
(`OwnsIt`), and that what it has read of the pointer still holds of that
generation (`ReadHolds`): the pointer can come to name a generation only
under that generation's lock.  From that a build of the active generation
is always refused, and what is activated was tested under the same lock
(`Tested`).

Of the canonical tables and the projections, for any sessions, tables, rows,
batches, inputs and number of transactions, assuming that the four tables the
properties speak of are among those that have rows (`TableAssumption`) and that
at least one vertex is sampled:

- `TablesAreSound`: `TablesSpec => TablesHold`.

`MCParts` loads four tables with two sessions and three transactions; a third
session was checked of the invariant before it was proved.  The invariant is
`Consistent`.  Of each open transaction it says that what it would commit is in order
(`Committable`: one embedding per target, and facts with their text), and how far
load-lexical is on its way to the chunks of its snapshot (`Lexical`).  That is not
enough for two that commit one after the other, since each has checked its rows
against what was there before.  So `Beside` says of any two that they have staged
different tables, which is the lock that `truncate_staging` takes, and that neither has
deleted what the other refers to, which is what `MustWait` and the guard of
`RetractAbsent` are for.  From those a transaction stays in order when another commits
(`OthersCommit`): of a table it has staged nothing changes, and of one it has not it sees what
the other leaves.  That the trigger keeps embeddings apart within one batch is
`EmbeddingsStayApart`, over the closed form `RowsAfter` of what a batch leaves.

For the projections an ordered list of the ids exists (`OrderExists`: the place of
a row is how many are not after it), and it is as long as there are rows, so that a list that
equals that of the input has left none out (`AllListed`).  The sample has as many vertices
as the limit allows (`AsManyAsTheLimit`, with the division of `sample_starts` in
`StepsApart`), and if the hops of one are counted alike in both graphs none of its
edges is missing (`NoEdgeLost`).

For bundles, any set of evaluations and any bounds:

- `FinalsFollow`: `BundleSpec => []FinalFollowsPlan`;
- `ClaimsHeld`: `BundleSpec => []ClaimsAreHeld`;
- `EvidenceRemains`: `BundleSpec => EvidenceStays`;
- `EvidenceIsSound`: `BundleSpec => EvidenceHolds`, all three.

`ReplaceClaim` moves a bundle onto its place whatever stands there, so that
nothing is overwritten has to follow from what other processes may have done
since.  `BundlesInv` says that where one is about to move stands its own claim, and
no one else is about to move there (`ClaimHeld`); that a claim has such an owner
as long as nobody died (`ClaimOwned`); and for the plan: only the final stage
verifies a preregistration and cites it (`PlansArePlain`, `VerifiesFinal`,
`FinalsCite`), and what is staged carries what its evaluation read
(`StagedOwn`).

Of the GPU scheduler, for all constants that satisfy `SchedulerAssumption`, any number of processes
and threads:

- `TypeCorrect`: `Spec => []TypeOK`;
- `Exclusion`: `Spec => []OneHolder`, `NoLockLeft`: `Spec => []NothingLocked`,
  and `DeviceIsExclusive` for both: `Spec => []DeviceExclusive`;
- `Implements`: `Spec => KeepsLease`, that is `Lease!Spec`.

`SchedulerInv` joins `TypeOK` with `LocksOK`: who is in which phase is the owner of the
thread lock of its process, of the lock file, and of the flock (`ThreadLockOK`,
`LockFileOK`, `FlockOK`), and a thread whose lease is recorded has the last
ledger row (`LedgerOK`).  It is needed because `_unlock` releases whatever the
object has stored: that this is the caller's own is not visible in any single
step.  Most actions only move a thread on and go through the lemma `Move`; those
that take or give up a lock have proofs of their own.  For the refinement,
`RecordedHolds` shows that at most one thread is recorded, and `AcquireMaps` and
`LeaveMaps` that entering and leaving is a step of the abstract lease.

### PartsProofs
`MCParts` calls the operations of `Upkeep` with scans of two silos and two paths
and with chosen entries.  `UpkeepSpec` is the same client with scans of any
finite silos and paths, any entries and any marks before and after the plan;
assumed is that both scans are of the same silos, as `reconcile` makes them,
that one directory has one name, and that no run is called "none".

- `UpkeepIsSafe`: `UpkeepSpec => []UpkeepHolds`.

An update pairs what went with what came by the rank a key has among those of
its silo and content.  Ranks are injective (`RankIsInjective`, which needs that
the keys are finitely many), so that the pairs name each side once (`PairsMatch`)
and there are as many of them as sides (`SidesCount`).  From that the events
replay the one scan into the other (`UpdateReplays`).  The view is compared for
both cases of the evidence (`ViewWithEvidence`, `ViewWithoutEvidence`).  A prune
deletes what is unprotected at its second look (`PruneProtects`).

The commands on the roots run in `MCParts` on chosen placements of the roots, with
one directory that becomes a link to a chosen place.  `RootsSpec` places the roots
anywhere, asks for any profiles and report files, and lets any directory that does
not hold the checkout become a link to anywhere between any two steps.

- `SourcesSurvive`: `RootsSpec => [](SourcesKept /\ RunsKept /\ RefusedIsWhole /\
  ReportInside /\ UpFollowsReadiness)`.

A reset checks each target three times: before services stop, after, and before
its deletion.  Only the last one counts for `SourcesKept`: what is erased is
accepted where the links lead then (`AcceptedTarget`).  `RefusedIsWhole` needs that
the first two agree unless a directory has become a link between (`ResetInv`).
`RunsKept` is not checked by a reset at all: it follows from what the other
commands require of the placement (`RunsApart`), and only while there is no
link.  `UpFollowsReadiness` holds since a start checks fewer roots than readiness
of the same profiles (`StartChecksLess`) and the site stays as it is.

- `RuntimeIsSafe`: `RuntimeSpec => []RuntimeHolds`.

`RuntimeSpec` is `RootsSpec` with the questions about readiness between the
commands, and with two restrictions.  Links are plain (`PlainLink`): none leads
into itself or to a directory above it, where a path has to be followed more than
once and `Resolve` follows it once.
And a host has at most one trouble of each part (`Hosts`), of any number of parts.
`LayoutOutside` then follows from the checks of the placement: a directory that is
made is a root, or a child of one, or the data directory, and the sources of the time are apart from
the roots (`LayoutApart`); a link at a directory to be made is left as it is
(`LinkAt`), and one above it has been followed when the roots were resolved
(`ResolveTwice`, `OnTheWay`), unless it came later, and then the property claims nothing.
For `AdviceHelps` suppose that no step advised changes anything (`Useless`).  Then each
check has passed whose step would: the tools answer and the configuration is
there (`CommandsAnswer`), so that a start is accepted (`UpIsAccepted`) and the
services run, as a start would put one right that does not (`ServicesRun`), and the
same for inference (`InferenceAnswers`); so the report is ready (`AdviceChanges`).
`ReadyIsUsable` takes the same way (`ReadyTells`), since a report that is ready advises
nothing at all.

### InductionProofs
Parts of `MCParts` whose answers are computed step by step.

- `GateIsExact`: `GateSpec => []GateHolds`.

`MCParts` checks frames of up to three rows of four columns in batches of two, and
evidence for two datasets.  `GateSpec` is the same client for any contract (any columns
of any declared types, lengths, accepted values, references and uniqueness), batch
size, frame of any columns, types and number of rows, and any evidence of a stage and
of the boundary; assumed is only that batches hold at least one row and that a
column is declared by those fields (`QualityAssumption`).  What merging the results
of the batches comes to is shown by induction (`MergedIs`), which this module derives
from the well-foundedness of `<` (`LeastNumber`).  The batches cut the rows without
loss (`BatchesCutRows`, `SomeCut`), so that a rule passes over the batches exactly if
it does over each row; only duplicates need the whole (`BatchResult`,
`DuplicateIsOne`, `SnapshotResult`).  What the rules say together is what the contract
says (`PassingIsValid`, `ValidPasses`), and a result is publishable exactly if every
rule was looked at and passed (`BuiltIsPassing`).  For the boundary, the set that is
kept has one validation per declared dataset (`KeptIsExact`).

- `CorpusIsSafe`: `CorpusSpec => []CorpusHolds`.

`MCParts` plans groups of up to four documents, and runs three commands, or two and the
loss of a snapshot, on two documents with three texts.  `CorpusSpec` is the same client for any
finite number of documents, keys, sizes and buckets, any commands and any losses;
assumed is that documents are finitely many numbers, that sketches have finitely many
bands and that the limits are positive.  The recursive functions behind it exist and are what
they say by induction on a rank (`Recursion`): `FindRoot`, since a parent never
comes after its child (`IsForest`, `UnionJoins`); the forest over a set of edges
(`ForestJoins`); the candidates over the buckets (`CandidatesAre`).  So the
components are the classes of what the edges reach (`ComponentsAre`), a leader is
unique (`LeaderLeads`), and of each group all but it is suppressed (`OneStays`,
`PlanIsSound`).  A bucket of which a pair is left out has filled the list
(`BucketIsTaken`), which gives `TruncationTold`.

The chain rests on `ChainInv`.  `ShotsInv` says of every snapshot what it was made
of (`MadeOf`); what is published only grows, and a lost file changes no name in it
(`ShotsGrow`, `ShotsLose`), so that `LoadedTogether` follows along the names alone.
`RebuildIsNew` needs that the stages a forced rebuild has passed are indexed after
its beginning and name each other (`WalkInv`).  `TextSurvives` needs that chunks and
duplicates name one normalization (`Aligned`), which nothing in the code
compares.  It follows from what the index would serve: a stage that serves again
names what the index names, and all of that serves too (`Coherent`).  A stage is
run without force only if it does not serve, so nothing that was made from it
does (`AttemptIsCoherent`); an invalidation takes along all that reads of it
(`BelowIsClosed`); a death restores an index that was coherent (`DieKeeps`).  Forcing
breaks it for the stages that are still to come, and a forced command that does
not come to the end, or does not begin at the start, is the exception in
`TextSurvives`.

- `ResourcesAreGranted`: `ResourcesSpec => []ResourcesHold`.

`MCParts` asks forecasts of a few plans, placements and amounts of free space, and
sessions of two models on small hosts.  `ResourcesSpec` is the same client for any
archive, plan, cache hits, placement of the roots on any devices and free space on them,
before and after; any models of any footprints, any resident ones, and any of
Ollama's calls that fail.  Assumed is that the reserves are natural numbers
(`ReservesAssumption`), and that a model is not called what the failing listing is.
The answers are made of sums over finite sets, which the community modules define by a fold:
that the fold exists and is a sum follows by induction over subsets (`SubsetInduction`,
`SumsExist`, `SumAdds`), and so that sums split, grow with their terms and add up over
disjoint parts (`SumSplits`, `SumIsMonotone`, `SumOfParts`).  For `CostsChargedOnce` the costs charged to the
devices are such parts of all costs: each cost has one root, with the data directory
in place of a missing one.  For
`BoundIsCurrent` no cost is less for more stages (`CostGrows`), hence no peak and no
reserve (`PeakGrows`, `NeedGrows`), and the guard has seen room for those of the retained
plan (`RoomIsThere`); `AllowedStarts` is the same room seen twice.  For `GrantFits` the
resident memory splits into what the model itself holds and the rest
(`LoadedSplits`); the rest is in the budget exactly if the device will be without it
when it is ready (`BudgetOfOllama`, `ReadyForOllama`).  What remains after a session is
part of what was there (`LeftByOllama`, `SessionOfVllm`), for `SessionGivesBack`.

### MachinesProofs
The machines of `MCMachines` have a specification each (`LogSpec`, `StageSpec`,
`ClientSpec`, `SetupSpec`): the behaviours of `MCMachines` with that machine
asked for, without its bounds' values.  Of the properties that the run checks,
`LogEnds`, `SessionTold` and `ClientSound` join safety with an ending; proved is the
safety, and all of `SetupSound`.  Assumed is that the tracker's throttle is at least
one (`StageAssumption`; the code takes `max(1, count_interval)`) and that a
number of models or of lockfile versions is not negative (`SetupAssumption`).

- `LogDrains`: `LogSpec => []StopDrains`.  `LogInv` follows the sentinel: until
  the listener takes it, it has one place in the queue, and behind it are only
  records numbered above what `stop` had sealed.
- `SessionIsTold`: `StageSpec => []LatestIsTold /\ []OneEnding /\ QuietAfterStop`,
  for any number of writes that fail.
  `ThreadsInv` gives the lock to the thread that writes; `CountsInv` says that,
  while the lock is free and no write has failed, what was emitted is the last row
  and lags less than the throttle behind what was done; `EndsInv` follows the
  terminal row from its append on (`EndsAt`): before it no row is terminal, unless a
  write has failed, and behind it are beats without news.  `QuietAfterStop` needs only `ThreadsInv`: of a stopped session
  the pump can start a tick, and says nothing.
- `ClientAnswers`: `ClientSpec => [](OneStreamAnswers /\ WaitsOnce)`.  The reader and
  the thread that fills its queue agree (`StreamInv`): the lines in the text and
  in the queue are all that was read of the stream opened last, and
  an end is the queue's last line.
- `SetupIsSound`: `SetupSpec => []SetupSound`, for any modes
  and any changes of the lockfile.  `VerifiedInv` says that, unless a sync broke off
  or died since, the environment in place is that of the lockfile version that was
  verified, in the copy of the attempt or, between attempts, in `verified.json`.
  `WholeInv` adds, phase by phase, what is in place once the first n were ok;
  nothing of it goes before the attempt ends.  That the environment is the one of
  the lockfile without this exception is false ("Known to fail").

### Only model-checked
Of the properties of passing runs these have no theorem:

- `PlansHold`, `SourcesHold`, `ContractsHold` and `AnswersHold`: each has parts about what
  a `RECURSIVE` operator of `StageGraph`, `PlanIntegrity`, `SourceInventory`, `Evolution`
  or `Answers` returns, which the prover does not reach;
- `ChunksHold` and `RetrievalHolds`: what folds over sequences of characters and ranks
  return, for which there is induction over data only;
- `CallsEnd`, `SessionEnds` and the endings in `LogEnds`, `ClientSound` and
  `SessionTold`: liveness under fairness and `ENABLED` are out of
  the prover's reach.

Recursive functions over numbers, the order of finitely many rows and sums over finite
sets can be proved about, by the well-foundedness of `<` (`LeastNumber`,
`LastPosition`, `SubsetInduction`).

## Not modelled

The components with status `not_modelled` in `PROJECT.json` each carry the
reason there.  They are of three kinds:

- calls of external tools whose outcome is the tool's: the PostgreSQL image and
  its probes, disposable databases, contract linters and exporters, the reasoner,
  converters and OCR, host and Compose commands;
- rows, records, payloads, paths and text: dataclasses, JSON, parsers of servers'
  answers, redaction, metrics, the dbt project, command lines.  What they hold is
  a value of the models that use them;
- arithmetic without state in floating point: statistics over labelled data,
  rank correlation, distances, the bootstrap.

A component that is `partly` modelled says in its note what is left out.  Of what
this code meets and the models leave to assumption, these matter most: setups do
not overlap (`Setup`), times of path events are numbers where the code sorts text
that nothing validates (`query/evidence/overlay.py:25`, `Answers`), a select
and then insert of run and stage rows is not raced (`postgres.py:46`: it raises and
changes no shard), reconcile reads the index without a lock
(`reconcile/commands.py:54`), and workers, dbt and sessions of a model return.
