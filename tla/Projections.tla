----------------------------- MODULE Projections -----------------------------
(***************************************************************************)
(* Versioned search and graph projections in PostgreSQL.  Tools build,     *)
(* switch and clean up versions in transactions that share one advisory    *)
(* lock, and load-lexical replaces the canonical chunks and builds the     *)
(* lexical version of its run under a lock of its own.  The AGE graph of a *)
(* version is created and dropped by an autocommit session: a rollback     *)
(* does not undo it.                                                       *)
(*                                                                         *)
(* Every tool is taken to have a project root of its own, so that the file *)
(* lock on a version never helps.  The kind "lexical" stands for vector    *)
(* too; the rows of ctl.projection_cleanup and result.json are left out,   *)
(* nothing decides by them.                                                *)
(***************************************************************************)
EXTENDS Integers, FiniteSets

CONSTANTS
  Tools,          \* processes
  Versions,       \* run ids; a version is named by its run
  Ids,            \* logical ids: chunks, and the objects of the graph
  Snapshot(_),    \* the chunk snapshot that load-lexical of a run loads
  AgeEnabled,     \* the compatibility gate of the image
  Options,        \* the options builds are called with
  Nil,
  MaxStoreCommands, \* bounds: commands of all tools;
  MaxStoreFaults  \* steps that raise, and deaths of a process

ASSUME ProjectionsAssumption ==
  /\ \A v \in Versions : Snapshot(v) \subseteq Ids
  /\ AgeEnabled \in BOOLEAN
  /\ Options \subseteq [activate : BOOLEAN, dbt : BOOLEAN, aged : BOOLEAN, cleans : BOOLEAN]
  /\ Nil \notin Tools /\ Nil \notin Versions

Kinds == {"lexical", "graph"}

VARIABLES
  corpus,         \* canonical rows behind each kind
  derived,        \* dbt inputs of each kind and version
  catalog,        \* committed registry rows, active pointers and search tables
  age,            \* the AGE graph of each version
  txn,            \* the open transaction that has the catalog lock
  loading,        \* the tool that has the load lock
  published,      \* runs whose load summary is written
  place, task, spent

storeVars == <<corpus, derived, age, loading, published>>
projectionVars == <<storeVars, catalog, txn, place, task, spent>>

NoRow == [status |-> "none", checksum |-> Nil, aged |-> FALSE]
Row == [status : {"none", "validated", "active", "failed", "retired", "dropped"},
        checksum : (SUBSET Ids) \cup {Nil}, aged : BOOLEAN]
Target == Kinds \X Versions
Catalog == [row : [Target -> Row], active : [Kinds -> Versions \cup {Nil}],
            table : [Target -> (SUBSET Ids) \cup {Nil}]]
NoTxn == [by |-> Nil, view |-> Nil]

NoTask == [what |-> "none", version |-> Nil, kinds |-> {}, activate |-> FALSE, dbt |-> TRUE,
          aged |-> FALSE, cleans |-> FALSE, todo |-> {}, sound |-> TRUE, plan |-> {},
          activated |-> FALSE, ok |-> FALSE]

ProjectionsInit ==
  /\ corpus = [k \in Kinds |-> IF k = "graph" THEN Ids ELSE {}]
  /\ derived = [t \in Target |-> Nil]
  /\ catalog = [row |-> [t \in Target |-> NoRow], active |-> [k \in Kinds |-> Nil],
                table |-> [t \in Target |-> Nil]]
  /\ age = [v \in Versions |-> "absent"]
  /\ txn = NoTxn /\ loading = Nil /\ published = {}
  /\ place = [p \in Tools |-> "idle"]
  /\ task = [p \in Tools |-> NoTask]
  /\ spent = [commands |-> 0, faults |-> 0]

At(p, label) == place[p] = label
Go(p, label) == place' = [place EXCEPT ![p] = label]
Finish(p) == Go(p, "idle") /\ task' = [task EXCEPT ![p] = NoTask]
Mine(p) == txn.by = p

(***************************************************************************)
(* Commands                                                                *)
(***************************************************************************)
Start(p, label, j) ==
  /\ At(p, "idle") /\ spent.commands < MaxStoreCommands
  /\ spent' = [spent EXCEPT !.commands = @ + 1]
  /\ Go(p, label)
  /\ task' = [task EXCEPT ![p] = j]

\* A refusal, an exception or the death of the tool: the transaction is
\* rolled back and both locks are free, for they end with their sessions.
Leave(p) ==
  /\ Finish(p)
  /\ txn' = IF Mine(p) THEN NoTxn ELSE txn
  /\ loading' = IF loading = p THEN Nil ELSE loading
  /\ UNCHANGED <<corpus, derived, age, published, catalog>>

RefuseWhen(p, condition) == condition /\ Leave(p) /\ UNCHANGED spent

Fault(p) ==
  /\ ~At(p, "idle") /\ spent.faults < MaxStoreFaults
  /\ spent' = [spent EXCEPT !.faults = @ + 1]
  /\ Leave(p)

(***************************************************************************)
(* The build                                                               *)
(***************************************************************************)
\* refuse_active_version
Accepts(j) == \A k \in j.kinds : catalog.active[k] # j.version

Open(p) == txn = NoTxn /\ txn' = [by |-> p, view |-> catalog]
FirstStep(j) == IF j.dbt THEN "inputs" ELSE "kinds"

\* projections-build; a refusal changes nothing
StartBuild(p) ==
  \E v \in Versions, kinds \in (SUBSET Kinds) \ {{}}, o \in Options :
    LET j == [NoTask EXCEPT !.what = "build", !.version = v, !.kinds = kinds, !.todo = kinds,
                !.activate = o.activate, !.dbt = o.dbt, !.aged = o.aged, !.cleans = o.cleans]
    IN  /\ Start(p, FirstStep(j), j)
        /\ Accepts(j) /\ Open(p)
        /\ UNCHANGED <<storeVars, catalog>>

\* the build that load-lexical calls
Begin(p) ==
  /\ At(p, "begin")
  /\ \/ /\ Accepts(task[p]) /\ Open(p)
        /\ Go(p, FirstStep(task[p]))
        /\ UNCHANGED <<storeVars, catalog, task, spent>>
     \/ RefuseWhen(p, txn # NoTxn \/ ~Accepts(task[p]))

\* run_transform with tag:projections and full_refresh: every input of the
\* version, in a session of its own.
Inputs(p) ==
  /\ At(p, "inputs")
  /\ derived' = [t \in Target |-> IF t[2] = task[p].version THEN corpus[t[1]] ELSE derived[t]]
  /\ Go(p, "kinds")
  /\ UNCHANGED <<corpus, age, loading, published, catalog, txn, task, spent>>

\* upsert_staging, record_validation and mark_failed after the table is made
Staged(view, t, sound, aged) ==
  [view EXCEPT !.table[t] = derived[t],
               !.row[t] = [status |-> IF sound THEN "validated" ELSE "failed",
                           checksum |-> derived[t], aged |-> aged]]

Built(p, k, sound) ==
  /\ txn' = [txn EXCEPT !.view = Staged(@, <<k, task[p].version>>, sound, k = "graph" /\ task[p].aged)]
  /\ task' = [task EXCEPT ![p].todo = @ \ {k}, ![p].sound = @ /\ sound]

BuildKind(p) ==
  /\ At(p, "kinds")
  /\ \E k \in task[p].todo :
       \/ /\ derived[<<k, task[p].version>>] # Nil
          /\ k = "graph" => ~task[p].aged
          /\ \E sound \in BOOLEAN : Built(p, k, sound)
          /\ UNCHANGED <<storeVars, catalog, place, spent>>
       \/ /\ derived[<<k, task[p].version>>] # Nil
          /\ k = "graph" /\ task[p].aged
          /\ age' = [age EXCEPT ![task[p].version] = "partial"]
          /\ Go(p, "age")
          /\ UNCHANGED <<corpus, derived, loading, published, catalog, txn, task, spent>>
       \/ RefuseWhen(p, derived[<<k, task[p].version>>] = Nil)

\* the rest of load_age_graph, and the parity of sampled paths
LoadAge(p) ==
  /\ At(p, "age")
  /\ age' = [age EXCEPT ![task[p].version] = "whole"]
  /\ \E sound \in BOOLEAN : Built(p, "graph", sound)
  /\ Go(p, "kinds")
  /\ UNCHANGED <<corpus, derived, loading, published, catalog, spent>>

SwitchOne(view, k, v) ==
  LET old == view.active[k]
      rows == IF old \in {Nil, v} THEN view.row ELSE [view.row EXCEPT ![<<k, old>>].status = "retired"]
  IN  [view EXCEPT !.active[k] = v, !.row = [rows EXCEPT ![<<k, v>>].status = "active"]]

\* switch_active for every kind of the build
Switched(view, kinds, v) ==
  LET one == IF "lexical" \in kinds THEN SwitchOne(view, "lexical", v) ELSE view
  IN  IF "graph" \in kinds THEN SwitchOne(one, "graph", v) ELSE one

CandidatesBuilt(view, kinds) ==
  {t \in Target : t[1] \in kinds /\ view.table[t] # Nil}

\* cleanup_candidates
Candidates(view, kinds) ==
  {t \in Target : /\ t[1] \in kinds /\ view.row[t].status \in {"failed", "retired"}
                  /\ view.active[t[1]] # t[2]}

PublishableSome(p) == {k \in task[p].kinds : txn.view.row[<<k, task[p].version>>].status = "validated"}
PublishableAll(p) == IF task[p].sound THEN task[p].kinds ELSE {}

\* What the build switches: all its kinds, when every one is publishable.
Publishable(p) == PublishableAll(p)

Activate(p) ==
  /\ At(p, "kinds") /\ task[p].todo = {}
  /\ LET kinds == IF task[p].activate THEN Publishable(p) ELSE {}
         view == Switched(txn.view, kinds, task[p].version)
     IN  /\ txn' = [txn EXCEPT !.view = view]
         /\ task' = [task EXCEPT ![p].activated = kinds # {},
                               ![p].plan = IF task[p].cleans THEN Candidates(view, Kinds) ELSE {}]
  /\ Go(p, "drop")
  /\ UNCHANGED <<storeVars, catalog, spent>>

\* projections-cleanup --apply
StartCleanup(p) ==
  \E kinds \in (SUBSET Kinds) \ {{}} :
    /\ Start(p, "drop", [NoTask EXCEPT !.what = "cleanup", !.kinds = kinds, !.aged = AgeEnabled,
                                     !.plan = Candidates(catalog, kinds)])
    /\ Open(p)
    /\ UNCHANGED <<storeVars, catalog>>

\* one candidate of apply_cleanup
Drop(p) ==
  /\ At(p, "drop")
  /\ \E t \in task[p].plan :
       /\ txn' = [txn EXCEPT !.view.table[t] = Nil, !.view.row[t].status = "dropped"]
       /\ age' = IF t[1] = "graph" /\ task[p].aged THEN [age EXCEPT ![t[2]] = "absent"] ELSE age
       /\ task' = [task EXCEPT ![p].plan = @ \ {t}]
  /\ UNCHANGED <<corpus, derived, loading, published, catalog, place, spent>>

CommitBuild(p) ==
  /\ At(p, "drop") /\ task[p].plan = {}
  /\ catalog' = txn.view /\ txn' = NoTxn
  /\ \/ /\ task[p].what = "load" /\ task[p].activated
        /\ Go(p, "verify")
        /\ UNCHANGED <<loading, task>>
     \/ /\ ~(task[p].what = "load" /\ task[p].activated)
        /\ Finish(p)
        /\ loading' = IF loading = p THEN Nil ELSE loading
  /\ UNCHANGED <<corpus, derived, age, published, spent>>

(***************************************************************************)
(* load-lexical                                                            *)
(***************************************************************************)
LoadFreeAlways == TRUE

\* pg_try_advisory_lock
LoadFree == loading = Nil

\* the stage load-lexical of run v: its projection has the version v
StartLoad(p) ==
  \E v \in Versions :
    /\ Start(p, "store", [NoTask EXCEPT !.what = "load", !.version = v, !.kinds = {"lexical"},
                             !.todo = {"lexical"}, !.activate = TRUE, !.aged = AgeEnabled])
    /\ LoadFree /\ loading' = p
    /\ UNCHANGED <<corpus, derived, age, published, catalog, txn>>

\* upsert and retract, one transaction: the chunks are the snapshot now
Store(p) ==
  /\ At(p, "store")
  /\ corpus' = [corpus EXCEPT !.lexical = Snapshot(task[p].version)]
  /\ Go(p, "begin")
  /\ UNCHANGED <<derived, age, loading, published, catalog, txn, task, spent>>

Reconciles(p) ==
  LET table == catalog.table[<<"lexical", task[p].version>>]
  IN  table = corpus.lexical /\ table = Snapshot(task[p].version)

Verify(p) ==
  /\ At(p, "verify")
  /\ \/ /\ catalog.table[<<"lexical", task[p].version>>] # Nil
        /\ task' = [task EXCEPT ![p].ok = Reconciles(p)]
        /\ Go(p, "target")
        /\ UNCHANGED <<storeVars, catalog, txn, spent>>
     \/ RefuseWhen(p, catalog.table[<<"lexical", task[p].version>>] = Nil)

\* active_target for the index size, then the load lock is released
ReadTarget(p) ==
  /\ At(p, "target")
  /\ LET v == catalog.active.lexical
         usable == v # Nil /\ catalog.row[<<"lexical", v>>].status = "active"
     IN  \/ /\ usable /\ task[p].ok
            /\ loading' = IF loading = p THEN Nil ELSE loading
            /\ Go(p, "summary")
            /\ UNCHANGED <<corpus, derived, age, published, catalog, txn, task, spent>>
         \/ RefuseWhen(p, ~usable \/ ~task[p].ok)

Summarize(p) ==
  /\ At(p, "summary")
  /\ published' = published \cup {task[p].version}
  /\ Finish(p)
  /\ UNCHANGED <<corpus, derived, age, loading, catalog, txn, spent>>

Step(p) ==
  \/ StartBuild(p) \/ StartCleanup(p) \/ StartLoad(p) \/ Fault(p)
  \/ Begin(p) \/ Inputs(p) \/ BuildKind(p) \/ LoadAge(p) \/ Activate(p)
  \/ Drop(p) \/ CommitBuild(p)
  \/ Store(p) \/ Verify(p) \/ ReadTarget(p) \/ Summarize(p)

ProjectionsNext == \E p \in Tools : Step(p)
ProjectionsSpec == ProjectionsInit /\ [][ProjectionsNext]_projectionVars

(***************************************************************************)
(* Properties                                                              *)
(***************************************************************************)
CatalogTypeOK ==
  /\ corpus \in [Kinds -> SUBSET Ids]
  /\ derived \in [Target -> (SUBSET Ids) \cup {Nil}]
  /\ catalog \in Catalog
  /\ age \in [Versions -> {"absent", "partial", "whole"}]
  /\ txn = NoTxn \/ (txn.by \in Tools /\ txn.view \in Catalog)
  /\ loading \in Tools \cup {Nil}
  /\ published \subseteq Versions

\* What a pointer names is there and whole: its table holds the rows it was
\* validated with, and its AGE graph, which no rollback protects, is neither
\* dropped nor half built by another tool.
ActiveIsWhole ==
  \A k \in Kinds :
    LET v == catalog.active[k] IN
    v # Nil =>
      /\ catalog.table[<<k, v>>] # Nil
      /\ catalog.table[<<k, v>>] = catalog.row[<<k, v>>].checksum
      /\ catalog.row[<<k, v>>].aged => age[v] = "whole"

\* The two places that say which version is active agree: a registry row is
\* active exactly when the pointer of its kind names it.
PointersMatchRows ==
  \A t \in Target : catalog.row[t].status = "active" <=> catalog.active[t[1]] = t[2]

\* The pointers of one build switch together or not at all.
SwitchesTogether ==
  [][\A p \in Tools :
       catalog'.active # catalog.active /\ Mine(p) =>
         \A k \in task[p].kinds : catalog'.active[k] = task[p].version]_projectionVars

\* Between its commit and its verification no other load replaces the rows
\* of a run: what it verifies is its snapshot, or was cleaned up.
LoadReconciles ==
  \A p \in Tools : At(p, "verify") =>
    /\ corpus.lexical = Snapshot(task[p].version)
    /\ catalog.table[<<"lexical", task[p].version>>] \in {Nil, Snapshot(task[p].version)}

\* A load that was interrupted can be run again for its run: run resume
\* repeats the stage with the same run id, hence the same version.
InterruptedLoadsResume ==
  \A p \in Tools :
    At(p, "begin") /\ task[p].what = "load" /\ task[p].version \notin published =>
      catalog.active.lexical # task[p].version

\* After any build, switch, clean-up, rollback or death the catalog names as
\* active what is there and whole, in both of its places.
CatalogSound ==
  /\ CatalogTypeOK
  /\ ActiveIsWhole
  /\ PointersMatchRows
=============================================================================
