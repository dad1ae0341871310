---------------------------- MODULE ActivePointer ----------------------------
(***************************************************************************)
(* From the files of a worker to active-generation.json.  Commands over    *)
(* one runs directory are serialized by pipeline_lock: a walk produces or  *)
(* reuses an attempt for every stage of a run and saves the status and     *)
(* the reuse index; a finalization checks what the status names,           *)
(* assembles the knowledge base and, when it is complete, writes its       *)
(* manifest, its catalog and the pointer, each as a temporary file that is *)
(* renamed.  A command may die between any two writes.  Readers follow the *)
(* pointer without the lock.                                               *)
(***************************************************************************)
EXTENDS ArtifactPublish

CONSTANTS
  RunId,         \* run ids; a generation is named by its run
  StageCount,    \* how many stages the profile requires
  Unwritten,
  MaxCalls,      \* bounds: walks, finalizations and invalidations;
  MaxFailures,     \* failed steps, interrupts and deaths of a process;
  MaxDamage      \* attempts that are damaged on disk

StageNumbers == 1..StageCount

VARIABLES
  stageOf,       \* the stage an attempt was reserved for
  outcome,       \* the outcome in its stage.json
  damaged,       \* attempts whose files no longer match
  index,         \* reuse-index.json: the attempts that are indexed and not stale
  status,        \* status.json of each run
  knowledge,     \* knowledge-base.json of each run
  snapshots,     \* publications/<fingerprint>/knowledge-base.json
  catalogs,      \* publications/<fingerprint>/active-catalog.json
  pointer,       \* active-generation.json
  temps,         \* temporary files of the last three
  progress, command,       \* the command that holds the lock, and its variables
  reader,        \* somebody who follows the pointer
  spent          \* what is used up of the bounds

pointerVars == <<snapshots, catalogs, pointer, temps, knowledge>>
walkVars == <<stageOf, outcome, index, status>>
publicationVars == <<artifactVars, walkVars, pointerVars, damaged, progress, command, reader, spent>>

NoRow == [attempt |-> Unwritten, outcome |-> "none"]
StageRow == [attempt : Attempts \cup {Unwritten}, outcome : {"none", "failed", "partial", "produced"}]
Halts == {"no", "failed", "interrupted"}
WalkStatus == [rows : [StageNumbers -> StageRow], halted : Halts]
Logicals == {"succeeded", "partial", "failed", "interrupted"}
KnowledgeBase == [run : RunId, rows : [StageNumbers -> StageRow], status : Logicals]
Catalog == [run : RunId, status : Logicals]
Pointer == [run : RunId, path : RunId \X KnowledgeBase]

\* Nothing is none of the values a file holds.
ASSUME PointerAssumption ==
  /\ StageCount \in Nat \ {0}
  /\ Attempts \subseteq Nat
  /\ Unwritten \notin RunId \cup Attempts \cup StageNumbers
  /\ Unwritten \notin WalkStatus \cup KnowledgeBase \cup Catalog \cup Pointer

\* The path of a snapshot ends with the fingerprint of the document, which
\* leaves out only whether it is active.
SnapshotPath(d) == <<d.run, d>>

ReadAt(entries, path) ==
  IF \E e \in entries : e.path = path
  THEN (CHOOSE e \in entries : e.path = path).doc
  ELSE Unwritten

Put(entries, path, doc) ==
  {e \in entries : e.path # path} \cup {[path |-> path, doc |-> doc]}

NoCommand == [run |-> Unwritten, force |-> FALSE, next |-> 1, rows |-> [s \in StageNumbers |-> NoRow],
          current |-> Unwritten, fresh |-> {}, halted |-> "no", doc |-> Unwritten]

NoReader == [at |-> "idle", pointer |-> Unwritten, began |-> Unwritten, catalog |-> Unwritten, manifest |-> Unwritten]

PointerInit ==
  /\ ArtifactInit
  /\ stageOf = [a \in Attempts |-> Unwritten]
  /\ outcome = [a \in Attempts |-> "none"]
  /\ damaged = {} /\ index = {}
  /\ status = [r \in RunId |-> Unwritten]
  /\ knowledge = [r \in RunId |-> Unwritten]
  /\ snapshots = {} /\ catalogs = {} /\ pointer = Unwritten /\ temps = {}
  /\ progress = "idle" /\ command = NoCommand
  /\ reader = NoReader
  /\ spent = [commands |-> 0, faults |-> 0, damage |-> 0]

Spend(what, limit) ==
  spent[what] < limit /\ spent' = [spent EXCEPT ![what] = @ + 1]

\* try_reuse, for an entry of the index.
Servable(a) == Validates(a) /\ a \notin damaged /\ outcome[a] = "produced"

-----------------------------------------------------------------------------
(* A walk: the worker of each stage, the status, the reuse index. *)

StartWalk(r, force) ==
  /\ progress = "idle" /\ Spend("commands", MaxCalls)
  /\ progress' = "walk"
  /\ command' = [NoCommand EXCEPT !.run = r, !.force = force,
               !.rows = IF status[r] = Unwritten THEN @ ELSE status[r].rows]
  /\ UNCHANGED <<artifactVars, walkVars, pointerVars, damaged, reader>>

Between == progress = "walk" /\ command.current = Unwritten /\ command.halted = "no"

Indexed(s) == {a \in index : stageOf[a] = s}

Hit ==
  /\ Between /\ command.next \in StageNumbers /\ ~ command.force
  /\ \E a \in Indexed(command.next) :
       /\ Servable(a)
       /\ command' = [command EXCEPT !.next = @ + 1,
                    !.rows[command.next] = [attempt |-> a, outcome |-> outcome[a]]]
  /\ UNCHANGED <<artifactVars, walkVars, pointerVars, damaged, progress, reader, spent>>

\* A new attempt, and what its worker will call its outcome.
ReserveAttempt ==
  /\ Between /\ command.next \in StageNumbers
  /\ command.force \/ \A a \in Indexed(command.next) : ~ Servable(a)
  /\ \E a \in Attempts, o \in {"produced", "partial"} :
       /\ work[a] = "unused"
       /\ \A b \in Attempts : b < a => work[b] # "unused"
       /\ OpenScratch(a)
       /\ stageOf' = [stageOf EXCEPT ![a] = command.next]
       /\ outcome' = [outcome EXCEPT ![a] = o]
       /\ command' = [command EXCEPT !.current = a]
  /\ UNCHANGED <<index, status, pointerVars, damaged, progress, reader, spent>>

WorkAttempt ==
  /\ progress = "walk" /\ command.current # Unwritten
  /\ WorkStep(command.current)
  /\ UNCHANGED <<walkVars, pointerVars, damaged, progress, command, reader, spent>>

WorkError ==
  /\ progress = "walk" /\ command.current # Unwritten
  /\ WorkFails(command.current) /\ Spend("faults", MaxFailures)
  /\ UNCHANGED <<walkVars, pointerVars, damaged, progress, command, reader>>

\* produce_shard checks what it published before it accepts it.
AcceptedAttempt(a) == work[a] = "published" /\ Validates(a) /\ a \notin damaged

Settle ==
  /\ progress = "walk" /\ command.current # Unwritten
  /\ LET a == command.current
         accepted == AcceptedAttempt(a)
     IN /\ work[a] \in {"published", "failed"}
        /\ command' = [command EXCEPT
             !.rows[command.next] = [attempt |-> a, outcome |-> IF accepted THEN outcome[a] ELSE "failed"],
             !.fresh = IF accepted THEN @ \cup {a} ELSE @,
             !.halted = IF accepted THEN @ ELSE "failed",
             !.next = @ + 1, !.current = Unwritten]
  /\ UNCHANGED <<artifactVars, walkVars, pointerVars, damaged, progress, reader, spent>>

\* The operator interrupts: the walk stops before the next stage.
InterruptWalk ==
  /\ Between /\ command.next \in StageNumbers
  /\ Spend("faults", MaxFailures)
  /\ command' = [command EXCEPT !.halted = "interrupted"]
  /\ UNCHANGED <<artifactVars, walkVars, pointerVars, damaged, progress, reader>>

SaveStatus ==
  /\ progress = "walk" /\ command.current = Unwritten
  /\ command.halted # "no" \/ command.next \notin StageNumbers
  /\ status' = [status EXCEPT ![command.run] = [rows |-> command.rows, halted |-> command.halted]]
  /\ progress' = "index"
  /\ UNCHANGED <<artifactVars, stageOf, outcome, index, pointerVars, damaged, command, reader, spent>>

\* An attempt replaces the indexed one of its stage.
SaveIndex ==
  /\ progress = "index"
  /\ index' = {a \in index : \A b \in command.fresh : stageOf[b] # stageOf[a]} \cup command.fresh
  /\ progress' = "idle" /\ command' = NoCommand
  /\ UNCHANGED <<artifactVars, stageOf, outcome, status, pointerVars, damaged, reader, spent>>

InvalidateAttempt(a) ==
  /\ progress = "idle" /\ a \in index
  /\ Spend("commands", MaxCalls)
  /\ index' = index \ {a}
  /\ UNCHANGED <<artifactVars, stageOf, outcome, status, pointerVars, damaged, progress, command, reader>>

-----------------------------------------------------------------------------
(* A finalization. *)

RowEvidencedOnDisk(row) == row.outcome = "produced" => Servable(row.attempt)

\* verified_status: what the rows name is still indexed and still validates.
RowEvidenced(row) ==
  row.outcome = "produced" => row.attempt \in index /\ Servable(row.attempt)

Verified(st) ==
  IF \A s \in StageNumbers : RowEvidenced(st.rows[s]) THEN st ELSE [st EXCEPT !.halted = "failed"]

Some(st, o) == \E s \in StageNumbers : st.rows[s].outcome = o

LogicalPartial(st) ==
  IF st.halted = "interrupted" THEN "interrupted"
  ELSE IF st.halted = "failed" \/ Some(st, "failed") THEN "failed"
  ELSE IF Some(st, "none") THEN "partial" ELSE "succeeded"

Logical(st) ==
  IF st.halted = "interrupted" THEN "interrupted"
  ELSE IF Some(st, "failed") THEN "failed"
  ELSE IF Some(st, "partial") THEN "partial"
  ELSE IF Some(st, "none") THEN IF st.halted = "no" THEN "partial" ELSE "failed"
  ELSE IF st.halted = "no" THEN "succeeded" ELSE "failed"

\* Leftover temporaries go first.
AssembleRun(r) ==
  /\ progress = "idle" /\ status[r] # Unwritten
  /\ Spend("commands", MaxCalls)
  /\ temps' = {}
  /\ LET st == Verified(status[r])
     IN command' = [NoCommand EXCEPT !.run = r,
                  !.doc = [run |-> r, rows |-> st.rows, status |-> Logical(st)]]
  /\ progress' = "knowledge"
  /\ UNCHANGED <<artifactVars, walkVars, snapshots, catalogs, pointer, knowledge, damaged, reader>>

\* The run's own document, not yet active.
SaveKnowledge ==
  /\ progress = "knowledge"
  /\ knowledge' = [knowledge EXCEPT ![command.run] = [doc |-> command.doc, active |-> FALSE]]
  /\ progress' = IF command.doc.status = "succeeded" THEN "manifest" ELSE "returned"
  /\ UNCHANGED <<artifactVars, walkVars, snapshots, catalogs, pointer, temps, damaged, command, reader, spent>>

WriteTemp(at, name, then) ==
  /\ progress = at /\ progress' = then
  /\ temps' = temps \cup {name}
  /\ UNCHANGED <<artifactVars, walkVars, snapshots, catalogs, pointer, knowledge, damaged, command, reader, spent>>

WriteManifestTemp == WriteTemp("manifest", <<"manifest", command.doc>>, "replaceManifest")
WriteCatalogTemp == WriteTemp("catalog", <<"catalog", command.doc>>, "replaceCatalog")
WritePointerTemp == WriteTemp("pointer", <<"pointer">>, "replacePointer")

ReplaceManifestLate ==
  /\ progress = "replaceManifest" /\ progress' = "pointer"
  /\ snapshots' = Put(snapshots, SnapshotPath(command.doc), command.doc)
  /\ temps' = temps \ {<<"manifest", command.doc>>}
  /\ UNCHANGED <<artifactVars, walkVars, catalogs, pointer, knowledge, damaged, command, reader, spent>>

ReplaceManifest ==
  /\ progress = "replaceManifest" /\ progress' = "catalog"
  /\ snapshots' = Put(snapshots, SnapshotPath(command.doc), command.doc)
  /\ temps' = temps \ {<<"manifest", command.doc>>}
  /\ UNCHANGED <<artifactVars, walkVars, catalogs, pointer, knowledge, damaged, command, reader, spent>>

\* The catalog names the run and its status.
ReplaceCatalog ==
  /\ progress = "replaceCatalog" /\ progress' = "pointer"
  /\ catalogs' = Put(catalogs, SnapshotPath(command.doc), [run |-> command.run, status |-> command.doc.status])
  /\ temps' = temps \ {<<"catalog", command.doc>>}
  /\ UNCHANGED <<artifactVars, walkVars, snapshots, pointer, knowledge, damaged, command, reader, spent>>

ReplacePointer ==
  /\ progress = "replacePointer" /\ progress' = "seal"
  /\ pointer' = [run |-> command.run, path |-> SnapshotPath(command.doc)]
  /\ temps' = temps \ {<<"pointer">>}
  /\ UNCHANGED <<artifactVars, walkVars, snapshots, catalogs, knowledge, damaged, command, reader, spent>>

SealKnowledge ==
  /\ progress = "seal" /\ progress' = "returned"
  /\ knowledge' = [knowledge EXCEPT ![command.run] = [doc |-> command.doc, active |-> TRUE]]
  /\ UNCHANGED <<artifactVars, walkVars, snapshots, catalogs, pointer, temps, damaged, command, reader, spent>>

EndFinalization ==
  /\ progress = "returned"
  /\ progress' = "idle" /\ command' = NoCommand
  /\ UNCHANGED <<artifactVars, walkVars, pointerVars, damaged, reader, spent>>

-----------------------------------------------------------------------------
(* The environment. *)

\* The command dies; the kernel releases the lock.
CommandDies ==
  /\ progress # "idle" /\ Spend("faults", MaxFailures)
  /\ progress' = "idle" /\ command' = NoCommand
  /\ IF progress = "walk" /\ command.current # Unwritten
     THEN WorkDies(command.current) ELSE UNCHANGED artifactVars
  /\ UNCHANGED <<walkVars, pointerVars, damaged, reader>>

\* Somebody removes or changes a file of a published attempt.
DamageFiles(a) ==
  /\ work[a] = "published" /\ a \notin damaged
  /\ Spend("damage", MaxDamage)
  /\ damaged' = damaged \cup {a}
  /\ UNCHANGED <<artifactVars, walkVars, pointerVars, progress, command, reader>>

\* What the pointer leads to.
VisibleGeneration == IF pointer = Unwritten THEN Unwritten ELSE ReadAt(snapshots, pointer.path)

ReadPointer ==
  /\ reader.at \in {"idle", "done"} /\ pointer # Unwritten
  /\ reader' = [NoReader EXCEPT !.at = "catalog", !.pointer = pointer, !.began = VisibleGeneration]
  /\ UNCHANGED <<artifactVars, walkVars, pointerVars, damaged, progress, command, spent>>

ReadCatalog ==
  /\ reader.at = "catalog"
  /\ reader' = [reader EXCEPT !.at = "manifest", !.catalog = ReadAt(catalogs, reader.pointer.path)]
  /\ UNCHANGED <<artifactVars, walkVars, pointerVars, damaged, progress, command, spent>>

ReadManifest ==
  /\ reader.at = "manifest"
  /\ reader' = [reader EXCEPT !.at = "done", !.manifest = ReadAt(snapshots, reader.pointer.path)]
  /\ UNCHANGED <<artifactVars, walkVars, pointerVars, damaged, progress, command, spent>>

-----------------------------------------------------------------------------
Walking ==
  \/ \E r \in RunId, force \in BOOLEAN : StartWalk(r, force)
  \/ Hit \/ ReserveAttempt \/ WorkAttempt \/ WorkError \/ Settle \/ InterruptWalk \/ SaveStatus \/ SaveIndex
  \/ \E a \in Attempts : InvalidateAttempt(a)

Finalizing ==
  \/ \E r \in RunId : AssembleRun(r)
  \/ SaveKnowledge \/ WriteManifestTemp \/ ReplaceManifest \/ WriteCatalogTemp \/ ReplaceCatalog
  \/ WritePointerTemp \/ ReplacePointer \/ SealKnowledge \/ EndFinalization

Reading == ReadPointer \/ ReadCatalog \/ ReadManifest

PointerNext == Walking \/ Finalizing \/ Reading \/ CommandDies \/ \E a \in Attempts : DamageFiles(a)

PointerSpec == PointerInit /\ [][PointerNext]_publicationVars

-----------------------------------------------------------------------------
(* The pointer, the snapshots and the locals of a command have their forms. *)
PointerTypeOK ==
  /\ ArtifactTypeOK
  /\ stageOf \in [Attempts -> StageNumbers \cup {Unwritten}]
  /\ outcome \in [Attempts -> {"none", "produced", "partial"}]
  /\ damaged \in SUBSET Attempts /\ index \in SUBSET Attempts
  /\ \A r \in RunId : status[r] = Unwritten \/ status[r] \in WalkStatus
  /\ \A e \in snapshots : e.doc \in KnowledgeBase
  /\ progress \in {"idle", "walk", "index", "knowledge", "manifest", "replaceManifest", "catalog",
             "replaceCatalog", "pointer", "replacePointer", "seal", "returned"}
  /\ command.run \in RunId \cup {Unwritten} /\ command.current \in Attempts \cup {Unwritten}
  /\ command.rows \in [StageNumbers -> StageRow] /\ command.fresh \in SUBSET Attempts /\ command.halted \in Halts

\* A snapshot that has its manifest has all its roots, and an attempt that has
\* its manifest has all its files and refers to such a snapshot: whatever step
\* failed and wherever the process died (SnapshotPublisher.finish,
\* publish_attempt).
ManifestsAreLast ==
  /\ \A a \in sealed : moved[a] = RootKinds
  /\ \A a \in Attempts : Manifest \in file[a] => Names \subseteq file[a] /\ a \in sealed

\* An attempt whose snapshot failed has left nothing of it in the results
\* directory (abort_publication).
AbortLeavesNothing ==
  \A a \in Attempts :
    work[a] = "failed" /\ a \notin sealed => moved[a] = {} /\ scratch[a] = "none"

\* The active pointer names a manifest and a catalog that exist and that are
\* those of one succeeded generation (activate_generation).
PointerComplete ==
  pointer # Unwritten =>
    LET manifest == ReadAt(snapshots, pointer.path)
        catalog == ReadAt(catalogs, pointer.path)
    IN /\ manifest # Unwritten /\ catalog # Unwritten
       /\ manifest.run = pointer.run /\ catalog.run = pointer.run
       /\ manifest.status = "succeeded" /\ catalog.status = "succeeded"

\* Who follows the pointer to the catalog and the manifest, without the lock
\* and while generations are activated, sees both of the generation the pointer
\* named when it was read.
ReaderSeesOneSnapshot ==
  reader.at = "done" =>
    /\ reader.catalog # Unwritten /\ reader.manifest # Unwritten
    /\ reader.manifest = reader.began
    /\ reader.catalog.run = reader.manifest.run

\* The pointer moves only to a generation each of whose results names an
\* attempt that was published and is still in the reuse index: neither a crash
\* between the two files of a walk nor an invalidation is forgotten on the way
\* (verified_status, and the lock over the whole of finalize_status).
ActivatesEvidence ==
  [][pointer' # pointer =>
       \A s \in StageNumbers :
         LET row == ReadAt(snapshots, pointer'.path).rows[s]
         IN row.outcome = "produced" => row.attempt \in index /\ Validates(row.attempt)]_publicationVars

\* A finalization that returned has left no temporary file of an activation, of
\* its own or of one that died, and the run's document says active just when
\* the pointer names it (reconcile_orphans, activate_generation).
ReturnsClean ==
  progress = "returned" =>
    /\ temps = {}
    /\ knowledge[command.run].doc = command.doc
    /\ knowledge[command.run].active <=> (VisibleGeneration = command.doc)

\* For its readers activation is one step from one complete generation to the
\* next (AtomicActivation), although it is six writes.
CompleteDocument ==
  [run : RunId, rows : [StageNumbers -> [attempt : Attempts, outcome : {"produced"}]],
   status : {"succeeded"}]

Activation == INSTANCE AtomicActivation WITH visible <- VisibleGeneration, Complete <- CompleteDocument, None <- Unwritten
ActivatesAtOnce == Activation!Spec

\* What looks published is whole, and what failed has gone, after any failure
\* or death between two steps.
FilesAppearWhole ==
  /\ PointerTypeOK
  /\ ManifestsAreLast
  /\ AbortLeavesNothing

\* The pointer, those who follow it without the lock, and whoever has moved it
\* or died meanwhile agree on one complete generation.
PointerSound ==
  /\ PointerComplete
  /\ ReaderSeesOneSnapshot
  /\ ReturnsClean
=============================================================================
