-------------------------- MODULE EvidenceBundles --------------------------
(***************************************************************************)
(* Evaluation bundles (evaluation/bundles) and the evaluations that write  *)
(* them: the stages of the lexical second opinion and the calibration.  A  *)
(* bundle is staged beside its place, verified and moved onto a directory  *)
(* claimed for it; the final stage asks for the preregistration of its     *)
(* run.  Several evaluations of one run overlap, the project is edited     *)
(* between any two of their steps, and each of them may fail or die.       *)
(***************************************************************************)
EXTENDS Calls, Integers, FiniteSets, SequencesExt

CONSTANTS
  Evaluation,      \* processes that evaluate
  MaxInputEdits,   \* bound: edits of the frozen inputs and the code
  MaxDeaths        \* bound: evaluations that die

Stage == {"development", "preregister", "final", "calibration"}
NoBundle == [what |-> "absent"]
Claimed == [what |-> "claimed"]
Resting == [at |-> "idle"]

VARIABLES
  project,         \* versions of protocol.json with arms.json, of the splits it
                   \* names, and of code and review.json
  bundles,         \* stage -> nothing, the claim of a name, or the bundle
  evaluation,      \* evaluation -> where it is, and what it has read
  evaluated        \* edits and deaths so far

evaluations == <<project, bundles, evaluation, evaluated>>

BundleInit ==
  /\ project = [protocol |-> 1, splits |-> 1, code |-> 1]
  /\ bundles = [s \in Stage |-> NoBundle]
  /\ evaluation = [e \in Evaluation |-> Resting]
  /\ evaluated = [edits |-> 0, deaths |-> 0]

BundleStep(e, at) == call.op = "bundle" /\ evaluation[e].at = at /\ UNCHANGED call
GoTo(e, record) == evaluation' = [evaluation EXCEPT ![e] = record]
\* What input_fingerprints hashes for one split: the protocol and the split as
\* they were loaded, the code and the review as they are now.
InputFingerprints(e) == [protocol |-> evaluation[e].protocol, code |-> project.code]

\* A new protocol comes with its splits; a split alone no longer fits.
EditProject ==
  /\ call.op \in {"none", "bundle"} /\ call' = [op |-> "bundle"]
  /\ evaluated.edits < MaxInputEdits
  /\ evaluated' = [evaluated EXCEPT !.edits = @ + 1]
  /\ \E parts \in {{"protocol", "splits"}, {"splits"}, {"code"}} :
       project' = [p \in DOMAIN project |-> IF p \in parts THEN project[p] + 1 ELSE project[p]]
  /\ UNCHANGED <<bundles, evaluation>>

\* load_protocol; and verified_payload of each split: the protocol of version
\* n names the splits of version n, others are refused.
LoadedProtocol == project.protocol
SplitsAreFrozen == project.splits = LoadedProtocol

\* run_stage up to the check of the preregistration; run_calibration, which
\* loads a configuration of its own.
StartEvaluation(e, stage, at, protocol) ==
  /\ call.op \in {"none", "bundle"} /\ call' = [op |-> "bundle"]
  /\ evaluation[e] = Resting
  /\ GoTo(e, [at |-> at, stage |-> stage, protocol |-> protocol, cites |-> NoBundle])
  /\ UNCHANGED <<project, bundles, evaluated>>
RunStage(e) ==
  /\ SplitsAreFrozen
  /\ \E stage \in Stage \ {"calibration"} :
       StartEvaluation(e, stage, CASE stage = "preregister" -> "write" [] stage = "final" -> "verify"
                         [] OTHER -> "look", LoadedProtocol)
RunCalibration(e) == StartEvaluation(e, "calibration", "execute", 0)

\* verify_preregistration: the bundle is whole and names today's inputs.  A
\* claim without a bundle fails verify_run_bundle.
IsWhole(stage) == bundles[stage].what = "bundle"
PlanFor(e) ==
  /\ IsWhole("preregister")
  /\ bundles["preregister"].inputs = InputFingerprints(e)
VerifyPreregistration(e) ==
  /\ BundleStep(e, "verify")
  /\ IF PlanFor(e)
     THEN GoTo(e, [evaluation[e] EXCEPT !.at = "look", !.cites = bundles["preregister"]])
     ELSE GoTo(e, Resting)
  /\ UNCHANGED <<project, bundles, evaluated>>
LookForBundle(e) ==
  /\ BundleStep(e, "look")
  /\ GoTo(e, IF bundles[evaluation[e].stage] = NoBundle THEN [evaluation[e] EXCEPT !.at = "execute"]
             ELSE Resting)
  /\ UNCHANGED <<project, bundles, evaluated>>
\* The searches run inside a transaction that is rolled back in any case.
ExecuteQueries(e) ==
  /\ BundleStep(e, "execute")
  /\ GoTo(e, [evaluation[e] EXCEPT !.at = "write"]) \/ GoTo(e, Resting)
  /\ UNCHANGED <<project, bundles, evaluated>>

\* The manifest that build_manifest writes.
Staged(e) == [what |-> "bundle", inputs |-> InputFingerprints(e), cites |-> evaluation[e].cites]
\* publish_run_bundle: refuse a place that is taken, else write and verify the
\* staging directory.
WriteStaging(e) ==
  /\ BundleStep(e, "write")
  /\ GoTo(e, IF bundles[evaluation[e].stage] = NoBundle
             THEN [at |-> "claim", stage |-> evaluation[e].stage, protocol |-> evaluation[e].protocol,
                   cites |-> evaluation[e].cites, staging |-> Staged(e)]
             ELSE Resting)
  /\ UNCHANGED <<project, bundles, evaluated>>

\* exclusive_publish: mkdir claims the name, os.replace moves the staging
\* directory onto it; a claim whose move fails is given back.
ClaimName(e) ==
  /\ BundleStep(e, "claim")
  /\ IF bundles[evaluation[e].stage] = NoBundle
     THEN /\ bundles' = [bundles EXCEPT ![evaluation[e].stage] = Claimed]
          /\ GoTo(e, [evaluation[e] EXCEPT !.at = "replace"])
     ELSE bundles' = bundles /\ GoTo(e, [evaluation[e] EXCEPT !.at = "clean"])
  /\ UNCHANGED <<project, evaluated>>
ReleaseClaim(e) == bundles' = [bundles EXCEPT ![evaluation[e].stage] = NoBundle]
ReplaceClaim(e) ==
  /\ BundleStep(e, "replace")
  /\ \/ /\ bundles' = [bundles EXCEPT ![evaluation[e].stage] = evaluation[e].staging]
        /\ GoTo(e, Resting)
     \/ ReleaseClaim(e) /\ GoTo(e, [evaluation[e] EXCEPT !.at = "clean"])
  /\ UNCHANGED <<project, evaluated>>
\* Whatever fails, the staging directory is removed.
RemovePlace(e) == bundles' = [bundles EXCEPT ![evaluation[e].stage] = NoBundle]
RemoveStaging(e) == bundles' = bundles
CleanUp(e) ==
  /\ BundleStep(e, "clean") /\ RemoveStaging(e)
  /\ GoTo(e, Resting) /\ UNCHANGED <<project, evaluated>>

Dies(e) ==
  /\ call.op = "bundle" /\ evaluation[e] # Resting /\ UNCHANGED call
  /\ evaluated.deaths < MaxDeaths
  /\ evaluated' = [evaluated EXCEPT !.deaths = @ + 1]
  /\ GoTo(e, Resting) /\ UNCHANGED <<project, bundles>>

BundleNext ==
  \/ EditProject
  \/ \E e \in Evaluation :
       \/ RunStage(e) \/ RunCalibration(e) \/ VerifyPreregistration(e) \/ LookForBundle(e) \/ ExecuteQueries(e)
       \/ WriteStaging(e) \/ ClaimName(e) \/ ReplaceClaim(e) \/ CleanUp(e) \/ Dies(e)

BundleSpec == call = Ready /\ BundleInit /\ [][BundleNext]_<<call, evaluations>>

-----------------------------------------------------------------------------
(* The files of a bundle: what a publication writes, and what verification  *)
(* takes for it after whatever happened to the tree.  A path is the         *)
(* sequence of its parts, a tree a function from the paths that are there   *)
(* to what is there; contents with the same hash are the same.              *)

ManifestPath == <<"manifest.json">>
ScoresPath == <<"scores.jsonl">>
\* Any file: only a manifest has a registry, and form "canonical" only if it is
\* encoded as canonical_json writes it.
FileBody(form, registry) == [form |-> form, registry |-> registry]
FileOf(content) == [kind |-> "file", content |-> content]
Folder == [kind |-> "dir", content |-> FileBody("none", {})]
Link == [kind |-> "link", content |-> FileBody("none", {})]

\* parent_directories.
ParentDirectories(paths) == UNION {{SubSeq(p, 1, k) : k \in 1 .. Len(p) - 1} : p \in paths}
\* parse_artifact_name, of a name [path, plain, ok]: plain when it is written as
\* its path is.
Escapes(name) == ~name.ok \/ name.path = ManifestPath

\* publish_run_bundle: extra_artifact_name refuses the names it needs itself, a
\* name twice is refused however it is written, and what is a file cannot be a
\* directory of another.
NotPublished == [published |-> FALSE]
PublishBundle(artifacts) ==
  LET path(k) == artifacts[k].name.path
      records == {[name |-> [path |-> path(k), plain |-> TRUE, ok |-> TRUE], content |-> artifacts[k].content] : k \in DOMAIN artifacts}
                 \cup {[name |-> [path |-> ScoresPath, plain |-> TRUE, ok |-> TRUE], content |-> FileBody("scores", {})]}
      paths == {r.name.path : r \in records} \cup {ManifestPath}
      manifest == FileBody("canonical", records)
      at(p) == IF p = ManifestPath THEN manifest ELSE (CHOOSE r \in records : r.name.path = p).content
  IN  IF \/ \E k \in DOMAIN artifacts : Escapes(artifacts[k].name) \/ path(k) = ScoresPath
         \/ \E j, k \in DOMAIN artifacts : j # k /\ path(j) = path(k)
         \/ paths \cap ParentDirectories(paths) # {}
      THEN NotPublished
      ELSE [published |-> TRUE, fingerprint |-> manifest,
            tree |-> [p \in paths |-> FileOf(at(p))] @@ [p \in ParentDirectories(paths) |-> Folder]]

\* parse_manifest_bytes: what it parses, encoded again, must be what was read.
ManifestHolds(content) ==
  /\ content.form = "canonical" /\ content.registry # {}
  /\ \A r \in content.registry : ~Escapes(r.name) /\ r.name.plain

Unexpected(files, expected) == (files \ expected) \cup (expected \ files)

\* verify_run_bundle.
NoFingerprint == FileBody("refused", {})
VerifyBundle(tree) ==
  LET files == {p \in DOMAIN tree : tree[p].kind = "file"}
      folders == {p \in DOMAIN tree : tree[p].kind = "dir"}
      manifest == tree[ManifestPath].content
      expected == {r.name.path : r \in manifest.registry} \cup {ManifestPath}
  IN  IF \/ \E p \in DOMAIN tree : tree[p].kind = "link"
         \/ ManifestPath \notin files
         \/ ~ManifestHolds(manifest)
         \/ Unexpected(files, expected) # {}
         \/ folders \ ParentDirectories(expected) # {}
         \/ \E r \in manifest.registry : tree[r.name.path].content # r.content
      THEN NoFingerprint
      ELSE manifest

\* A change puts something at a path, or takes what is there and below away.
Remain(tree, path) == {p \in DOMAIN tree : ~IsPrefix(path, p)}
Changed(tree, change) ==
  LET kept == [p \in Remain(tree, change.path) |-> tree[p]]
      above == [p \in ParentDirectories({change.path}) |-> Folder]
  IN  IF change.what = "gone" THEN kept ELSE (change.path :> change.put) @@ above @@ kept

AskVerify(artifacts, changes) ==
  LET bundle == PublishBundle(artifacts)
  IN  Ask([op |-> "verify", bundle |-> bundle, changes |-> changes,
           first |-> IF bundle.published THEN VerifyBundle(bundle.tree) ELSE NoFingerprint,
           tree |-> IF bundle.published THEN FoldLeft(Changed, bundle.tree, changes) ELSE << >>,
           verified |-> IF bundle.published THEN VerifyBundle(FoldLeft(Changed, bundle.tree, changes)) ELSE NoFingerprint])

-----------------------------------------------------------------------------
(* A final bundle cites the preregistration that is there, and both name   *)
(* the same protocol and splits, whatever was edited while the final stage *)
(* ran and whoever else ran a stage meanwhile.                             *)
FinalFollowsPlan ==
  IsWhole("final") =>
    /\ bundles["final"].cites = bundles["preregister"]
    /\ IsWhole("preregister")
    /\ bundles["final"].inputs.protocol = bundles["preregister"].inputs.protocol

(* Evidence that was published is never replaced or removed, however many  *)
(* evaluations publish to one place.                                       *)
EvidenceStays ==
  [][\A s \in Stage : IsWhole(s) => bundles'[s] = bundles[s]]_evaluations

(* A name that is claimed without a bundle belongs to an evaluation that   *)
(* is about to move its bundle there, unless one died: what fails leaves   *)
(* the place free for the next attempt.                                    *)
ClaimsAreHeld ==
  evaluated.deaths = 0 =>
    \A s \in Stage : bundles[s] = Claimed =>
      Cardinality({e \in Evaluation : evaluation[e].at = "replace" /\ evaluation[e].stage = s}) = 1

\* Whichever evaluations overlap, fail and die while the project is edited:
\* published evidence stays, a final bundle follows its plan, and no failure
\* blocks a place.
EvidenceHolds ==
  /\ []FinalFollowsPlan
  /\ []ClaimsAreHeld
  /\ EvidenceStays

(* The fingerprint of a bundle speaks for all of it: what is published     *)
(* verifies under the fingerprint it was published with, and what verifies *)
(* under that fingerprint later has the very files and directories that    *)
(* were published, none less, none more and none other.                    *)
FingerprintIsWhole ==
  call.op = "verify" /\ call.bundle.published =>
    /\ call.first = call.bundle.fingerprint
    /\ call.verified = call.bundle.fingerprint => call.tree = call.bundle.tree
=============================================================================
