------------------------ MODULE ActivePointerProofs ------------------------
(***************************************************************************)
(* Proofs about ActivePointer, for any number of attempts, runs and        *)
(* stages, and of commands, faults and damages: what looks published is    *)
(* whole, the pointer and its readers see one complete generation, the     *)
(* pointer moves only on evidence, and the six writes of an activation     *)
(* implement AtomicActivation.                                             *)
(***************************************************************************)
EXTENDS ActivePointer, TLAPS

Job == [run : RunId \cup {Unwritten}, force : BOOLEAN, next : Nat, rows : [StageNumbers -> StageRow],
        current : Attempts \cup {Unwritten}, fresh : SUBSET Attempts, halted : Halts,
        doc : KnowledgeBase \cup {Unwritten}]

Reader == [at : {"idle", "catalog", "manifest", "done"}, pointer : Pointer \cup {Unwritten},
           began : KnowledgeBase \cup {Unwritten}, catalog : Catalog \cup {Unwritten},
           manifest : KnowledgeBase \cup {Unwritten}]

Commands == {"idle", "walk", "index", "knowledge", "manifest", "replaceManifest", "catalog",
             "replaceCatalog", "pointer", "replacePointer", "seal", "returned"}

FormsOK ==
  /\ ArtifactTypeOK
  /\ stageOf \in [Attempts -> StageNumbers \cup {Unwritten}]
  /\ outcome \in [Attempts -> {"none", "produced", "partial"}]
  /\ damaged \in SUBSET Attempts /\ index \in SUBSET Attempts
  /\ status \in [RunId -> WalkStatus \cup {Unwritten}]
  /\ knowledge \in [RunId -> [doc : KnowledgeBase, active : BOOLEAN] \cup {Unwritten}]
  /\ progress \in Commands /\ command \in Job /\ reader \in Reader

\* Only a worker that has moved all the roots seals its snapshot, and only then
\* does it write the files of its attempt.
SealedWhole ==
  /\ \A a \in sealed : work[a] \notin {"unused", "snapshot", "aborting"}
  /\ \A a \in Attempts : work[a] \in {"files", "published"} => a \in sealed
  /\ \A a \in Attempts : work[a] = "snapshot" /\ scratch[a] = "summarized" => moved[a] = RootKinds

FilesInv == SealedWhole /\ ManifestsAreLast /\ AbortLeavesNothing

-----------------------------------------------------------------------------
\* What is written for the document d.
CatalogOf(d) == [run |-> d.run, status |-> d.status]
ManifestEntry(d) == [path |-> SnapshotPath(d), doc |-> d]
CatalogEntry(d) == [path |-> SnapshotPath(d), doc |-> CatalogOf(d)]
Named(d) == [run |-> d.run, path |-> SnapshotPath(d)]

InForce(d) == ManifestEntry(d) \in snapshots /\ CatalogEntry(d) \in catalogs

\* A path holds the document it was made from, and no other.
EntriesFollow ==
  /\ \A e \in snapshots : \E d \in KnowledgeBase : e = ManifestEntry(d)
  /\ \A e \in catalogs : \E d \in KnowledgeBase : e = CatalogEntry(d)

PointerNames == pointer = Unwritten \/ \E d \in CompleteDocument : InForce(d) /\ pointer = Named(d)

\* The reader holds what it has read of one generation.
ReaderFollows ==
  reader.at # "idle" =>
    \E d \in CompleteDocument :
      /\ InForce(d)
      /\ reader.pointer = Named(d) /\ reader.began = d
      /\ reader.at \in {"manifest", "done"} => reader.catalog = CatalogOf(d)
      /\ reader.at = "done" => reader.manifest = d

-----------------------------------------------------------------------------
Replacing == {"replaceManifest", "replaceCatalog", "replacePointer"}
Activating == {"manifest", "catalog", "pointer", "seal"} \cup Replacing
Finalizers == {"knowledge", "returned"} \cup Activating

\* Every result of the document names an attempt that is indexed and validates.
Backed(d) ==
  /\ d \in CompleteDocument
  /\ \A s \in StageNumbers : d.rows[s].attempt \in index /\ Validates(d.rows[s].attempt)

\* How far the command that holds the lock has come.
Finalization ==
  /\ progress \in Finalizers => command.run \in RunId /\ command.doc \in KnowledgeBase /\ command.doc.run = command.run
  /\ progress \in Finalizers /\ command.doc.status = "succeeded" => Backed(command.doc)
  /\ progress \in Activating => command.doc.status = "succeeded"
  /\ progress \in {"catalog", "replaceCatalog", "pointer", "replacePointer", "seal"} =>
       ManifestEntry(command.doc) \in snapshots
  /\ progress \in {"pointer", "replacePointer", "seal"} => CatalogEntry(command.doc) \in catalogs
  /\ progress = "seal" => pointer = Named(command.doc)

\* What has been left beside the files, and what the run's own document says.
Leftovers ==
  /\ progress \in Finalizers \ Replacing => temps = {}
  /\ progress = "replaceManifest" => temps = {<<"manifest", command.doc>>}
  /\ progress = "replaceCatalog" => temps = {<<"catalog", command.doc>>}
  /\ progress = "replacePointer" => temps = {<<"pointer">>}
  /\ progress = "returned" =>
       /\ knowledge[command.run].doc = command.doc
       /\ knowledge[command.run].active <=> pointer = Named(command.doc)

PublicationInv == EntriesFollow /\ PointerNames /\ ReaderFollows /\ Finalization /\ Leftovers

IInv == FormsOK /\ FilesInv /\ PublicationInv

-----------------------------------------------------------------------------
(* The files of the workers. *)

ArtifactNext == \E a \in Attempts : OpenScratch(a) \/ WorkStep(a) \/ WorkFails(a) \/ WorkDies(a)

\* publish moves a snapshot forward, its manifest root last.
LEMMA SnapshotStep ==
  ASSUME ArtifactTypeOK, FilesInv, NEW a \in Attempts,
         \/ OpenScratch(a) \/ Fill(a) \/ Summarize(a) \/ Seal(a)
         \/ \E k \in RootKinds : MoveDirectory(a, k)
  PROVE  ArtifactTypeOK' /\ FilesInv'
  <1> USE DEF ArtifactTypeOK, FilesInv, SealedWhole, ManifestsAreLast, AbortLeavesNothing
  <1>1. CASE OpenScratch(a)
    BY <1>1 DEF OpenScratch
  <1>2. CASE Fill(a)
    BY <1>2 DEF Fill
  <1>3. CASE Summarize(a)
    BY <1>3 DEF Summarize, Summarizable
  <1>4. CASE Seal(a)
    BY <1>4 DEF Seal
  <1>5. ASSUME NEW k \in RootKinds, MoveDirectory(a, k) PROVE ArtifactTypeOK' /\ FilesInv'
    BY <1>5 DEF MoveDirectory
  <1> QED
    BY <1>1, <1>2, <1>3, <1>4, <1>5

\* A failure takes back what was moved before anything else happens, and a death
\* leaves no more than was there.
LEMMA UnwindStep ==
  ASSUME ArtifactTypeOK, FilesInv, NEW a \in Attempts,
         \/ FailSnapshot(a) \/ RemoveScratch(a) \/ Aborted(a) \/ FailFiles(a) \/ WorkDies(a)
         \/ \E k \in RootKinds : RemoveRoot(a, k)
  PROVE  ArtifactTypeOK' /\ FilesInv'
  <1> USE DEF ArtifactTypeOK, FilesInv, SealedWhole, ManifestsAreLast, AbortLeavesNothing
  <1>1. CASE FailSnapshot(a)
    BY <1>1 DEF FailSnapshot
  <1>2. CASE RemoveScratch(a)
    BY <1>2 DEF RemoveScratch
  <1>3. CASE Aborted(a)
    BY <1>3 DEF Aborted, Unwound
  <1>4. CASE FailFiles(a)
    BY <1>4 DEF FailFiles
  <1>5. CASE WorkDies(a)
    BY <1>5 DEF WorkDies
  <1>6. ASSUME NEW k \in RootKinds, RemoveRoot(a, k) PROVE ArtifactTypeOK' /\ FilesInv'
    BY <1>6 DEF RemoveRoot
  <1> QED
    BY <1>1, <1>2, <1>3, <1>4, <1>5, <1>6

\* publish_attempt renames the manifest after all its siblings.
LEMMA FilesStep ==
  ASSUME ArtifactTypeOK, FilesInv, NEW a \in Attempts, NEW n \in Siblings,
         OpenTemp(a, n) \/ SyncTemp(a, n) \/ Rename(a, n)
  PROVE  ArtifactTypeOK' /\ FilesInv'
  <1> USE DEF ArtifactTypeOK, FilesInv, SealedWhole, ManifestsAreLast, AbortLeavesNothing
  <1>1. CASE OpenTemp(a, n)
    BY <1>1 DEF OpenTemp
  <1>2. CASE SyncTemp(a, n)
    BY <1>2 DEF SyncTemp
  <1>3. CASE Rename(a, n)
    <2>1. CASE n = Manifest
      BY <1>3, <2>1 DEF Rename, Renamable
    <2>2. CASE n # Manifest
      BY <1>3, <2>2 DEF Rename
    <2> QED
      BY <2>1, <2>2
  <1> QED
    BY <1>1, <1>2, <1>3

\* So every step of a worker keeps what is published whole.
LEMMA ArtifactKeeps ==
  ASSUME ArtifactTypeOK, FilesInv, [ArtifactNext]_artifactVars
  PROVE  ArtifactTypeOK' /\ FilesInv'
  <1>1. CASE UNCHANGED artifactVars
    BY <1>1 DEF artifactVars, ArtifactTypeOK, FilesInv, SealedWhole, ManifestsAreLast, AbortLeavesNothing
  <1>2. ASSUME NEW a \in Attempts, OpenScratch(a) \/ WorkStep(a) \/ WorkFails(a) \/ WorkDies(a)
        PROVE  ArtifactTypeOK' /\ FilesInv'
    BY <1>2, SnapshotStep, UnwindStep, FilesStep DEF WorkStep, WorkFails
  <1> QED
    BY <1>1, <1>2 DEF ArtifactNext

\* Without a step of a worker an attempt validates or not as before.
LEMMA ValidatesKept ==
  ASSUME UNCHANGED artifactVars
  PROVE  \A a : Validates(a)' <=> Validates(a)
  BY DEF artifactVars, Validates, Registered, NoExtra, SnapshotValid

-----------------------------------------------------------------------------
(* Entries and paths. *)

\* A complete generation is a generation.
LEMMA CompleteIsDocument == CompleteDocument \subseteq KnowledgeBase
  <1>1. [attempt : Attempts, outcome : {"produced"}] \subseteq StageRow
    BY DEF StageRow
  <1> QED
    BY <1>1 DEF CompleteDocument, KnowledgeBase, Logicals

\* What is written for a document is distinct from nothing.
LEMMA NoneIsNoValue ==
  /\ Unwritten \notin KnowledgeBase /\ Unwritten \notin Pointer /\ Unwritten \notin Catalog
  /\ \A d \in KnowledgeBase : CatalogOf(d) \in Catalog /\ Named(d) \in Pointer /\ SnapshotPath(d) \in RunId \X KnowledgeBase
  BY PointerAssumption DEF KnowledgeBase, Pointer, Catalog, CatalogOf, Named, SnapshotPath

\* A document's path, which has its fingerprint, tells it from any other.
LEMMA PathsDiffer ==
  ASSUME NEW c \in KnowledgeBase, NEW d \in KnowledgeBase, SnapshotPath(c) = SnapshotPath(d) \/ Named(c) = Named(d)
  PROVE  c = d
  BY DEF SnapshotPath, Named

\* What is found at the path of a document is what was written for it.
LEMMA AtManifest ==
  ASSUME EntriesFollow, NEW d \in KnowledgeBase, ManifestEntry(d) \in snapshots
  PROVE  ReadAt(snapshots, SnapshotPath(d)) = d
  <1>1. \A e \in snapshots : e.path = SnapshotPath(d) => e.doc = d
    BY PathsDiffer DEF EntriesFollow, ManifestEntry
  <1>2. ManifestEntry(d).path = SnapshotPath(d)
    BY DEF ManifestEntry
  <1> QED
    BY <1>1, <1>2 DEF ReadAt

\* So the catalog read at the path of a document is that document's.
LEMMA AtCatalog ==
  ASSUME EntriesFollow, NEW d \in KnowledgeBase, CatalogEntry(d) \in catalogs
  PROVE  ReadAt(catalogs, SnapshotPath(d)) = CatalogOf(d)
  <1>1. \A e \in catalogs : e.path = SnapshotPath(d) => e.doc = CatalogOf(d)
    BY PathsDiffer DEF EntriesFollow, CatalogEntry
  <1>2. CatalogEntry(d).path = SnapshotPath(d)
    BY DEF CatalogEntry
  <1> QED
    BY <1>1, <1>2 DEF ReadAt

\* Writing a document again changes nothing, and no other document is lost.
LEMMA PutManifest ==
  ASSUME EntriesFollow, NEW d \in KnowledgeBase
  PROVE  Put(snapshots, SnapshotPath(d), d) = snapshots \cup {ManifestEntry(d)}
  <1>1. \A e \in snapshots : e.path = SnapshotPath(d) => e = ManifestEntry(d)
    BY PathsDiffer DEF EntriesFollow, ManifestEntry
  <1> QED
    BY <1>1 DEF Put, ManifestEntry

\* And writing a catalog adds an entry, since no path is used for two.
LEMMA PutCatalog ==
  ASSUME EntriesFollow, NEW d \in KnowledgeBase
  PROVE  Put(catalogs, SnapshotPath(d), CatalogOf(d)) = catalogs \cup {CatalogEntry(d)}
  <1>1. \A e \in catalogs : e.path = SnapshotPath(d) => e = CatalogEntry(d)
    BY PathsDiffer DEF EntriesFollow, CatalogEntry
  <1> QED
    BY <1>1 DEF Put, CatalogEntry

\* A reader that follows the pointer finds the document it names.
LEMMA VisibleIs ==
  ASSUME EntriesFollow, PointerNames
  PROVE  /\ pointer = Unwritten => VisibleGeneration = Unwritten
         /\ \A d \in CompleteDocument : pointer = Named(d) <=> VisibleGeneration = d
         /\ pointer # Unwritten => VisibleGeneration \in CompleteDocument
  <1>1. pointer = Unwritten => VisibleGeneration = Unwritten
    BY DEF VisibleGeneration
  <1>2. ASSUME NEW d \in CompleteDocument, pointer = Named(d), InForce(d) PROVE VisibleGeneration = d
    <2>1. d \in KnowledgeBase /\ pointer # Unwritten /\ pointer.path = SnapshotPath(d)
      BY <1>2, CompleteIsDocument, NoneIsNoValue DEF Named
    <2> QED
      BY <1>2, <2>1, AtManifest DEF VisibleGeneration, InForce
  <1>3. ASSUME NEW d \in CompleteDocument, pointer = Named(d) PROVE VisibleGeneration = d
    <2>1. d \in KnowledgeBase /\ pointer # Unwritten
      BY <1>3, CompleteIsDocument, NoneIsNoValue
    <2>2. PICK c \in CompleteDocument : InForce(c) /\ pointer = Named(c)
      BY <2>1 DEF PointerNames
    <2>3. c = d
      BY <1>3, <2>2, CompleteIsDocument, PathsDiffer
    <2> QED
      BY <1>2, <2>2, <2>3
  <1>4. ASSUME NEW d \in CompleteDocument, VisibleGeneration = d PROVE pointer = Named(d)
    <2>1. pointer # Unwritten
      BY <1>1, <1>4, CompleteIsDocument, NoneIsNoValue
    <2>2. PICK c \in CompleteDocument : InForce(c) /\ pointer = Named(c)
      BY <2>1 DEF PointerNames
    <2> QED
      BY <1>2, <1>4, <2>2
  <1>5. pointer # Unwritten => VisibleGeneration \in CompleteDocument
    BY <1>2 DEF PointerNames
  <1> QED
    BY <1>1, <1>3, <1>4, <1>5

-----------------------------------------------------------------------------
(* What a finalization finds out. *)

\* What backs a document depends on the attempts and the index alone.
LEMMA BackedKept ==
  ASSUME UNCHANGED <<artifactVars, index>>
  PROVE  \A d : Backed(d) => Backed(d)'
  BY ValidatesKept DEF Backed

\* A run counts as succeeded only when every stage of it has its evidence.
LEMMA SucceededIsBacked ==
  ASSUME FormsOK, NEW r \in RunId, NEW st \in WalkStatus, NEW d,
         d = [run |-> r, rows |-> Verified(st).rows, status |-> Logical(Verified(st))]
  PROVE  /\ d \in KnowledgeBase
         /\ d.status = "succeeded" => Backed(d)
  <1>1. /\ Verified(st) \in WalkStatus /\ Verified(st).rows = st.rows
        /\ Verified(st).halted = "no" => \A s \in StageNumbers : RowEvidenced(st.rows[s])
    BY DEF Verified, WalkStatus, Halts
  <1>2. d \in KnowledgeBase
    BY <1>1 DEF KnowledgeBase, Logical, Logicals, WalkStatus
  <1>3. ASSUME d.status = "succeeded" PROVE Backed(d)
    <2>1. Verified(st).halted = "no" /\ \A s \in StageNumbers : st.rows[s].outcome \notin {"failed", "partial", "none"}
      BY <1>1, <1>3 DEF Logical, Some
    <2>2. \A s \in StageNumbers : st.rows[s] \in StageRow
      BY DEF WalkStatus
    <2>3. \A s \in StageNumbers : st.rows[s].outcome = "produced"
      BY <2>1, <2>2 DEF StageRow
    <2>4. \A s \in StageNumbers : st.rows[s].attempt \in index /\ Validates(st.rows[s].attempt)
      BY <1>1, <2>1, <2>3 DEF RowEvidenced, Servable
    <2>5. index \subseteq Attempts
      BY DEF FormsOK
    <2>6. \A s \in StageNumbers : st.rows[s] \in [attempt : Attempts, outcome : {"produced"}]
      BY <2>2, <2>3, <2>4, <2>5 DEF StageRow
    <2>7. st.rows \in [StageNumbers -> [attempt : Attempts, outcome : {"produced"}]]
      BY <2>6 DEF WalkStatus
    <2> QED
      BY <1>1, <1>3, <2>4, <2>7 DEF Backed, CompleteDocument
  <1> QED
    BY <1>2, <1>3

-----------------------------------------------------------------------------
(* The steps. *)

\* The empty runs directory satisfies the invariant.
LEMMA InitInv == PointerInit => IInv
  <1> SUFFICES ASSUME PointerInit PROVE IInv
    OBVIOUS
  <1>1. ArtifactTypeOK /\ FilesInv
    BY DEF PointerInit, ArtifactInit, ArtifactTypeOK, FilesInv, SealedWhole, ManifestsAreLast, AbortLeavesNothing
  <1>2. NoRow \in StageRow
    BY DEF NoRow, StageRow
  <1>3. command \in Job /\ reader \in Reader
    BY <1>2 DEF PointerInit, NoCommand, Job, NoReader, Reader, Halts
  <1>4. FormsOK
    BY <1>1, <1>3 DEF PointerInit, FormsOK, Commands
  <1>5. PublicationInv
    BY DEF PointerInit, PublicationInv, EntriesFollow, PointerNames, ReaderFollows, NoReader,
           Finalization, Leftovers, Finalizers, Activating, Replacing
  <1> QED
    BY <1>1, <1>4, <1>5 DEF IInv

\* A worker moves only under the walk that has it as its current attempt.
LEMMA ArtifactsMove ==
  ASSUME FormsOK, [PointerNext]_publicationVars
  PROVE  /\ [ArtifactNext]_artifactVars
         /\ progress # "walk" => UNCHANGED artifactVars
  <1> USE DEF artifactVars
  <1>1. CASE UNCHANGED publicationVars
    BY <1>1 DEF publicationVars
  <1>2. CASE WorkAttempt \/ WorkError
    BY <1>2 DEF WorkAttempt, WorkError, ArtifactNext, FormsOK, Job
  <1>3. CASE ReserveAttempt
    BY <1>3 DEF ReserveAttempt, ArtifactNext, Between
  <1>4. CASE CommandDies
    BY <1>4 DEF CommandDies, ArtifactNext, FormsOK, Job
  <1>5. ASSUME \/ \E r \in RunId, force \in BOOLEAN : StartWalk(r, force)
               \/ Hit \/ Settle \/ InterruptWalk \/ SaveStatus \/ SaveIndex
               \/ \E a \in Attempts : InvalidateAttempt(a) \/ DamageFiles(a)
        PROVE  UNCHANGED artifactVars
    BY <1>5 DEF StartWalk, Hit, Settle, InterruptWalk, SaveStatus, SaveIndex, InvalidateAttempt, DamageFiles
  <1>6. ASSUME NEW r \in RunId, AssembleRun(r) PROVE UNCHANGED artifactVars
    BY <1>6 DEF AssembleRun
  <1>7. CASE SaveKnowledge \/ WriteManifestTemp \/ ReplaceManifest \/ WriteCatalogTemp
             \/ ReplaceCatalog \/ WritePointerTemp \/ ReplacePointer \/ SealKnowledge \/ EndFinalization
    BY <1>7 DEF SaveKnowledge, WriteTemp, WriteManifestTemp, ReplaceManifest, WriteCatalogTemp,
       ReplaceCatalog, WritePointerTemp, ReplacePointer, SealKnowledge, EndFinalization
  <1>8. CASE Reading
    BY <1>8 DEF Reading, ReadPointer, ReadCatalog, ReadManifest
  <1> QED
    BY <1>1, <1>2, <1>3, <1>4, <1>5, <1>6, <1>7, <1>8 DEF PointerNext, Walking, Finalizing

\* The variables of an idle command are of their types,
LEMMA NoJobIsJob == NoCommand \in Job
  <1>1. NoRow \in StageRow
    BY DEF NoRow, StageRow
  <1> QED
    BY <1>1 DEF NoCommand, Job, Halts

\* and so are those of a walk that goes on to its next stage.
LEMMA JobAdvances ==
  ASSUME NEW j \in Job, NEW next \in Nat, NEW rows \in [StageNumbers -> StageRow],
         NEW fresh \in SUBSET Attempts, NEW halted \in Halts
  PROVE  /\ [j EXCEPT !.next = next, !.rows = rows] \in Job
         /\ [j EXCEPT !.rows = rows, !.fresh = fresh, !.halted = halted,
                      !.next = next, !.current = Unwritten] \in Job
  <1>1. [j EXCEPT !.next = next, !.rows = rows] \in Job
    BY DEF Job
  <1>2. [j EXCEPT !.rows = rows, !.fresh = fresh, !.halted = halted,
                  !.next = next, !.current = Unwritten] \in Job
    BY DEF Job
  <1> QED
    BY <1>1, <1>2

\* Walks, invalidations and damages keep every variable of its type.
LEMMA WalkForms ==
  ASSUME FormsOK, ArtifactTypeOK',
         \/ \E r \in RunId, force \in BOOLEAN : StartWalk(r, force)
         \/ Hit \/ ReserveAttempt \/ WorkAttempt \/ WorkError \/ Settle \/ InterruptWalk \/ SaveStatus \/ SaveIndex
         \/ \E a \in Attempts : InvalidateAttempt(a) \/ DamageFiles(a)
         \/ CommandDies
  PROVE  FormsOK'
  <1> USE DEF FormsOK, Commands, walkVars, pointerVars
  <1>1. ASSUME NEW r \in RunId, NEW force \in BOOLEAN, StartWalk(r, force) PROVE FormsOK'
    <2>1. command' \in Job
      BY NoJobIsJob, <1>1 DEF StartWalk, Job, WalkStatus
    <2> QED
      BY <1>1, <2>1 DEF StartWalk
  <1>2. CASE Hit
    <2>1. PICK a \in Attempts :
            command' = [command EXCEPT !.next = @ + 1,
                      !.rows = [command.rows EXCEPT ![command.next] = [attempt |-> a, outcome |-> outcome[a]]]]
      <3>1. PICK a \in Indexed(command.next) :
              command' = [command EXCEPT !.next = @ + 1,
                        !.rows[command.next] = [attempt |-> a, outcome |-> outcome[a]]]
        BY <1>2 DEF Hit
      <3>2. a \in Attempts
        BY DEF Indexed
      <3> QED
        BY <3>1, <3>2
    <2>2. [attempt |-> a, outcome |-> outcome[a]] \in StageRow
      BY DEF StageRow
    <2>3. PICK next \in Nat, rows \in [StageNumbers -> StageRow] : command' = [command EXCEPT !.next = next, !.rows = rows]
      <3>1. command.next + 1 \in Nat
        BY DEF Job
      <3>2. [command.rows EXCEPT ![command.next] = [attempt |-> a, outcome |-> outcome[a]]] \in [StageNumbers -> StageRow]
        BY <2>2 DEF Job
      <3> QED
        BY <2>1, <3>1, <3>2
    <2>4. command' \in Job
      BY <2>3, JobAdvances DEF Halts
    <2> QED
      BY <1>2, <2>4 DEF Hit
  <1>3. CASE ReserveAttempt
    <2>1. command' \in Job
      BY <1>3 DEF ReserveAttempt, Job
    <2> QED
      BY <1>3, <2>1 DEF ReserveAttempt
  <1>4. CASE WorkAttempt \/ WorkError
    BY <1>4 DEF WorkAttempt, WorkError
  <1>5. CASE Settle
    <2> DEFINE accepted == AcceptedAttempt(command.current)
               row == [attempt |-> command.current, outcome |-> IF accepted THEN outcome[command.current] ELSE "failed"]
               fresh == IF accepted THEN command.fresh \cup {command.current} ELSE command.fresh
               halted == IF accepted THEN command.halted ELSE "failed"
    <2>1. command.current \in Attempts /\ command.fresh \in SUBSET Attempts /\ command.halted \in Halts
      BY <1>5 DEF Settle, Job
    <2>2. row \in StageRow /\ fresh \in SUBSET Attempts /\ halted \in Halts
      BY <2>1 DEF StageRow, Halts
    <2>3. [command.rows EXCEPT ![command.next] = row] \in [StageNumbers -> StageRow]
      BY <2>2 DEF Job
    <2>4. command' = [command EXCEPT !.rows = [command.rows EXCEPT ![command.next] = row], !.fresh = fresh,
                             !.halted = halted, !.next = @ + 1, !.current = Unwritten]
      BY <1>5 DEF Settle
    <2>5. PICK next \in Nat, rows \in [StageNumbers -> StageRow] :
            command' = [command EXCEPT !.rows = rows, !.fresh = fresh,
                               !.halted = halted, !.next = next, !.current = Unwritten]
      <3>1. command.next + 1 \in Nat
        BY DEF Job
      <3> QED
        BY <2>3, <2>4, <3>1
    <2>6. command' \in Job
      BY <2>2, <2>5, JobAdvances
    <2> QED
      BY <1>5, <2>6 DEF Settle
  <1>6. CASE InterruptWalk
    BY <1>6 DEF InterruptWalk, Job, Halts
  <1>7. CASE SaveStatus
    BY <1>7 DEF SaveStatus, Job, WalkStatus
  <1>8. CASE SaveIndex
    BY NoJobIsJob, <1>8 DEF SaveIndex, Job
  <1>9. ASSUME NEW a \in Attempts, InvalidateAttempt(a) \/ DamageFiles(a) PROVE FormsOK'
    BY <1>9 DEF InvalidateAttempt, DamageFiles
  <1>10. CASE CommandDies
    BY NoJobIsJob, <1>10 DEF CommandDies
  <1> QED
    BY <1>1, <1>2, <1>3, <1>4, <1>5, <1>6, <1>7, <1>8, <1>9, <1>10

\* Steps outside a finalization leave what is published alone.
LEMMA WalkPublication ==
  ASSUME FormsOK, PublicationInv,
         \/ \E r \in RunId, force \in BOOLEAN : StartWalk(r, force)
         \/ Hit \/ ReserveAttempt \/ WorkAttempt \/ WorkError \/ Settle \/ InterruptWalk \/ SaveStatus \/ SaveIndex
         \/ \E a \in Attempts : InvalidateAttempt(a)
         \/ CommandDies
  PROVE  PublicationInv'
  <1>1. /\ UNCHANGED <<snapshots, catalogs, pointer, temps, knowledge, reader>>
        /\ progress' \in {"idle", "walk", "index"}
    BY DEF StartWalk, Hit, ReserveAttempt, WorkAttempt, WorkError, Settle, InterruptWalk, SaveStatus, SaveIndex,
           InvalidateAttempt, CommandDies, Between, pointerVars
  <1> QED
    BY <1>1 DEF PublicationInv, EntriesFollow, PointerNames, ReaderFollows, InForce,
                Finalization, Leftovers, Finalizers, Activating, Replacing

\* The document of a run is assembled from evidence that is there.
LEMMA AssembleKeeps ==
  ASSUME FormsOK, PublicationInv, NEW r \in RunId, AssembleRun(r)
  PROVE  command' \in Job /\ PublicationInv'
  <1> DEFINE st == status[r]
             d == [run |-> r, rows |-> Verified(st).rows, status |-> Logical(Verified(st))]
  <1>1. st \in WalkStatus
    BY DEF AssembleRun, FormsOK
  <1>2. d \in KnowledgeBase /\ (d.status = "succeeded" => Backed(d))
    BY <1>1, SucceededIsBacked
  <1>3. /\ command' = [NoCommand EXCEPT !.run = r, !.doc = d]
        /\ progress' = "knowledge" /\ temps' = {}
        /\ UNCHANGED <<artifactVars, index, snapshots, catalogs, pointer, reader>>
    BY DEF AssembleRun, walkVars
  <1>4. command' \in Job /\ command'.run = r /\ command'.doc = d
    <2> HIDE DEF d
    <2> QED
      BY <1>2, <1>3, NoJobIsJob DEF Job
  <1>5. \A c : Backed(c) => Backed(c)'
    BY <1>3, BackedKept
  <1>6. Finalization'
    <2>1. d.run = r
      OBVIOUS
    <2> HIDE DEF d
    <2> QED
      BY <1>2, <1>3, <1>4, <1>5, <2>1 DEF Finalization, Finalizers, Activating, Replacing
  <1>7. EntriesFollow' /\ PointerNames' /\ ReaderFollows' /\ Leftovers'
    <2> HIDE DEF d
    <2> QED
      BY <1>3 DEF PublicationInv, EntriesFollow, PointerNames, ReaderFollows, InForce, Leftovers,
                  Finalizers, Activating, Replacing
  <1> QED
    BY <1>4, <1>6, <1>7 DEF PublicationInv

\* The writes that do not move the pointer keep the publications in order.
LEMMA WritesKeep ==
  ASSUME FormsOK, PublicationInv,
         \/ SaveKnowledge \/ WriteManifestTemp \/ WriteCatalogTemp \/ WritePointerTemp
         \/ SealKnowledge \/ EndFinalization
  PROVE  FormsOK' /\ PublicationInv'
  <1> USE DEF PublicationInv, Finalizers, Activating, Replacing, pointerVars, walkVars
  <1>0. EntriesFollow' /\ PointerNames' /\ ReaderFollows'
    BY DEF SaveKnowledge, WriteTemp, WriteManifestTemp, WriteCatalogTemp, WritePointerTemp,
           SealKnowledge, EndFinalization, EntriesFollow, PointerNames, ReaderFollows, InForce
  <1>1. UNCHANGED <<artifactVars, walkVars, damaged, reader>>
    BY DEF SaveKnowledge, WriteTemp, WriteManifestTemp, WriteCatalogTemp, WritePointerTemp,
           SealKnowledge, EndFinalization
  <1>2. UNCHANGED artifactVars => (ArtifactTypeOK' <=> ArtifactTypeOK)
    BY DEF artifactVars, ArtifactTypeOK
  <1>3. FormsOK'
    <2>1. command' \in Job /\ progress' \in Commands
      BY NoJobIsJob
         DEF FormsOK, Commands, SaveKnowledge, WriteTemp, WriteManifestTemp,
             WriteCatalogTemp, WritePointerTemp, SealKnowledge, EndFinalization
    <2>2. knowledge' \in [RunId -> [doc : KnowledgeBase, active : BOOLEAN] \cup {Unwritten}]
      <3>1. ASSUME SaveKnowledge \/ SealKnowledge
            PROVE  \A b \in BOOLEAN : [doc |-> command.doc, active |-> b] \in [doc : KnowledgeBase, active : BOOLEAN]
        BY <3>1 DEF Finalization, SaveKnowledge, SealKnowledge
      <3>2. CASE SaveKnowledge
        BY <3>1, <3>2 DEF FormsOK, SaveKnowledge
      <3>3. CASE SealKnowledge
        BY <3>1, <3>3 DEF FormsOK, SealKnowledge
      <3>4. CASE WriteManifestTemp \/ WriteCatalogTemp \/ WritePointerTemp \/ EndFinalization
        BY <3>4 DEF FormsOK, WriteTemp, WriteManifestTemp, WriteCatalogTemp, WritePointerTemp, EndFinalization
      <3> QED
        BY <3>2, <3>3, <3>4
    <2> QED
      BY <1>1, <1>2, <2>1, <2>2 DEF FormsOK
  <1>4. \A d : Backed(d) => Backed(d)'
    BY <1>1, BackedKept
  <1>5. CASE SaveKnowledge
    <2>1. Finalization'
      BY <1>4, <1>5 DEF SaveKnowledge, Finalization
    <2>2. pointer = Named(command.doc) => command.doc.status = "succeeded"
      <3>1. ASSUME NEW c \in CompleteDocument, pointer = Named(c), pointer = Named(command.doc)
            PROVE  command.doc = c
        BY <1>5, <3>1, CompleteIsDocument, PathsDiffer DEF SaveKnowledge, Finalization
      <3>2. pointer = Named(command.doc) => pointer # Unwritten
        BY <1>5, NoneIsNoValue DEF SaveKnowledge, Finalization
      <3> QED
        BY <3>1, <3>2 DEF PointerNames, CompleteDocument
    <2>3. Leftovers'
      BY <1>5, <2>2 DEF SaveKnowledge, Finalization, Leftovers, FormsOK
    <2> QED
      BY <1>0, <1>3, <2>1, <2>3
  <1>6. CASE WriteManifestTemp \/ WriteCatalogTemp \/ WritePointerTemp
    <2>1. Finalization'
      BY <1>4, <1>6 DEF WriteTemp, WriteManifestTemp, WriteCatalogTemp, WritePointerTemp, Finalization
    <2>2. Leftovers'
      BY <1>6 DEF WriteTemp, WriteManifestTemp, WriteCatalogTemp, WritePointerTemp, Leftovers
    <2> QED
      BY <1>0, <1>3, <2>1, <2>2
  <1>7. CASE SealKnowledge
    <2>1. Finalization'
      BY <1>4, <1>7 DEF SealKnowledge, Finalization
    <2>2. Leftovers'
      BY <1>7 DEF SealKnowledge, Finalization, Leftovers, FormsOK
    <2> QED
      BY <1>0, <1>3, <2>1, <2>2
  <1>8. CASE EndFinalization
    BY <1>0, <1>3, <1>8 DEF EndFinalization, Finalization, Leftovers
  <1> QED
    BY <1>5, <1>6, <1>7, <1>8

\* The three replacements: a manifest, its catalog, and the pointer to both.
LEMMA ReplacesKeep ==
  ASSUME FormsOK, PublicationInv, ReplaceManifest \/ ReplaceCatalog \/ ReplacePointer
  PROVE  FormsOK' /\ PublicationInv'
  <1> USE DEF PublicationInv, Finalizers, Activating, Replacing, walkVars
  <1>1. /\ UNCHANGED <<artifactVars, walkVars, knowledge, damaged, command, reader>>
        /\ progress' \in Commands
    BY DEF ReplaceManifest, ReplaceCatalog, ReplacePointer, Commands
  <1>2. FormsOK'
    <2>1. ArtifactTypeOK'
      BY <1>1 DEF FormsOK, ArtifactTypeOK, artifactVars
    <2> QED
      BY <1>1, <2>1 DEF FormsOK
  <1>3. \A d : Backed(d) => Backed(d)'
    BY <1>1, BackedKept
  <1>4. command.doc \in KnowledgeBase /\ command.doc \in CompleteDocument /\ command.doc.status = "succeeded" /\ command.doc.run = command.run
    BY DEF ReplaceManifest, ReplaceCatalog, ReplacePointer, Finalization, Backed
  <1>5. CASE ReplaceManifest
    <2>1. /\ snapshots' = snapshots \cup {ManifestEntry(command.doc)}
          /\ UNCHANGED <<catalogs, pointer>>
      BY <1>4, <1>5, PutManifest DEF ReplaceManifest
    <2>2. EntriesFollow' /\ PointerNames' /\ ReaderFollows'
      BY <1>1, <1>4, <2>1 DEF EntriesFollow, PointerNames, ReaderFollows, InForce
    <2>3. Finalization' /\ Leftovers'
      BY <1>1, <1>3, <1>5, <2>1 DEF ReplaceManifest, Finalization, Leftovers
    <2> QED
      BY <1>2, <2>2, <2>3
  <1>6. CASE ReplaceCatalog
    <2>1. /\ catalogs' = catalogs \cup {CatalogEntry(command.doc)}
          /\ UNCHANGED <<snapshots, pointer>>
      BY <1>4, <1>6, PutCatalog DEF ReplaceCatalog, CatalogOf
    <2>2. EntriesFollow' /\ PointerNames' /\ ReaderFollows'
      BY <1>1, <1>4, <2>1 DEF EntriesFollow, PointerNames, ReaderFollows, InForce
    <2>3. Finalization' /\ Leftovers'
      BY <1>1, <1>3, <1>6, <2>1 DEF ReplaceCatalog, Finalization, Leftovers
    <2> QED
      BY <1>2, <2>2, <2>3
  <1>7. CASE ReplacePointer
    <2>1. pointer' = Named(command.doc) /\ UNCHANGED <<snapshots, catalogs>>
      BY <1>4, <1>7 DEF ReplacePointer, Named
    <2>2. InForce(command.doc)
      BY <1>7 DEF ReplacePointer, Finalization, InForce
    <2>3. EntriesFollow' /\ PointerNames' /\ ReaderFollows'
      BY <1>1, <1>4, <2>1, <2>2 DEF EntriesFollow, PointerNames, ReaderFollows, InForce
    <2>4. Finalization' /\ Leftovers'
      BY <1>1, <1>3, <1>7, <2>1 DEF ReplacePointer, Finalization, Leftovers
    <2> QED
      BY <1>2, <2>3, <2>4
  <1> QED
    BY <1>5, <1>6, <1>7

\* The files a reader has still to read are those its pointer led to when it
\* read it, whatever has been activated since.
LEMMA ReadingKeeps ==
  ASSUME FormsOK, PublicationInv, Reading
  PROVE  FormsOK' /\ PublicationInv'
  <1> USE DEF PublicationInv
  <1>1. UNCHANGED <<artifactVars, walkVars, pointerVars, damaged, progress, command>>
    BY DEF Reading, ReadPointer, ReadCatalog, ReadManifest
  <1>2. EntriesFollow' /\ PointerNames'
    BY <1>1 DEF pointerVars, EntriesFollow, PointerNames, InForce
  <1>3. Finalization' /\ Leftovers'
    <2>1. \A d : Backed(d) => Backed(d)'
      BY <1>1, BackedKept DEF walkVars
    <2> QED
      BY <1>1, <2>1 DEF pointerVars, Finalization, Leftovers
  <1>4. reader' \in Reader /\ ReaderFollows'
    <2>1. CASE ReadPointer
      <3>1. PICK d \in CompleteDocument : InForce(d) /\ pointer = Named(d)
        BY <2>1 DEF ReadPointer, PointerNames
      <3>2. d \in KnowledgeBase /\ VisibleGeneration = d /\ pointer \in Pointer
        BY <3>1, VisibleIs, CompleteIsDocument, NoneIsNoValue
      <3>3. reader' = [NoReader EXCEPT !.at = "catalog", !.pointer = pointer, !.began = d]
        BY <2>1, <3>2 DEF ReadPointer
      <3> QED
        BY <1>1, <3>1, <3>2, <3>3 DEF NoReader, Reader, ReaderFollows, InForce, pointerVars
    <2>2. CASE ReadCatalog
      <3>1. PICK d \in CompleteDocument : InForce(d) /\ reader.pointer = Named(d) /\ reader.began = d
        BY <2>2 DEF ReadCatalog, ReaderFollows
      <3>2. d \in KnowledgeBase /\ reader.pointer.path = SnapshotPath(d)
        BY <3>1, CompleteIsDocument DEF Named
      <3>3. reader' = [reader EXCEPT !.at = "manifest", !.catalog = CatalogOf(d)]
        BY <2>2, <3>1, <3>2, AtCatalog DEF ReadCatalog, InForce
      <3> QED
        BY <1>1, <3>1, <3>2, <3>3, NoneIsNoValue DEF FormsOK, Reader, ReaderFollows, InForce, pointerVars
    <2>3. CASE ReadManifest
      <3>1. PICK d \in CompleteDocument :
              InForce(d) /\ reader.pointer = Named(d) /\ reader.began = d /\ reader.catalog = CatalogOf(d)
        BY <2>3 DEF ReadManifest, ReaderFollows
      <3>2. d \in KnowledgeBase /\ reader.pointer.path = SnapshotPath(d)
        BY <3>1, CompleteIsDocument DEF Named
      <3>3. reader' = [reader EXCEPT !.at = "done", !.manifest = d]
        BY <2>3, <3>1, <3>2, AtManifest DEF ReadManifest, InForce
      <3> QED
        BY <1>1, <3>1, <3>2, <3>3 DEF FormsOK, Reader, ReaderFollows, InForce, pointerVars
    <2> QED
      BY <2>1, <2>2, <2>3 DEF Reading
  <1>5. FormsOK'
    <2>1. ArtifactTypeOK'
      BY <1>1 DEF FormsOK, ArtifactTypeOK, artifactVars
    <2> QED
      BY <1>1, <1>4, <2>1 DEF FormsOK, pointerVars, walkVars
  <1> QED
    BY <1>2, <1>3, <1>4, <1>5

\* Every step of commands, workers, readers and faults keeps the invariant.
LEMMA NextInv == IInv /\ [PointerNext]_publicationVars => IInv'
  <1> SUFFICES ASSUME IInv, [PointerNext]_publicationVars PROVE IInv'
    OBVIOUS
  <1> USE DEF IInv
  <1>1. ArtifactTypeOK' /\ FilesInv'
    BY ArtifactsMove, ArtifactKeeps DEF FormsOK
  <1>2. CASE UNCHANGED publicationVars
    <2>1. UNCHANGED artifactVars /\ UNCHANGED walkVars /\ UNCHANGED pointerVars
          /\ UNCHANGED <<damaged, progress, command, reader>>
      BY <1>2 DEF publicationVars
    <2>2. \A d : Backed(d) => Backed(d)'
      BY <2>1, BackedKept DEF walkVars
    <2>3. PublicationInv'
      BY <2>1, <2>2 DEF pointerVars, PublicationInv, EntriesFollow, PointerNames, ReaderFollows, InForce,
                        Finalization, Leftovers
    <2>4. FormsOK'
      BY <1>1, <2>1 DEF FormsOK, pointerVars, walkVars
    <2> QED
      BY <1>1, <2>3, <2>4
  <1>3. CASE Walking \/ CommandDies
    BY <1>1, <1>3, WalkForms, WalkPublication DEF Walking
  <1>4. ASSUME NEW r \in RunId, AssembleRun(r) PROVE IInv'
    <2>1. command' \in Job /\ PublicationInv'
      BY <1>4, AssembleKeeps
    <2>2. FormsOK'
      BY <1>1, <1>4, <2>1 DEF FormsOK, AssembleRun, walkVars, Commands
    <2> QED
      BY <1>1, <2>1, <2>2
  <1>5. CASE SaveKnowledge \/ WriteManifestTemp \/ WriteCatalogTemp \/ WritePointerTemp
             \/ SealKnowledge \/ EndFinalization
    BY <1>1, <1>5, WritesKeep
  <1>6. CASE ReplaceManifest \/ ReplaceCatalog \/ ReplacePointer
    BY <1>1, <1>6, ReplacesKeep
  <1>7. CASE Reading
    BY <1>1, <1>7, ReadingKeeps
  <1>8. ASSUME NEW a \in Attempts, DamageFiles(a) PROVE IInv'
    <2>1. UNCHANGED <<artifactVars, index>> /\ UNCHANGED pointerVars /\ UNCHANGED <<progress, command, reader>>
      BY <1>8 DEF DamageFiles, walkVars
    <2>2. \A d : Backed(d) => Backed(d)'
      BY <2>1, BackedKept
    <2>3. PublicationInv'
      BY <2>1, <2>2 DEF pointerVars, PublicationInv, EntriesFollow, PointerNames, ReaderFollows, InForce,
                        Finalization, Leftovers
    <2> QED
      BY <1>1, <1>8, <2>3, WalkForms
  <1> QED
    BY <1>2, <1>3, <1>4, <1>5, <1>6, <1>7, <1>8 DEF PointerNext, Finalizing

-----------------------------------------------------------------------------
(* The theorems. *)

\* What the walks, finalizations, readers, faults and deaths keep.
THEOREM Invariance == PointerSpec => []IInv
  BY InitInv, NextInv, PTL DEF PointerSpec

\* A snapshot that has its manifest has all its roots, an attempt that has its
\* manifest has all its files, and an aborted publication has left nothing,
\* wherever a step failed or the process died.
THEOREM FilesAreWhole == PointerSpec => []FilesAppearWhole
  <1>1. ASSUME IInv PROVE FilesAppearWhole
    <2> USE <1>1 DEF IInv
    <2>1. PointerTypeOK
      <3>1. \A e \in snapshots : e.doc \in KnowledgeBase
        BY DEF PublicationInv, EntriesFollow, ManifestEntry
      <3>2. /\ command.run \in RunId \cup {Unwritten} /\ command.current \in Attempts \cup {Unwritten}
            /\ command.rows \in [StageNumbers -> StageRow] /\ command.fresh \in SUBSET Attempts /\ command.halted \in Halts
        BY DEF FormsOK, Job
      <3>3. \A r \in RunId : status[r] = Unwritten \/ status[r] \in WalkStatus
        BY DEF FormsOK
      <3> QED
        BY <3>1, <3>2, <3>3 DEF FormsOK, PointerTypeOK, Commands
    <2> QED
      BY <2>1 DEF FilesInv, FilesAppearWhole
  <1> QED
    BY <1>1, Invariance, PTL

\* The pointer names the manifest and the catalog of one succeeded generation,
\* a reader without the lock sees both of the generation it began with, and a
\* finalization that returns has left nothing and marked its run rightly.
THEOREM PointerIsSound == PointerSpec => []PointerSound
  <1>1. ASSUME IInv PROVE PointerSound
    <2> USE <1>1 DEF IInv, PublicationInv
    <2>1. PointerComplete
      <3>1. ASSUME pointer # Unwritten PROVE PointerComplete
        <4>1. PICK d \in CompleteDocument : InForce(d) /\ pointer = Named(d)
          BY <3>1 DEF PointerNames
        <4>2. d \in KnowledgeBase
          BY CompleteIsDocument
        <4>3. ReadAt(snapshots, SnapshotPath(d)) = d /\ ReadAt(catalogs, SnapshotPath(d)) = CatalogOf(d)
          BY <4>1, <4>2, AtManifest, AtCatalog DEF InForce
        <4>4. d # Unwritten /\ CatalogOf(d) # Unwritten
          BY <4>2, NoneIsNoValue
        <4> QED
          BY <4>1, <4>3, <4>4 DEF PointerComplete, Named, CatalogOf, CompleteDocument
      <3> QED
        BY <3>1 DEF PointerComplete
    <2>2. ReaderSeesOneSnapshot
      <3>1. ASSUME reader.at = "done" PROVE ReaderSeesOneSnapshot
        <4>1. PICK d \in CompleteDocument :
                reader.began = d /\ reader.catalog = CatalogOf(d) /\ reader.manifest = d
          BY <3>1 DEF ReaderFollows
        <4>2. d # Unwritten /\ CatalogOf(d) # Unwritten
          BY CompleteIsDocument, NoneIsNoValue
        <4> QED
          BY <4>1, <4>2 DEF ReaderSeesOneSnapshot, CatalogOf
      <3> QED
        BY <3>1 DEF ReaderSeesOneSnapshot
    <2>3. ReturnsClean
      <3>1. ASSUME progress = "returned" PROVE ReturnsClean
        <4>1. temps = {} /\ knowledge[command.run].doc = command.doc
              /\ (knowledge[command.run].active <=> pointer = Named(command.doc)) /\ command.doc \in KnowledgeBase
          BY <3>1 DEF Leftovers, Finalization, Finalizers, Replacing
        <4>2. pointer = Named(command.doc) <=> VisibleGeneration = command.doc
          <5>1. ASSUME pointer = Named(command.doc) PROVE VisibleGeneration = command.doc
            <6>1. PICK d \in CompleteDocument : pointer = Named(d)
              BY <4>1, <5>1, NoneIsNoValue DEF PointerNames
            <6>2. d = command.doc
              BY <4>1, <5>1, <6>1, CompleteIsDocument, PathsDiffer
            <6> QED
              BY <6>1, <6>2, VisibleIs
          <5>2. ASSUME VisibleGeneration = command.doc PROVE pointer = Named(command.doc)
            BY <4>1, <5>2, VisibleIs, NoneIsNoValue
          <5> QED
            BY <5>1, <5>2
        <4> QED
          BY <4>1, <4>2 DEF ReturnsClean
      <3> QED
        BY <3>1 DEF ReturnsClean
    <2> QED
      BY <2>1, <2>2, <2>3 DEF PointerSound
  <1> QED
    BY <1>1, Invariance, PTL

-----------------------------------------------------------------------------
\* Only the replacement of the pointer moves it, and the files only grow.
LEMMA PointerMoves ==
  ASSUME IInv, [PointerNext]_publicationVars
  PROVE  /\ pointer' # pointer => ReplacePointer
         /\ snapshots \subseteq snapshots'
  <1> USE DEF pointerVars
  <1>1. CASE UNCHANGED publicationVars
    BY <1>1 DEF publicationVars
  <1>2. CASE Walking
    BY <1>2 DEF Walking, StartWalk, Hit, ReserveAttempt, WorkAttempt, WorkError, Settle, InterruptWalk, SaveStatus,
                SaveIndex, InvalidateAttempt
  <1>3. CASE Finalizing
    <2>1. CASE ReplaceManifest
      <3>1. command.doc \in KnowledgeBase
        BY <2>1 DEF ReplaceManifest, IInv, PublicationInv, Finalization, Finalizers, Activating, Replacing
      <3> QED
        BY <2>1, <3>1, PutManifest DEF ReplaceManifest, IInv, PublicationInv
    <2>2. CASE ReplacePointer
      BY <2>2 DEF ReplacePointer
    <2>3. ASSUME \/ \E r \in RunId : AssembleRun(r)
                 \/ SaveKnowledge \/ WriteManifestTemp \/ WriteCatalogTemp \/ ReplaceCatalog
                 \/ WritePointerTemp \/ SealKnowledge \/ EndFinalization
          PROVE  UNCHANGED <<snapshots, pointer>>
      BY <2>3 DEF AssembleRun, SaveKnowledge, WriteTemp, WriteManifestTemp, WriteCatalogTemp,
                  ReplaceCatalog, WritePointerTemp, SealKnowledge, EndFinalization
    <2> QED
      BY <1>3, <2>1, <2>2, <2>3 DEF Finalizing
  <1>4. CASE Reading
    BY <1>4 DEF Reading, ReadPointer, ReadCatalog, ReadManifest
  <1>5. CASE CommandDies \/ \E a \in Attempts : DamageFiles(a)
    BY <1>5 DEF CommandDies, DamageFiles
  <1> QED
    BY <1>1, <1>2, <1>3, <1>4, <1>5 DEF PointerNext

\* What the pointer is about to name.
LEMMA ReplacedPointer ==
  ASSUME IInv, ReplacePointer
  PROVE  /\ pointer' = Named(command.doc)
         /\ command.doc \in KnowledgeBase /\ Backed(command.doc)
         /\ ManifestEntry(command.doc) \in snapshots
  <1>1. command.doc.status = "succeeded" /\ command.doc.run = command.run /\ command.doc \in KnowledgeBase
        /\ Backed(command.doc) /\ ManifestEntry(command.doc) \in snapshots
    BY DEF ReplacePointer, IInv, PublicationInv, Finalization, Finalizers, Activating, Replacing
  <1> QED
    BY <1>1 DEF ReplacePointer, Named

\* The pointer moves only to a generation each of whose results is indexed and
\* validates at that moment.
THEOREM EvidencedActivation == PointerSpec => ActivatesEvidence
  <1>1. ASSUME IInv, [PointerNext]_publicationVars
        PROVE  [pointer' # pointer =>
                  \A s \in StageNumbers :
                    LET row == ReadAt(snapshots, pointer'.path).rows[s]
                    IN row.outcome = "produced" => row.attempt \in index /\ Validates(row.attempt)]_publicationVars
    <2>1. CASE pointer' # pointer
      <3>1. ReplacePointer
        BY <1>1, <2>1, PointerMoves
      <3>2. ReadAt(snapshots, pointer'.path) = command.doc /\ Backed(command.doc)
        BY <1>1, <3>1, ReplacedPointer, AtManifest DEF IInv, PublicationInv, Named
      <3> QED
        BY <3>2 DEF Backed
    <2> QED
      BY <2>1
  <1> QED
    BY <1>1, Invariance, PTL DEF PointerSpec, ActivatesEvidence

\* Its six writes, interleaved with readers and cut short by deaths, are for a
\* reader one step from a complete generation to the next.
THEOREM ActivationIsAtomic == PointerSpec => ActivatesAtOnce
  <1>1. PointerInit => VisibleGeneration = Unwritten
    BY DEF PointerInit, VisibleGeneration
  <1>2. ASSUME IInv, IInv', [PointerNext]_publicationVars
        PROVE  VisibleGeneration' \in CompleteDocument \/ UNCHANGED VisibleGeneration
    <2>0. EntriesFollow /\ PointerNames /\ EntriesFollow' /\ PointerNames'
      BY <1>2 DEF IInv, PublicationInv
    <2>1. CASE pointer' # pointer
      <3>1. ReplacePointer
        BY <1>2, <2>1, PointerMoves
      <3>2. pointer' = Named(command.doc) /\ command.doc \in KnowledgeBase /\ Backed(command.doc)
            /\ ManifestEntry(command.doc) \in snapshots
        BY <1>2, <3>1, ReplacedPointer
      <3>3. snapshots' = snapshots
        BY <3>1 DEF ReplacePointer
      <3>4. ReadAt(snapshots, SnapshotPath(command.doc)) = command.doc
        BY <2>0, <3>2, AtManifest
      <3>5. pointer' # Unwritten /\ pointer'.path = SnapshotPath(command.doc)
        BY <3>2, NoneIsNoValue DEF Named
      <3>6. VisibleGeneration' = command.doc
        BY <3>3, <3>4, <3>5 DEF VisibleGeneration, ReadAt
      <3> QED
        BY <3>2, <3>6 DEF Backed
    <2>2. CASE pointer' = pointer
      <3>1. CASE pointer = Unwritten
        BY <2>2, <3>1 DEF VisibleGeneration
      <3>2. CASE pointer # Unwritten
        <4>1. PICK d \in CompleteDocument : InForce(d) /\ pointer = Named(d)
          BY <2>0, <3>2 DEF PointerNames
        <4>2. d \in KnowledgeBase /\ ManifestEntry(d) \in snapshots'
          BY <1>2, <4>1, CompleteIsDocument, PointerMoves DEF InForce
        <4>3. ReadAt(snapshots, SnapshotPath(d)) = d
          BY <2>0, <4>1, <4>2, AtManifest DEF InForce
        <4>4. \A e \in snapshots' : e.path = SnapshotPath(d) => e.doc = d
          BY <2>0, <4>2, PathsDiffer DEF EntriesFollow, ManifestEntry
        <4>5. ReadAt(snapshots', SnapshotPath(d)) = d
          BY <4>2, <4>4 DEF ReadAt, ManifestEntry
        <4> QED
          BY <2>2, <3>2, <4>1, <4>3, <4>5 DEF VisibleGeneration, Named
      <3> QED
        BY <3>1, <3>2
    <2> QED
      BY <2>1, <2>2
  <1> QED
    BY <1>1, <1>2, Invariance, PTL DEF PointerSpec, ActivatesAtOnce, Activation!Spec, Activation!Init, Activation!Next

=============================================================================
