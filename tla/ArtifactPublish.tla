--------------------------- MODULE ArtifactPublish ---------------------------
(***************************************************************************)
(* What a stage worker leaves on disk.  It first writes the snapshot of    *)
(* its rows (SnapshotPublisher): batches in a scratch directory, whose     *)
(* roots are moved to their final places one by one, the manifest root     *)
(* last.  publish_attempt then writes the files of the attempt, one of     *)
(* which refers to the snapshot: all of them under temporary names,        *)
(* renamed one by one, the attempt's manifest last.  A step may fail, and  *)
(* the process may die after any step.                                     *)
(***************************************************************************)
EXTENDS Naturals, FiniteSets

CONSTANTS
  Attempts,    \* attempt directories, each with the snapshot its worker makes
  RootKinds,   \* the roots of a snapshot beside its manifest root
  Names,       \* the payload files of an attempt
  Manifest     \* manifest.json of an attempt

ASSUME ArtifactAssumption == Names # {} /\ Manifest \notin Names

VARIABLES
  work,        \* work[a]: where the worker of attempt a is
  scratch,     \* scratch[a]: the staging directory of its snapshot
  moved,       \* moved[a]: the kinds moved to their final places
  sealed,      \* the attempts whose snapshot manifest is in its final place
  temp,        \* temp[a][n]: the temporary file of n
  file         \* file[a]: the files that have their final names

artifactVars == <<work, scratch, moved, sealed, temp, file>>

Siblings == Names \cup {Manifest}

ArtifactTypeOK ==
  /\ work \in [Attempts -> {"unused", "snapshot", "aborting", "files", "published", "failed", "dead"}]
  /\ scratch \in [Attempts -> {"none", "open", "filled", "summarized"}]
  /\ moved \in [Attempts -> SUBSET RootKinds]
  /\ sealed \in SUBSET Attempts
  /\ temp \in [Attempts -> [Siblings -> {"absent", "torn", "whole"}]]
  /\ file \in [Attempts -> SUBSET Siblings]

ArtifactInit ==
  /\ work = [a \in Attempts |-> "unused"]
  /\ scratch = [a \in Attempts |-> "none"]
  /\ moved = [a \in Attempts |-> {}]
  /\ sealed = {}
  /\ temp = [a \in Attempts |-> [n \in Siblings |-> "absent"]]
  /\ file = [a \in Attempts |-> {}]

-----------------------------------------------------------------------------
(* The snapshot. *)

OpenScratch(a) ==
  /\ work[a] = "unused"
  /\ work' = [work EXCEPT ![a] = "snapshot"]
  /\ scratch' = [scratch EXCEPT ![a] = "open"]
  /\ UNCHANGED <<moved, sealed, temp, file>>

\* The batches are written and checked, and their checksums recorded.
Fill(a) ==
  /\ work[a] = "snapshot" /\ scratch[a] = "open"
  /\ scratch' = [scratch EXCEPT ![a] = "filled"]
  /\ UNCHANGED <<work, moved, sealed, temp, file>>

MoveDirectory(a, k) ==
  /\ work[a] = "snapshot" /\ scratch[a] = "filled"
  /\ k \notin moved[a]
  /\ moved' = [moved EXCEPT ![a] = @ \cup {k}]
  /\ UNCHANGED <<work, scratch, sealed, temp, file>>

Summarizable(a) == moved[a] = RootKinds

Summarize(a) ==
  /\ work[a] = "snapshot" /\ scratch[a] = "filled"
  /\ Summarizable(a)
  /\ scratch' = [scratch EXCEPT ![a] = "summarized"]
  /\ UNCHANGED <<work, moved, sealed, temp, file>>

\* The staging directory itself becomes the manifest root.
Seal(a) ==
  /\ work[a] = "snapshot" /\ scratch[a] = "summarized"
  /\ scratch' = [scratch EXCEPT ![a] = "none"]
  /\ sealed' = sealed \cup {a}
  /\ work' = [work EXCEPT ![a] = "files"]
  /\ UNCHANGED <<moved, temp, file>>

-----------------------------------------------------------------------------
(* abort_publication, after a step of the snapshot failed. *)

FailSnapshot(a) ==
  /\ work[a] = "snapshot"
  /\ work' = [work EXCEPT ![a] = "aborting"]
  /\ UNCHANGED <<scratch, moved, sealed, temp, file>>

RemoveScratch(a) ==
  /\ work[a] = "aborting" /\ scratch[a] # "none"
  /\ scratch' = [scratch EXCEPT ![a] = "none"]
  /\ UNCHANGED <<work, moved, sealed, temp, file>>

RemoveRoot(a, k) ==
  /\ work[a] = "aborting" /\ scratch[a] = "none"
  /\ k \in moved[a]
  /\ moved' = [moved EXCEPT ![a] = @ \ {k}]
  /\ UNCHANGED <<work, scratch, sealed, temp, file>>

\* The roots that abort removes: those that were moved.
Unwound(a) == moved[a] = {}

Aborted(a) ==
  /\ work[a] = "aborting" /\ scratch[a] = "none"
  /\ Unwound(a)
  /\ work' = [work EXCEPT ![a] = "failed"]
  /\ UNCHANGED <<scratch, moved, sealed, temp, file>>

-----------------------------------------------------------------------------
(* The files of the attempt. *)

\* The temporary manifest is written after the temporary payloads.
OpenTemp(a, n) ==
  /\ work[a] = "files" /\ n \notin file[a]
  /\ temp[a][n] = "absent"
  /\ n = Manifest => \A m \in Names : temp[a][m] = "whole"
  /\ temp' = [temp EXCEPT ![a][n] = "torn"]
  /\ UNCHANGED <<work, scratch, moved, sealed, file>>

SyncTemp(a, n) ==
  /\ work[a] = "files" /\ temp[a][n] = "torn"
  /\ temp' = [temp EXCEPT ![a][n] = "whole"]
  /\ UNCHANGED <<work, scratch, moved, sealed, file>>

RenamableAny(a, n) == temp[a][Manifest] = "whole"

\* The payloads are renamed once everything is written, the manifest last.
Renamable(a, n) ==
  IF n = Manifest THEN Names \subseteq file[a] ELSE temp[a][Manifest] = "whole"

Rename(a, n) ==
  /\ work[a] = "files" /\ temp[a][n] = "whole"
  /\ Renamable(a, n)
  /\ temp' = [temp EXCEPT ![a][n] = "absent"]
  /\ file' = [file EXCEPT ![a] = @ \cup {n}]
  /\ work' = IF n = Manifest THEN [work EXCEPT ![a] = "published"] ELSE work
  /\ UNCHANGED <<scratch, moved, sealed>>

\* A write or rename fails; nothing is cleaned up.
FailFiles(a) ==
  /\ work[a] = "files"
  /\ work' = [work EXCEPT ![a] = "failed"]
  /\ UNCHANGED <<scratch, moved, sealed, temp, file>>

WorkStep(a) ==
  \/ Fill(a) \/ Summarize(a) \/ Seal(a)
  \/ RemoveScratch(a) \/ Aborted(a)
  \/ \E k \in RootKinds : MoveDirectory(a, k) \/ RemoveRoot(a, k)
  \/ \E n \in Siblings : OpenTemp(a, n) \/ SyncTemp(a, n) \/ Rename(a, n)

WorkFails(a) == FailSnapshot(a) \/ FailFiles(a)

\* The process of the worker dies.
WorkDies(a) ==
  /\ work' = [work EXCEPT ![a] = IF @ \in {"published", "failed"} THEN @ ELSE "dead"]
  /\ UNCHANGED <<scratch, moved, sealed, temp, file>>

-----------------------------------------------------------------------------
(* validate_attempt: the manifest names what is there, and nothing else is. *)
Registered(a) == Manifest \in file[a] /\ Names \subseteq file[a]
NoExtra(a) == \A n \in Siblings : temp[a][n] = "absent"

\* validate_snapshot_manifest: every file of every root.
SnapshotValid(a) == a \in sealed /\ moved[a] = RootKinds

Validates(a) == Registered(a) /\ NoExtra(a) /\ SnapshotValid(a)

=============================================================================
