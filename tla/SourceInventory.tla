--------------------------- MODULE SourceInventory --------------------------
(***************************************************************************)
(* The inventory of the sources (pipeline/inventory): the scans of one run *)
(* over files that change, and the members of the archives among them.     *)
(***************************************************************************)
EXTENDS Calls, Integers, SequencesExt

-----------------------------------------------------------------------------
(***************************************************************************)
(* The inventory stage of one run (pipeline/inventory): it walks the       *)
(* source files, hashes them and keeps what it read in a checkpoint, one   *)
(* transaction per file, so that a later scan of the run reads again only  *)
(* what it must.  The files may change under it at any moment.  A file is  *)
(* known by its version: the signature of its metadata (with ctime), which *)
(* no later state of the path repeats, stands for its content too.         *)
(***************************************************************************)

CONSTANTS Path,             \* paths of the source set
          MaxEdits,         \* bound: changes of the files
          MaxScans          \* bound: scans of the run

VARIABLE source

Absent == 0
Bad == -1           \* the row of a quarantined file
Retry == 0          \* the stamp "retry", which no signature equals
NoFiles == [p \in Path |-> Absent]

\* files and edits belong to the world; frozen to the run; stamp, epoch and
\* row are the checkpoint; the rest is the scan: the metadata seen before and
\* after it, the paths it has still to visit, the file it reads, and the paths
\* whose read failed in it.
NoSource == [files |-> NoFiles, edits |-> 0, frozen |-> NoFiles, scans |-> 0,
             stamp |-> NoFiles, epoch |-> NoFiles, row |-> NoFiles,
             pc |-> "idle", before |-> NoFiles, after |-> NoFiles, todo |-> {},
             reading |-> "none", entry |-> Absent, hashed |-> Absent, failed |-> {}, published |-> FALSE]

SourceInit == source = NoSource

\* The run is created over some files, and freezes their metadata.
AskInventory(files) ==
  /\ call = Ready /\ call' = [op |-> "inventory"]
  /\ source' = [source EXCEPT !.files = files, !.frozen = files, !.pc = "stopped"]

Running == call.op = "inventory" /\ UNCHANGED call

\* A file is written, created or removed.
Edit ==
  /\ Running /\ source.edits < MaxEdits
  /\ \E p \in Path, kept \in BOOLEAN :
       /\ kept \/ source.files[p] # Absent
       /\ source' = [source EXCEPT !.edits = @ + 1,
                       !.files[p] = IF kept THEN source.edits + 2 ELSE Absent]

\* The checkpoint is opened: a new epoch.
BeginScan ==
  /\ Running /\ source.pc = "stopped" /\ source.scans < MaxScans
  /\ source' = [source EXCEPT !.pc = "before", !.scans = @ + 1, !.todo = Path, !.failed = {},
                  !.published = FALSE, !.reading = "none", !.hashed = Absent,
                  !.before = NoFiles, !.after = NoFiles]

\* One entry of a walk of inventory_snapshot.
Snapshot ==
  /\ Running /\ source.pc \in {"before", "after"}
  /\ \E p \in source.todo :
       source' = IF source.pc = "before"
                 THEN [source EXCEPT !.todo = @ \ {p}, !.before[p] = source.files[p]]
                 ELSE [source EXCEPT !.todo = @ \ {p}, !.after[p] = source.files[p]]

\* "inventory differs from the frozen source set".
BeginWalk ==
  /\ Running /\ source.pc = "before" /\ source.todo = {}
  /\ source' = IF source.before = source.frozen
               THEN [source EXCEPT !.pc = "walk", !.todo = Path]
               ELSE [source EXCEPT !.pc = "stopped"]

\* _file: the stamp of the last completed read is the signature of the entry.
Keeps(p) == source.stamp[p] = source.files[p]

Visit ==
  /\ Running /\ source.pc = "walk" /\ source.reading = "none"
  /\ \E p \in source.todo :
       source' = IF source.files[p] = Absent THEN [source EXCEPT !.todo = @ \ {p}]
                 ELSE IF Keeps(p) THEN [source EXCEPT !.todo = @ \ {p}, !.epoch[p] = source.scans]
                 ELSE [source EXCEPT !.reading = p, !.entry = source.files[p], !.hashed = Absent]

\* The transaction of a file; it is visited in this epoch.
Record(p, row, stamp) ==
  [source EXCEPT !.row[p] = row, !.stamp[p] = stamp, !.epoch[p] = source.scans,
                 !.reading = "none", !.hashed = Absent, !.todo = @ \ {p}]

\* The except clause of _file: "Failed reads must be retried even when
\* filesystem metadata is unchanged."
Quarantine(p) == [Record(p, Bad, Retry) EXCEPT !.failed = @ \cup {p}]

\* observe opens the file and hashes what it holds now; opening or reading may fail.
Hash ==
  /\ Running /\ source.reading # "none" /\ source.hashed = Absent
  /\ \/ source' = Quarantine(source.reading)
     \/ /\ source.files[source.reading] = source.entry
        /\ source' = [source EXCEPT !.hashed = source.files[source.reading]]

\* The last checks of observe, then the commit.
Commit ==
  /\ Running /\ source.hashed # Absent
  /\ LET p == source.reading
     IN  source' = IF source.files[p] = source.entry THEN Record(p, source.hashed, source.entry)
                   ELSE Quarantine(p)

\* The end of scan: what this epoch did not see is deleted.
DropVanished ==
  LET seen == {p \in Path : source.epoch[p] = source.scans}
  IN  [source EXCEPT !.pc = "after", !.todo = Path,
                     !.row = [p \in Path |-> IF p \in seen THEN @[p] ELSE Absent],
                     !.stamp = [p \in Path |-> IF p \in seen THEN @[p] ELSE Absent]]

EndWalk ==
  /\ Running /\ source.pc = "walk" /\ source.todo = {} /\ source' = DropVanished

\* Mutant: the metadata is not looked at again.
AnyAfter == TRUE

\* "inventory source set changed during scan".
Unchanged == source.after = source.before

EndScan ==
  /\ Running /\ source.pc = "after" /\ source.todo = {}
  /\ source' = [source EXCEPT !.pc = "stopped", !.published = Unchanged]

\* The process ends; the transaction it was in is rolled back.
CrashScan == Running /\ source.pc # "stopped" /\ source' = [source EXCEPT !.pc = "stopped", !.reading = "none", !.hashed = Absent]

EndInventory ==
  /\ call.op = "inventory" /\ source.pc = "stopped" /\ call' = Ready
  /\ source' = NoSource

SourceNext ==
  \/ \E files \in [Path -> {Absent, 1}] : AskInventory(files)
  \/ Edit \/ BeginScan \/ Snapshot \/ BeginWalk \/ Visit \/ Hash \/ Commit \/ EndWalk
  \/ EndScan \/ CrashScan \/ EndInventory

-----------------------------------------------------------------------------
(* Properties, of a scan that was published.                               *)

\* However the files change and wherever earlier scans of the run crashed, what
\* a scan publishes of every file of the frozen source set is its content of
\* then, unless reading it failed.  (A file that is created after the first look
\* at the metadata and removed before the last one is not noticed.)
PublishedIsFrozen ==
  source.published =>
    \A p \in Path : source.frozen[p] # Absent => source.row[p] \in {source.frozen[p], Bad}

\* A file is quarantined only if this very scan could not read it: an earlier
\* failure is never reused.
FailuresAreRetried ==
  source.published => {p \in Path : source.row[p] = Bad} \subseteq source.failed

-----------------------------------------------------------------------------
(***************************************************************************)
(* The members of the archives of a silo (pipeline/inventory/archives):   *)
(* ZIP and TAR files, and the archives in them, read within one budget     *)
(* that all descendants of a physical file share.  A container is what its *)
(* reader meets in it: a sequence of entries, and whether the reader       *)
(* breaks after them.  Of an entry's body only its length is kept.         *)
(***************************************************************************)

CONSTANTS ArchiveMembers,     \* archive_members
          MemberBytes,        \* member_bytes
          ExpandedBytes,      \* expanded_bytes
          ArchiveDepth        \* archive_depth
ASSUME ArchiveAssumption == {ArchiveMembers, MemberBytes, ExpandedBytes, ArchiveDepth} \subseteq Nat

\* An address is the sequence of the indices of the entries that lead to it;
\* the last of a refused container's row is "!policy".
Policy == 0
\* rows are told, read are the bytes of each member that was; failed: an
\* error is on its way out of the container.
Walked == [members |-> 0, expanded |-> 0, rows |-> << >>, read |-> 0, failed |-> FALSE]
Yield(w, at, status) == [w EXCEPT !.rows = Append(@, [at |-> at, status |-> status])]
BreakOff(w) == [w EXCEPT !.failed = TRUE]

\* _reserve: what an entry declares must fit before it is looked at.
Reserve(w, declared) ==
  LET counted == [w EXCEPT !.members = @ + 1]
  IN  IF \/ counted.members > ArchiveMembers \/ declared > MemberBytes
         \/ counted.expanded + declared > ExpandedBytes
      THEN BreakOff(counted) ELSE counted

\* The loop of _read_member: what the reader delivers is counted, and must be
\* what was declared.  No reader delivers more than that.
ReadBody(w, entry) ==
  LET counted == [w EXCEPT !.expanded = @ + entry.actual, !.read = @ + entry.actual]
  IN  IF \/ entry.actual > MemberBytes \/ counted.expanded > ExpandedBytes
         \/ entry.actual # entry.declared
      THEN BreakOff(counted) ELSE counted


\* "budget or Budget()": the budget comes down from the physical file.
Shared(w) == w
\* The except clause of members: the container's own row; its parent goes on.
Refuse(w, at) == [Yield(w, Append(at, Policy), "quarantined") EXCEPT !.failed = FALSE]

\* _zip, _tar, _read_member and members.  A ZIP directory with too many entries
\* is refused at once (_zip_guard); a directory entry only counts; what is
\* encrypted, a link, unsafe, or of a ratio or method that is refused is told
\* unread; the body of an archive is entered once it was measured.
RECURSIVE MembersOf(_, _, _)
ReadEntry(w, entry, at) ==
  LET reserved == Reserve(w, entry.declared)
      body == ReadBody(reserved, entry)
  IN  IF w.failed THEN w
      ELSE IF reserved.failed THEN reserved
      ELSE IF entry.is = "dir" THEN reserved
      ELSE IF entry.is = "refused" THEN Yield(reserved, at, "quarantined")
      ELSE IF body.failed THEN body
      ELSE IF entry.inside.kind = "none" THEN Yield(body, at, "ready")
      ELSE MembersOf(entry.inside, at, Yield(body, at, "ready"))
ReadEntries(container, at, w) ==
  IF container.kind = "zip" /\ Len(container.entries) > ArchiveMembers THEN BreakOff(w)
  ELSE LET done == FoldLeft(LAMBDA v, k : ReadEntry(v, container.entries[k], Append(at, k)), w,
                            [k \in DOMAIN container.entries |-> k])
       IN  IF container.breaks THEN BreakOff(done) ELSE done
MembersOf(container, at, w) ==
  IF Len(at) >= ArchiveDepth THEN Yield(w, Append(at, Policy), "quarantined")
  ELSE LET done == ReadEntries(container, at, Shared(w))
       IN  IF done.failed THEN Refuse(done, at) ELSE done

AskMembers(container) ==
  Ask([op |-> "members", container |-> container, walked |-> MembersOf(container, << >>, Walked)])

-----------------------------------------------------------------------------
(* However archives are nested in each other and whatever they declare, no *)
(* more bytes are expanded from one file than the policy allows, and no    *)
(* more entries are looked at than it allows, plus the one over it of each *)
(* container that is refused.                                              *)
ExpansionIsBounded ==
  call.op = "members" =>
    /\ call.walked.read <= ExpandedBytes
    /\ LET told == SelectSeq(call.walked.rows, LAMBDA row : Last(row.at) # Policy)
       IN  Len(told) <= ArchiveMembers

(* Every entry but a directory has one row, or a container that it is in is*)
(* told as refused; no row is told twice, even of entries of one name; and *)
(* a row is ready only if the body is as long as declared and safe to read.*)
RECURSIVE EntriesWithin(_, _)
EntriesWithin(container, at) ==
  UNION {{[at |-> Append(at, k), entry |-> container.entries[k]]}
         \cup (IF container.entries[k].inside.kind = "none" \/ container.entries[k].is # "file" THEN {}
               ELSE EntriesWithin(container.entries[k].inside, Append(at, k))) : k \in DOMAIN container.entries}
EveryEntryIsTold ==
  call.op = "members" =>
    LET rows == call.walked.rows
        told == {row.at : row \in ToSet(rows)}
        all == EntriesWithin(call.container, << >>)
        refused(at) == \E n \in 0 .. Len(at) : Append(SubSeq(at, 1, n), Policy) \in told
    IN  /\ \A x \in all : x.entry.is # "dir" => x.at \in told \/ refused(x.at)
        /\ \A j, k \in DOMAIN rows : j # k => rows[j].at # rows[k].at
        /\ \A row \in ToSet(rows) : row.status = "ready" =>
             \E x \in all : x.at = row.at /\ x.entry.is = "file" /\ x.entry.actual = x.entry.declared
        /\ \A row \in ToSet(rows) : Last(row.at) # Policy => row.at \in {x.at : x \in all}
=============================================================================
