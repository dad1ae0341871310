------------------------------- MODULE Upkeep -------------------------------
(***************************************************************************)
(* What maintenance may take away (pipeline/reconcile, pipeline/prune):    *)
(* the update after sources changed, and the protections of a prune.       *)
(***************************************************************************)
EXTENDS Calls, FiniteSetsExt, Integers, SequencesExt

-----------------------------------------------------------------------------
(***************************************************************************)
(* What an update makes of two scans of the source silos                   *)
(* (pipeline/reconcile: scan, diff, closure, views, commands): the events, *)
(* the tombstones, the shards to invalidate and the active view.  A scan   *)
(* of a silo is whether its root could be read and what was seen at each   *)
(* path: a content hash, "absent" or "unreadable".  Keys <<silo, path>>    *)
(* are ordered like the path keys of the code.  Reviewed rows are left out:*)
(* the rows of an update come from occurrences, which no one has reviewed. *)
(***************************************************************************)

Contents(silo) == {silo.seen[p] : p \in DOMAIN silo.seen} \ {"absent"}

\* _scan_one, scan_silos.
Complete(silo) == silo.readable /\ "unreadable" \notin Contents(silo)
Comparable(m) == \A s \in DOMAIN m : Complete(m[s])

\* SourceManifest.occurrence_map: what can be read, by key.
Keys(m) == {k \in UNION {{s} \X DOMAIN m[s].seen : s \in DOMAIN m} :
              m[k[1]].seen[k[2]] \notin {"absent", "unreadable"}}
Content(m, k) == m[k[1]].seen[k[2]]
Hashes(m) == {Content(m, k) : k \in Keys(m)}

\* Both scans complete, in this silo and, as the code has it, in all of them.
Observable(previous, current) ==
  IF Comparable(previous) /\ Comparable(current)
  THEN {s \in DOMAIN current : Complete(previous[s]) /\ Complete(current[s])}
  ELSE {}

-----------------------------------------------------------------------------
(* diff_manifests and tombstones_for.                                      *)

Before(j, k) == j[1] < k[1] \/ (j[1] = k[1] /\ j[2] < k[2])

\* How many keys of S with the content and silo of k come before it in m.
Rank(S, m, k) ==
  Cardinality({j \in S : j[1] = k[1] /\ Content(m, j) = Content(m, k) /\ Before(j, k)})

\* _pair_renames: within a silo, the first addition of a content takes its
\* first removal, and so on.
Pairs(previous, current, removed, added) ==
  {pair \in removed \X added :
     LET r == pair[1]
         a == pair[2]
     IN  /\ r[1] = a[1] /\ Content(previous, r) = Content(current, a)
         /\ Rank(removed, previous, r) = Rank(added, current, a)}

Removed(previous, current) ==
  {k \in Keys(previous) \ Keys(current) : k[1] \in Observable(previous, current)}

Diff(previous, current) ==
  LET removed == Removed(previous, current)
      added == Keys(current) \ Keys(previous)
      renamed == Pairs(previous, current, removed, added)
  IN  [add |-> added \ {pair[2] : pair \in renamed},
       change |-> {k \in Keys(previous) \cap Keys(current) :
                     Content(previous, k) # Content(current, k)},
       rename |-> renamed,
       remove |-> removed \ {pair[1] : pair \in renamed},
       withheld |-> (Keys(previous) \ Keys(current)) \ removed]

\* A tombstone is the key and content that went, and whether it was the last.
Tombstones(previous, current, delta) ==
  {[key |-> k, content |-> Content(previous, k),
    last |-> Content(previous, k) \notin Hashes(current)] : k \in delta.remove}

\* Mutant: overwriting a path loses nothing.
RootsOfRemovals(previous, current, delta) ==
  {Content(previous, k) : k \in delta.remove} \ Hashes(current)

\* _invalidation_roots.
Roots(previous, current, delta) ==
  {Content(previous, k) : k \in delta.change}
  \cup ({Content(previous, k) : k \in delta.remove} \ Hashes(current))

-----------------------------------------------------------------------------
(* The active view: rows are sets of keys by content.                      *)

View(m) == [h \in Hashes(m) |-> {k \in Keys(m) : Content(m, k) = h}]

\* What the tombstones leave of the paths of a row: the last path goes only
\* with the row, and the row only with the last occurrence.
Paths(rows, tombs, h) ==
  LET gone == {t.key : t \in {u \in tombs : u.content = h}}
  IN  IF rows[h] \subseteq gone
      THEN {k \in gone : \A j \in gone : ~Before(k, j)} ELSE rows[h] \ gone

Retracted(rows, tombs) ==
  {h \in DOMAIN rows : \E t \in tombs :
     t.content = h /\ t.last /\ rows[h] \subseteq {u.key : u \in {v \in tombs : v.content = h}}}

FullyObserved(keys, observable) == \A k \in keys : k[1] \in observable

\* _active_view: rows that are retracted, or that nothing supports any more
\* where everything was seen, go; the others stay and new contents come.
ActiveContents(previous, current, tombs) ==
  LET rows == View(previous)
      retracted == Retracted(rows, tombs)
      kept == {h \in DOMAIN rows \ retracted :
                 h \in Hashes(current)
                 \/ ~FullyObserved(Paths(rows, tombs, h), Observable(previous, current))}
      dropped == DOMAIN rows \ kept
  IN  kept \cup (Hashes(current) \ dropped)

-----------------------------------------------------------------------------

AskUpdate(previous, current) ==
  LET delta == Diff(previous, current)
      tombs == Tombstones(previous, current, delta)
  IN  Ask([op |-> "update", previous |-> previous, current |-> current, delta |-> delta,
           tombstones |-> tombs, roots |-> Roots(previous, current, delta),
           active |-> ActiveContents(previous, current, tombs)])

-----------------------------------------------------------------------------
(* Properties.                                                             *)

\* The events replay the previous occurrences into the current ones: every key
\* is touched by one event at most, and what they leave, apart from what is
\* withheld, is what was scanned.
DeltaReplays ==
  call.op = "update" =>
    LET d == call.delta
        from == {pair[1] : pair \in d.rename}
        to == {pair[2] : pair \in d.rename}
        was == Keys(call.previous)
        is == Keys(call.current)
    IN  /\ (was \ (d.remove \cup from \cup d.withheld)) \cup d.add \cup to = is
        /\ Cardinality(from) = Cardinality(d.rename) /\ Cardinality(to) = Cardinality(d.rename)
        /\ d.add \cap to = {} /\ d.remove \cap from = {} /\ d.change \subseteq was \cap is
        /\ \A k \in (was \cap is) \ d.change :
             Content(call.previous, k) = Content(call.current, k)

\* A tombstone needs evidence: no silo of either scan was incomplete, so what a
\* failing mount hides is never removed, and it says "last" exactly when no
\* readable occurrence of the content is left anywhere.
TombstonesAreEvidence ==
  call.op = "update" =>
    \A t \in call.tombstones :
      /\ Comparable(call.previous) /\ Comparable(call.current)
      /\ t.key \notin Keys(call.current)
      /\ t.last <=> \A k \in Keys(call.current) : Content(call.current, k) # t.content

\* The active view loses no content an incomplete scan could not see, has every
\* content that was seen, and after complete scans no other.
ViewFollowsSources ==
  call.op = "update" =>
    /\ Hashes(call.current) \subseteq call.active
    /\ IF Comparable(call.previous) /\ Comparable(call.current)
       THEN call.active = Hashes(call.current)
       ELSE Hashes(call.previous) \subseteq call.active

\* Content that is gone for good invalidates its shard, whether its last path
\* was removed or overwritten; renamed and untouched content never does.
LostContentInvalidates ==
  call.op = "update" /\ Comparable(call.previous) /\ Comparable(call.current) =>
    /\ Hashes(call.previous) \ Hashes(call.current) \subseteq call.roots
    /\ \A h \in call.roots : \E k \in Keys(call.previous) :
         Content(call.previous, k) = h
         /\ (k \in Keys(call.current) => Content(call.current, k) # h)

-----------------------------------------------------------------------------
(***************************************************************************)
(* What a prune may not delete (pipeline/prune/protect and apply).  A plan *)
(* is made over the stale entries and applied later: protections may have  *)
(* been set or lifted meanwhile.  A path is a sequence of names; none of   *)
(* those above RUNS_DIR begins with "run-", which _run_id relies on.        *)
(* Within RUNS_DIR it begins with the run; "outside" stands for elsewhere. *)
(***************************************************************************)

Intersects(path, base) == IsPrefix(base, path) \/ IsPrefix(path, base)
MeetsAny(path, bases) == \E base \in bases : Intersects(path, base)

\* _protection_kind, by the run of the directory, the directory as the entry
\* names it and as it resolves.  (That a marker is looked for by the name, too,
\* finds nothing: the markers are paths and the name is a string.)
RunOf(path) == path[1]
ProtectionKind(entry, marks) ==
  CASE marks.active # "none" /\ RunOf(entry.named) = marks.active -> "active"
    [] entry.at \in marks.pinned -> "pinned"
    [] MeetsAny(entry.at, marks.reviewed) -> "reviewed"
    [] MeetsAny(entry.at, marks.rollback) -> "rollback"
    [] MeetsAny(entry.at, marks.ledgers) -> "ledger"
    [] MeetsAny(entry.at, marks.backups) -> "backup"
    [] ~marks.live -> "sole-recovery"
    [] OTHER -> "none"
\* protections takes the first that applies, so the order of the CASE does not
\* matter for what is blocked.
BlockedEntries(entries, marks) == {e \in entries : ProtectionKind(e, marks) # "none"}
Eligible(entries, marks) == {e \in entries : e.named \notin {b.named : b \in BlockedEntries(entries, marks)}}

OutsideRuns(path) == path[1] = "outside"
\* apply_prune_plan: everything is checked before anything is deleted.
\* fingerprint_for the entries that are eligible now must be that of the plan.
ApplyPrune(entries, marks, plan) ==
  LET blocked == {e.named : e \in BlockedEntries(entries, marks)}
      checked == \A e \in plan : e.named \notin blocked /\ e.at \notin blocked /\ ~OutsideRuns(e.at) /\ ~e.links
  IN  IF Eligible(entries, marks) # plan THEN [outcome |-> "stale", deleted |-> {}]
      ELSE IF ~checked THEN [outcome |-> "refused", deleted |-> {}]
      ELSE [outcome |-> "applied", deleted |-> {e.at : e \in plan}]

AskPrune(entries, before, after) ==
  LET plan == Eligible(entries, before)
  IN  Ask([op |-> "prune", entries |-> entries, plan |-> plan, after |-> after, result |-> ApplyPrune(entries, after, plan)])

-----------------------------------------------------------------------------
(* Of what has a protection when the plan is applied nothing is deleted:   *)
(* no directory of the active run, none that is pinned, and none that lies *)
(* in or around reviews, rollback copies, ledgers or backups, and nothing  *)
(* outside RUNS_DIR; and what is deleted is all that the plan listed, or   *)
(* nothing.                                                                *)
NothingProtectedGoes ==
  call.op = "prune" =>
    LET kept == UNION {call.after.reviewed, call.after.rollback, call.after.ledgers, call.after.backups}
        deleted == call.result.deleted
    IN  /\ \A d \in deleted : /\ ~\E base \in kept : IsPrefix(base, d) \/ IsPrefix(d, base)
                              /\ d \notin call.after.pinned /\ ~OutsideRuns(d)
        /\ \A e \in call.entries : e.at \in deleted => e.named[1] # call.after.active /\ call.after.live
        /\ deleted \in {{}, {e.at : e \in call.plan}}

\* What an update takes out of the active view is gone from the sources,
\* whatever could not be read or moved meanwhile, and a prune takes nothing
\* that is protected when it is applied.
UpkeepHolds ==
  /\ DeltaReplays
  /\ TombstonesAreEvidence
  /\ ViewFollowsSources
  /\ LostContentInvalidates
  /\ NothingProtectedGoes
=============================================================================
