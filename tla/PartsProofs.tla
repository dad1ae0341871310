----------------------------- MODULE PartsProofs -----------------------------
(***************************************************************************)
(* Proofs about parts whose inputs MCParts bounds, for all inputs and all  *)
(* bounds: what an update and a prune may take away (Upkeep), and what a   *)
(* command on the roots of a checkout may erase and write and what         *)
(* readiness says of a host (Runtime).                                     *)
(***************************************************************************)
EXTENDS Upkeep, Runtime, FiniteSetTheorems, TLAPS

(***************************************************************************)
(* The client of Upkeep, with scans of any finite number of silos and      *)
(* paths, and prunes of any entries.  Both scans are of the configured     *)
(* silos; a path that one of them did not see is absent there.             *)
(***************************************************************************)
Finite(S) == {T \in SUBSET S : IsFiniteSet(T)}
Scans(silos, paths) == [silos -> [readable : BOOLEAN, seen : [paths -> STRING]]]

\* A directory has one name, and no run is called "none".
Stale == [named : Seq(STRING), at : Seq(STRING), links : BOOLEAN]
OneName(entries) ==
  /\ \A e \in entries : RunOf(e.named) # "none"
  /\ \A e, f \in entries : e.at = f.at => e.named = f.named
Marking ==
  [active : STRING, pinned : SUBSET Seq(STRING), reviewed : SUBSET Seq(STRING), rollback : SUBSET Seq(STRING),
   ledgers : SUBSET Seq(STRING), backups : SUBSET Seq(STRING), live : BOOLEAN]

UpkeepNext ==
  \/ \E silos, paths \in Finite(Nat) : \E previous, current \in Scans(silos, paths) : AskUpdate(previous, current)
  \/ \E entries \in SUBSET Stale, before, after \in Marking : OneName(entries) /\ AskPrune(entries, before, after)
  \/ Return
UpkeepSpec == call = Ready /\ [][UpkeepNext]_call

-----------------------------------------------------------------------------
(***************************************************************************)
(* The keys of a scan                                                      *)
(***************************************************************************)
\* Two scans of the same silos, as an update compares them.
Compared(p, c, silos, paths) ==
  silos \in Finite(Nat) /\ paths \in Finite(Nat) /\ p \in Scans(silos, paths) /\ c \in Scans(silos, paths)

\* A key is a silo with a path, there are finitely many, and what is at one is
\* among the hashes.
LEMMA KeysOfScan ==
  ASSUME NEW silos \in Finite(Nat), NEW paths \in Finite(Nat), NEW m \in Scans(silos, paths)
  PROVE  /\ Keys(m) \subseteq silos \X paths
         /\ IsFiniteSet(Keys(m))
         /\ DOMAIN m = silos
         /\ \A k \in Keys(m) : k = <<k[1], k[2]>> /\ k[1] \in silos /\ k[1] \in Nat /\ k[2] \in Nat
<1>1. DOMAIN m = silos /\ \A s \in silos : DOMAIN m[s].seen = paths
  BY DEF Scans
<1>2. Keys(m) \subseteq silos \X paths
  <2> SUFFICES ASSUME NEW k \in Keys(m) PROVE k \in silos \X paths
    OBVIOUS
  <2>1. PICK s \in silos : k \in {s} \X DOMAIN m[s].seen
    BY <1>1 DEF Keys
  <2> QED BY <2>1, <1>1
<1>3. IsFiniteSet(silos) /\ IsFiniteSet(paths) /\ silos \subseteq Nat /\ paths \subseteq Nat
  BY DEF Finite
<1>4. IsFiniteSet(silos \X paths)
  BY <1>3, FS_Product
<1>5. IsFiniteSet(Keys(m))
  BY <1>2, <1>4, FS_Subset
<1> QED BY <1>1, <1>2, <1>3, <1>5

\* Among the keys of one content in one silo no two have the same rank.
LEMMA RankIsInjective ==
  ASSUME NEW S, IsFiniteSet(S), NEW m, NEW j \in S, NEW k \in S,
         \A i \in S : i = <<i[1], i[2]>> /\ i[1] \in Nat /\ i[2] \in Nat,
         j[1] = k[1], Content(m, j) = Content(m, k), Rank(S, m, j) = Rank(S, m, k)
  PROVE  j = k
<1> DEFINE Lower(x) == {i \in S : i[1] = x[1] /\ Content(m, i) = Content(m, x) /\ Before(i, x)}
<1>1. ASSUME NEW x \in S, NEW y \in S, x[1] = y[1], Content(m, x) = Content(m, y), Before(x, y)
      PROVE  Cardinality(Lower(x)) < Cardinality(Lower(y))
  <2>1. Lower(x) \subseteq Lower(y)
    BY <1>1 DEF Before
  <2>2. x \in Lower(y) /\ x \notin Lower(x)
    BY <1>1 DEF Before
  <2>3. IsFiniteSet(Lower(y)) /\ IsFiniteSet(Lower(x))
    BY FS_Subset
  <2>4. Cardinality(Lower(x)) <= Cardinality(Lower(y)) /\ Cardinality(Lower(x)) # Cardinality(Lower(y))
    BY <2>1, <2>2, <2>3, FS_Subset
  <2>5. Cardinality(Lower(x)) \in Nat /\ Cardinality(Lower(y)) \in Nat
    BY <2>3, FS_CardinalityType
  <2> QED BY <2>4, <2>5
<1>2. Cardinality(Lower(j)) = Cardinality(Lower(k))
  BY DEF Rank
<1>3. Lower(j) \subseteq S /\ Lower(k) \subseteq S
  OBVIOUS
<1>4. Cardinality(Lower(j)) \in Nat /\ Cardinality(Lower(k)) \in Nat
  BY <1>3, FS_Subset, FS_CardinalityType
<1>5. ~Before(j, k)
  BY <1>1, <1>2, <1>4
<1>6. ~Before(k, j)
  BY <1>1, <1>2, <1>4
<1>7. j[2] = k[2]
  BY <1>5, <1>6 DEF Before
<1> QED BY <1>7

-----------------------------------------------------------------------------
(***************************************************************************)
(* The events of an update                                                 *)
(***************************************************************************)
\* What is paired went and came in the same silo with the same content, and
\* each side of a pair names it.
LEMMA PairsMatch ==
  ASSUME NEW p, NEW c, NEW silos, NEW paths, Compared(p, c, silos, paths),
         NEW removed \in SUBSET Keys(p), NEW added \in SUBSET Keys(c)
  PROVE  LET pairs == Pairs(p, c, removed, added)
         IN  /\ pairs \subseteq removed \X added
             /\ \A x \in pairs : Content(p, x[1]) = Content(c, x[2])
             /\ \A x, y \in pairs : x[1] = y[1] \/ x[2] = y[2] => x = y
<1> DEFINE pairs == Pairs(p, c, removed, added)
<1> USE DEF Compared
<1>1. IsFiniteSet(removed) /\ IsFiniteSet(added)
  BY KeysOfScan, FS_Subset
<1>2. /\ \A i \in removed : i = <<i[1], i[2]>> /\ i[1] \in Nat /\ i[2] \in Nat
      /\ \A i \in added : i = <<i[1], i[2]>> /\ i[1] \in Nat /\ i[2] \in Nat
  BY KeysOfScan
<1>3. ASSUME NEW x \in pairs
      PROVE  /\ x = <<x[1], x[2]>> /\ x[1] \in removed /\ x[2] \in added /\ x[1][1] = x[2][1]
             /\ Content(p, x[1]) = Content(c, x[2])
             /\ Rank(removed, p, x[1]) = Rank(added, c, x[2])
  <2>1. PICK r \in removed, a \in added :
          /\ x = <<r, a>> /\ r[1] = a[1] /\ Content(p, r) = Content(c, a)
          /\ Rank(removed, p, r) = Rank(added, c, a)
    BY DEF Pairs
  <2>2. x[1] = r /\ x[2] = a
    BY <2>1
  <2> QED BY <2>1, <2>2
<1>4. ASSUME NEW x \in pairs, NEW y \in pairs, x[1] = y[1]
      PROVE  x[2] = y[2]
  <2>1. /\ x[2] \in added /\ y[2] \in added /\ x[2][1] = y[2][1] /\ Content(c, x[2]) = Content(c, y[2])
        /\ Rank(added, c, x[2]) = Rank(added, c, y[2])
    BY <1>3, <1>4
  <2> QED BY <2>1, <1>1, <1>2, RankIsInjective
<1>5. ASSUME NEW x \in pairs, NEW y \in pairs, x[2] = y[2]
      PROVE  x[1] = y[1]
  <2>1. /\ x[1] \in removed /\ y[1] \in removed /\ x[1][1] = y[1][1] /\ Content(p, x[1]) = Content(p, y[1])
        /\ Rank(removed, p, x[1]) = Rank(removed, p, y[1])
    BY <1>3, <1>5
  <2> QED BY <2>1, <1>1, <1>2, RankIsInjective
<1>6. \A x, y \in pairs : x[1] = y[1] \/ x[2] = y[2] => x = y
  BY <1>3, <1>4, <1>5
<1>7. pairs \subseteq removed \X added
  BY DEF Pairs
<1> QED BY <1>3, <1>6, <1>7

\* A set of pairs has as many members as it has first or second components, if
\* each of them names its pair.
LEMMA SidesCount ==
  ASSUME NEW R, IsFiniteSet(R), \A x, y \in R : x[1] = y[1] \/ x[2] = y[2] => x = y
  PROVE  /\ Cardinality({x[1] : x \in R}) = Cardinality(R)
         /\ Cardinality({x[2] : x \in R}) = Cardinality(R)
<1> DEFINE first == [x \in R |-> x[1]]
           second == [x \in R |-> x[2]]
<1>1. first \in Bijection(R, {x[1] : x \in R})
  BY DEF Bijection, Injection, Surjection, IsInjective
<1>2. second \in Bijection(R, {x[2] : x \in R})
  BY DEF Bijection, Injection, Surjection, IsInjective
<1> QED BY <1>1, <1>2, FS_Bijection DEF ExistsBijection

\* What the events are made of.
LEMMA DeltaIs ==
  ASSUME NEW p, NEW c, NEW silos, NEW paths, Compared(p, c, silos, paths)
  PROVE  LET d == Diff(p, c)
             removed == Removed(p, c)
             added == Keys(c) \ Keys(p)
         IN  /\ d.rename = Pairs(p, c, removed, added)
             /\ d.add = added \ {x[2] : x \in d.rename}
             /\ d.remove = removed \ {x[1] : x \in d.rename}
             /\ d.withheld = (Keys(p) \ Keys(c)) \ removed
             /\ d.change = {k \in Keys(p) \cap Keys(c) : Content(p, k) # Content(c, k)}
             /\ removed \subseteq Keys(p) \ Keys(c)
             /\ removed # {} => Comparable(p) /\ Comparable(c)
<1>1. Removed(p, c) # {} => Comparable(p) /\ Comparable(c)
  BY DEF Removed, Observable
<1> QED BY <1>1 DEF Diff, Removed

\* The events of an update replay the previous occurrences into the current ones.
LEMMA UpdateReplays ==
  ASSUME NEW p, NEW c, NEW silos, NEW paths, Compared(p, c, silos, paths), AskUpdate(p, c)
  PROVE  DeltaReplays'
<1> DEFINE d == Diff(p, c)
           removed == Removed(p, c)
           added == Keys(c) \ Keys(p)
           from == {x[1] : x \in d.rename}
           to == {x[2] : x \in d.rename}
<1>1. /\ d.rename = Pairs(p, c, removed, added)
      /\ d.add = added \ to /\ d.remove = removed \ from
      /\ d.withheld = (Keys(p) \ Keys(c)) \ removed
      /\ d.change = {k \in Keys(p) \cap Keys(c) : Content(p, k) # Content(c, k)}
      /\ removed \subseteq Keys(p) \ Keys(c)
  BY DeltaIs
<1>2. /\ d.rename \subseteq removed \X added
      /\ \A x, y \in d.rename : x[1] = y[1] \/ x[2] = y[2] => x = y
  <2>1. removed \in SUBSET Keys(p) /\ added \in SUBSET Keys(c)
    BY <1>1
  <2>2. /\ Pairs(p, c, removed, added) \subseteq removed \X added
        /\ \A x, y \in Pairs(p, c, removed, added) : x[1] = y[1] \/ x[2] = y[2] => x = y
    BY <2>1, PairsMatch
  <2>3. d.rename = Pairs(p, c, removed, added)
    BY <1>1
  <2> HIDE DEF d, removed, added
  <2> QED BY <2>2, <2>3
<1>3. from \subseteq removed /\ to \subseteq added
  BY <1>2
<1>4. IsFiniteSet(d.rename)
  <2>1. IsFiniteSet(removed) /\ IsFiniteSet(added)
    BY <1>1, KeysOfScan, FS_Subset, FS_Difference DEF Compared
  <2> QED BY <1>2, <2>1, FS_Product, FS_Subset
<1>5. Cardinality(from) = Cardinality(d.rename) /\ Cardinality(to) = Cardinality(d.rename)
  BY <1>2, <1>4, SidesCount
<1>6. (Keys(p) \ (d.remove \cup from \cup d.withheld)) \cup d.add \cup to = Keys(c)
  BY <1>1, <1>3
<1>7. d.add \cap to = {} /\ d.remove \cap from = {} /\ d.change \subseteq Keys(p) \cap Keys(c)
  BY <1>1
<1>8. \A k \in (Keys(p) \cap Keys(c)) \ d.change : Content(p, k) = Content(c, k)
  BY <1>1
<1>9. call'.op = "update" /\ call'.previous = p /\ call'.current = c /\ call'.delta = d
  BY DEF AskUpdate, Ask
<1> QED BY <1>5, <1>6, <1>7, <1>8, <1>9 DEF DeltaReplays

\* A tombstone is of a key that complete scans of all silos no longer show.
LEMMA TombstoneIs ==
  ASSUME NEW p, NEW c, NEW silos, NEW paths, Compared(p, c, silos, paths),
         NEW t \in Tombstones(p, c, Diff(p, c))
  PROVE  /\ Comparable(p) /\ Comparable(c)
         /\ t.key \in Keys(p) /\ t.key \notin Keys(c) /\ t.content = Content(p, t.key)
         /\ t.last <=> t.content \notin Hashes(c)
<1>1. PICK k \in Diff(p, c).remove :
        t = [key |-> k, content |-> Content(p, k), last |-> Content(p, k) \notin Hashes(c)]
  BY DEF Tombstones
<1>2. k \in Removed(p, c)
  <2>1. Diff(p, c).remove \subseteq Removed(p, c)
    BY DEF Diff
  <2> QED BY <2>1
<1> QED BY <1>1, <1>2, DeltaIs

\* A tombstone needs evidence.
LEMMA UpdateHasEvidence ==
  ASSUME NEW p, NEW c, NEW silos, NEW paths, Compared(p, c, silos, paths), AskUpdate(p, c)
  PROVE  TombstonesAreEvidence'
<1>1. /\ call'.op = "update" /\ call'.previous = p /\ call'.current = c
      /\ call'.tombstones = Tombstones(p, c, Diff(p, c))
  BY DEF AskUpdate, Ask
<1>2. \A h : h \notin Hashes(c) <=> \A k \in Keys(c) : Content(c, k) # h
  BY DEF Hashes
<1> QED BY <1>1, <1>2, TombstoneIs DEF TombstonesAreEvidence

-----------------------------------------------------------------------------
(***************************************************************************)
(* The view and the shards                                                 *)
(***************************************************************************)
\* Without complete scans the view keeps what it has.
LEMMA ViewWithoutEvidence ==
  ASSUME NEW p, NEW c, NEW silos, NEW paths, Compared(p, c, silos, paths),
         ~(Comparable(p) /\ Comparable(c))
  PROVE  ActiveContents(p, c, Tombstones(p, c, Diff(p, c))) = Hashes(p) \cup Hashes(c)
<1> DEFINE tombs == Tombstones(p, c, Diff(p, c))
           rows == View(p)
           spared == {h \in DOMAIN rows \ Retracted(rows, tombs) :
                      h \in Hashes(c) \/ ~FullyObserved(Paths(rows, tombs, h), Observable(p, c))}
<1>1. tombs = {} /\ Observable(p, c) = {}
  BY TombstoneIs DEF Observable
<1>2. DOMAIN rows = Hashes(p)
  BY DEF View
<1>3. Retracted(rows, tombs) = {}
  BY <1>1 DEF Retracted
<1>4. ASSUME NEW h \in Hashes(p)
      PROVE  ~FullyObserved(Paths(rows, tombs, h), Observable(p, c))
  <2>1. PICK k \in Keys(p) : Content(p, k) = h
    BY DEF Hashes
  <2>2. k \in rows[h]
    BY <2>1 DEF View
  <2>3. Paths(rows, tombs, h) = rows[h]
    BY <1>1, <2>2 DEF Paths
  <2> QED BY <1>1, <2>2, <2>3 DEF FullyObserved
<1>5. spared = Hashes(p)
  BY <1>2, <1>3, <1>4
<1>6. ActiveContents(p, c, tombs) = spared \cup (Hashes(c) \ (DOMAIN rows \ spared))
  BY DEF ActiveContents
<1> QED BY <1>2, <1>5, <1>6

\* After complete scans the view is of what they show.
LEMMA ViewWithEvidence ==
  ASSUME NEW p, NEW c, NEW silos, NEW paths, Compared(p, c, silos, paths),
         Comparable(p), Comparable(c)
  PROVE  ActiveContents(p, c, Tombstones(p, c, Diff(p, c))) = Hashes(c)
<1> DEFINE tombs == Tombstones(p, c, Diff(p, c))
           rows == View(p)
           spared == {h \in DOMAIN rows \ Retracted(rows, tombs) :
                      h \in Hashes(c) \/ ~FullyObserved(Paths(rows, tombs, h), Observable(p, c))}
<1>1. DOMAIN p = silos /\ DOMAIN c = silos /\ \A k \in Keys(p) : k[1] \in silos
  BY KeysOfScan DEF Compared
<1>2. Observable(p, c) = silos
  BY <1>1 DEF Observable, Comparable
<1>3. DOMAIN rows = Hashes(p)
  BY DEF View
<1>4. \A h \in Retracted(rows, tombs) : h \notin Hashes(c)
  BY TombstoneIs DEF Retracted
<1>5. ASSUME NEW h \in Hashes(p)
      PROVE  FullyObserved(Paths(rows, tombs, h), Observable(p, c))
  <2>1. rows[h] \subseteq Keys(p)
    BY DEF View
  <2>2. \A t \in tombs : t.key \in Keys(p)
    BY TombstoneIs
  <2>3. Paths(rows, tombs, h) \subseteq Keys(p)
    BY <2>1, <2>2 DEF Paths
  <2> QED BY <1>1, <1>2, <2>3 DEF FullyObserved
<1>6. spared = Hashes(p) \cap Hashes(c)
  BY <1>3, <1>4, <1>5
<1>7. ActiveContents(p, c, tombs) = spared \cup (Hashes(c) \ (DOMAIN rows \ spared))
  BY DEF ActiveContents
<1> QED BY <1>3, <1>6, <1>7

\* The active view follows the sources.
LEMMA UpdateFollows ==
  ASSUME NEW p, NEW c, NEW silos, NEW paths, Compared(p, c, silos, paths), AskUpdate(p, c)
  PROVE  ViewFollowsSources'
<1>1. /\ call'.op = "update" /\ call'.previous = p /\ call'.current = c
      /\ call'.active = ActiveContents(p, c, Tombstones(p, c, Diff(p, c)))
  BY DEF AskUpdate, Ask
<1> QED BY <1>1, ViewWithEvidence, ViewWithoutEvidence DEF ViewFollowsSources

\* What is gone for good is invalidated, and nothing that stayed where it was.
LEMMA UpdateInvalidates ==
  ASSUME NEW p, NEW c, NEW silos, NEW paths, Compared(p, c, silos, paths), AskUpdate(p, c)
  PROVE  LostContentInvalidates'
<1> DEFINE d == Diff(p, c)
           removed == Removed(p, c)
           added == Keys(c) \ Keys(p)
<1> SUFFICES ASSUME Comparable(p), Comparable(c)
             PROVE  /\ Hashes(p) \ Hashes(c) \subseteq Roots(p, c, d)
                    /\ \A h \in Roots(p, c, d) : \E k \in Keys(p) :
                         Content(p, k) = h /\ (k \in Keys(c) => Content(c, k) # h)
  <2>1. call'.op = "update" /\ call'.previous = p /\ call'.current = c /\ call'.roots = Roots(p, c, d)
    BY DEF AskUpdate, Ask
  <2> QED BY <2>1 DEF LostContentInvalidates
<1>1. /\ d.rename = Pairs(p, c, removed, added)
      /\ d.remove = removed \ {x[1] : x \in d.rename}
      /\ d.change = {k \in Keys(p) \cap Keys(c) : Content(p, k) # Content(c, k)}
      /\ removed \subseteq Keys(p) \ Keys(c)
  BY DeltaIs
<1>2. removed = Keys(p) \ Keys(c)
  <2>1. Observable(p, c) = silos
    BY KeysOfScan DEF Observable, Comparable, Compared
  <2> QED BY <2>1, KeysOfScan DEF Removed, Compared
<1>3. ASSUME NEW h \in Hashes(p), h \notin Hashes(c)
      PROVE  h \in Roots(p, c, d)
  <2>1. PICK k \in Keys(p) : Content(p, k) = h
    BY DEF Hashes
  <2>2. CASE k \in Keys(c)
    <3>1. Content(c, k) # h
      BY <1>3, <2>2 DEF Hashes
    <3> QED BY <1>1, <2>1, <2>2, <3>1 DEF Roots
  <2>3. CASE k \notin Keys(c)
    <3>1. ASSUME NEW x \in d.rename, x[1] = k
          PROVE  FALSE
      <4>1. Content(p, x[1]) = Content(c, x[2]) /\ x[2] \in Keys(c)
        BY <1>1, <3>1, PairsMatch
      <4> QED BY <1>3, <2>1, <3>1, <4>1 DEF Hashes
    <3>2. k \in d.remove
      BY <1>1, <1>2, <2>3, <3>1
    <3> QED BY <1>3, <2>1, <3>2 DEF Roots
  <2> QED BY <2>2, <2>3
<1>4. ASSUME NEW h \in Roots(p, c, d)
      PROVE  \E k \in Keys(p) : Content(p, k) = h /\ (k \in Keys(c) => Content(c, k) # h)
  <2>1. CASE \E k \in d.change : h = Content(p, k)
    BY <1>1, <2>1
  <2>2. CASE \E k \in d.remove : h = Content(p, k)
    BY <1>1, <2>2
  <2> QED BY <2>1, <2>2 DEF Roots
<1> QED BY <1>3, <1>4

-----------------------------------------------------------------------------
(***************************************************************************)
(* Prunes                                                                  *)
(***************************************************************************)
\* Nothing that is protected when a plan is applied is deleted.
LEMMA PruneProtects ==
  ASSUME NEW entries \in SUBSET Stale, OneName(entries), NEW before \in Marking, NEW after \in Marking,
         AskPrune(entries, before, after)
  PROVE  NothingProtectedGoes'
<1> DEFINE plan == Eligible(entries, before)
           result == ApplyPrune(entries, after, plan)
           spared == UNION {after.reviewed, after.rollback, after.ledgers, after.backups}
<1>1. result.deleted \in {{}, {e.at : e \in plan}}
  BY DEF ApplyPrune
<1>2. ASSUME NEW e \in plan, result.deleted # {}
      PROVE  ProtectionKind(e, after) = "none" /\ ~OutsideRuns(e.at) /\ e \in entries
  <2>1. e \in entries
    BY DEF Eligible
  <2>2. e.named \notin {b.named : b \in BlockedEntries(entries, after)} /\ ~OutsideRuns(e.at)
    BY <1>2 DEF ApplyPrune
  <2> QED BY <2>1, <2>2 DEF BlockedEntries
<1>3. ASSUME NEW e \in entries, ProtectionKind(e, after) = "none"
      PROVE  /\ RunOf(e.named) # after.active /\ after.live /\ e.at \notin after.pinned
             /\ \A base \in spared : ~(IsPrefix(base, e.at) \/ IsPrefix(e.at, base))
  <2>1. RunOf(e.named) # "none"
    BY DEF OneName
  <2>2. /\ ~(after.active # "none" /\ RunOf(e.named) = after.active)
        /\ e.at \notin after.pinned
        /\ ~MeetsAny(e.at, after.reviewed) /\ ~MeetsAny(e.at, after.rollback)
        /\ ~MeetsAny(e.at, after.ledgers) /\ ~MeetsAny(e.at, after.backups)
        /\ after.live
    BY <1>3 DEF ProtectionKind
  <2> QED BY <2>1, <2>2 DEF MeetsAny, Intersects
<1>4. ASSUME NEW e \in entries, e.at \in result.deleted
      PROVE  e.named[1] # after.active /\ after.live
  <2>1. PICK f \in plan : f.at = e.at
    BY <1>1, <1>4
  <2>2. f \in entries /\ ProtectionKind(f, after) = "none"
    BY <1>2, <1>4, <2>1
  <2>3. e.named = f.named
    BY <2>1, <2>2 DEF OneName
  <2> QED BY <1>3, <2>2, <2>3 DEF RunOf
<1>5. ASSUME NEW a \in result.deleted
      PROVE  /\ \A base \in spared : ~(IsPrefix(base, a) \/ IsPrefix(a, base))
             /\ a \notin after.pinned /\ ~OutsideRuns(a)
  <2>1. PICK f \in plan : f.at = a
    BY <1>1, <1>5
  <2> QED BY <1>2, <1>3, <1>5, <2>1
<1>6. /\ call'.op = "prune" /\ call'.entries = entries /\ call'.plan = plan /\ call'.after = after
      /\ call'.result = result
  BY DEF AskPrune, Ask
<1> QED BY <1>1, <1>4, <1>5, <1>6 DEF NothingProtectedGoes

-----------------------------------------------------------------------------
(***************************************************************************)
(* The theorem                                                             *)
(***************************************************************************)
\* Whatever two scans of any silos and paths show, the events of an update
\* replay the one into the other, its tombstones are evidence, its view follows
\* the sources and what was lost is invalidated; and whatever was marked
\* meanwhile, a prune deletes nothing that is protected.
THEOREM UpkeepIsSafe ==
  UpkeepSpec => []UpkeepHolds
<1>1. ASSUME call = Ready PROVE UpkeepHolds
  BY <1>1 DEF Ready, UpkeepHolds, DeltaReplays, TombstonesAreEvidence, ViewFollowsSources,
              LostContentInvalidates, NothingProtectedGoes
<1>2. ASSUME UpkeepHolds, [UpkeepNext]_call PROVE UpkeepHolds'
  <2>1. ASSUME NEW silos \in Finite(Nat), NEW paths \in Finite(Nat),
               NEW p \in Scans(silos, paths), NEW c \in Scans(silos, paths), AskUpdate(p, c)
        PROVE  UpkeepHolds'
    <3>1. Compared(p, c, silos, paths)
      BY DEF Compared
    <3>2. DeltaReplays' /\ TombstonesAreEvidence' /\ ViewFollowsSources' /\ LostContentInvalidates'
      BY <2>1, <3>1, UpdateReplays, UpdateHasEvidence, UpdateFollows, UpdateInvalidates
    <3>3. call'.op = "update"
      BY <2>1 DEF AskUpdate, Ask
    <3> QED BY <3>2, <3>3 DEF UpkeepHolds, NothingProtectedGoes
  <2>2. ASSUME NEW entries \in SUBSET Stale, NEW before \in Marking, NEW after \in Marking,
               OneName(entries), AskPrune(entries, before, after)
        PROVE  UpkeepHolds'
    <3>1. NothingProtectedGoes'
      BY <2>2, PruneProtects
    <3>2. call'.op = "prune"
      BY <2>2 DEF AskPrune, Ask
    <3> QED BY <3>1, <3>2 DEF UpkeepHolds, DeltaReplays, TombstonesAreEvidence, ViewFollowsSources,
                              LostContentInvalidates
  <2>3. CASE Return
    BY <1>1, <2>3 DEF Return, Ready, UpkeepHolds, DeltaReplays, TombstonesAreEvidence, ViewFollowsSources,
              LostContentInvalidates, NothingProtectedGoes
  <2>4. CASE UNCHANGED call
    BY <1>2, <2>4 DEF UpkeepHolds, DeltaReplays, TombstonesAreEvidence, ViewFollowsSources,
              LostContentInvalidates, NothingProtectedGoes
  <2> QED BY <1>2, <2>1, <2>2, <2>3, <2>4 DEF UpkeepNext
<1> QED BY <1>1, <1>2, PTL DEF UpkeepSpec

-----------------------------------------------------------------------------
(***************************************************************************)
(* The commands on the roots of a checkout                                 *)
(***************************************************************************)
Names == STRING \cup {"p", "runs", "services", "models", "tmp", "normalized"} \cup StateServices
Path == Seq(Names)
AllRoots == SiloRoots \cup Outputs
AnySite == [placed : [AllRoots -> Path], flaws : SUBSET (STRING \X STRING),
            password : {"none", "placeholder", "secret"}, gate : BOOLEAN]
DirLink == [at : Path, to : Path]
RootsSpec ==
  call = Ready /\ RootsInit /\ [][RootsNext(AnySite, SUBSET STRING, Path, DirLink)]_<<call, roots>>

\* The fields of the state and of a command, whatever is in them.
RootsShape(r) ==
  r \in [site : {r.site}, links : {r.links}, config : {r.config}, command : {r.command}, running : {r.running},
         erased : {r.erased}, made : {r.made}, wrote : {r.wrote}, vouched : {r.vouched}, commands : {r.commands},
         swaps : {r.swaps}]
CommandShape(c) ==
  c \in [at : {c.at}, kind : {c.kind}, profiles : {c.profiles}, todo : {c.todo}, answer : {c.answer},
         swaps : {c.swaps}, running : {c.running}]

\* The roots of a command: those that are derived, the results and the cluster
\* are among them.
ConfigOK(config) ==
  /\ Derived \cup {"RESULTS_DIR", "PGDATA_DIR"} \subseteq DOMAIN config
  /\ DOMAIN config \subseteq AllRoots
  /\ \A v \in DOMAIN config : config[v] \in Path
ServedPaths(config) == {config[u] : u \in (Database \cup {"SERVICE_STATE_DIR", "MODEL_CACHE_DIR"}) \cap DOMAIN config}

AtWork == {"compose", "readiness", "report", "reset", "stop", "erase"}
BegunInv ==
  /\ RootsShape(roots) /\ roots.links \subseteq DirLink /\ roots.swaps \in Nat
  /\ roots.site \in {<<>>} \cup AnySite
  /\ roots.site = <<>> => roots.command = [at |-> "none"]
  /\ \/ roots.command = [at |-> "none"]
     \/ /\ CommandShape(roots.command) /\ roots.command.at \in AtWork \cup {"ended"}
        /\ roots.site \in AnySite
        /\ roots.command.swaps \in Nat /\ roots.command.swaps <= roots.swaps
  /\ roots.command.at \in AtWork =>
       /\ ConfigOK(roots.config)
       /\ roots.swaps = 0 => roots.config = LoadConfig(roots.site.placed, {})
       /\ roots.command.at = "compose" <=> roots.command.kind = "compose"
  /\ roots.swaps = 0 => roots.links = {}
  /\ roots.command = [at |-> "none"] => roots.erased = {} /\ roots.wrote = {} /\ roots.vouched = {}

\* A reset that got past a check of its targets erases them as long as no directory
\* becomes a link.
ResetInv ==
  /\ roots.command.at \in {"reset", "stop"} => roots.erased = {} /\ roots.running = roots.command.running
  /\ roots.command.at \in {"stop", "erase"} /\ roots.command.swaps = roots.swaps => Accepted(roots)
  /\ roots.command.at = "erase" => roots.command.todo \subseteq ServedPaths(roots.config)
  /\ roots.command.at = "erase" /\ roots.command.swaps = roots.swaps =>
       roots.command.todo \subseteq DataPaths(roots.config, roots.links)
  /\ roots.swaps = 0 => \A e \in roots.erased : e.tree \in ServedPaths(roots.config)
  /\ roots.erased # {} => ConfigOK(roots.config)

\* What readiness had nothing against, of roots that are as they were.
Vouched(site, profiles) ==
  LET config == LoadConfig(site.placed, {})
      variables == PathVariables(config, profiles, TRUE)
  IN  /\ Inspectable(site.flaws, variables) /\ ~PathsBlocked(config, site.flaws, variables)
      /\ HasDatabase(profiles) => site.password = "secret"

\* A command that is at work has made nothing, and what Compose made is outside the
\* sources; a link that leads into or above itself or replaces the checkout is not plain.
PlainLink == {l \in DirLink : ~Overlaps(l.at, l.to) /\ ~Within(l.at, Checkout)}
MadeWell == roots.command.at = "ended" /\ (roots.links \subseteq PlainLink => LayoutOutside)
LayoutInv ==
  /\ \A k, l \in roots.links : k = l
  /\ roots.command.at \in AtWork =>
       /\ roots.made = {}
       /\ roots.command.swaps = roots.swaps => roots.config = LoadConfig(roots.site.placed, roots.links)
  /\ roots.links \subseteq PlainLink => LayoutOutside

VouchInv == roots.swaps = 0 => \A profiles \in roots.vouched : Vouched(roots.site, profiles)

RootsInv ==
  BegunInv /\ ResetInv /\ LayoutInv /\ VouchInv /\ SourcesKept /\ RefusedIsWhole /\ ReportInside /\ UpFollowsReadiness

\* An answer ends a command and changes nothing else.
LEMMA EndFields ==
  ASSUME NEW r, NEW answer, RootsShape(r), CommandShape(r.command), NEW s, s = End(r, answer)
  PROVE      /\ RootsShape(s) /\ CommandShape(s.command)
             /\ s.site = r.site /\ s.links = r.links /\ s.config = r.config /\ s.running = r.running /\ s.erased = r.erased
             /\ s.made = r.made /\ s.wrote = r.wrote /\ s.vouched = r.vouched /\ s.swaps = r.swaps
             /\ s.command.at = "ended" /\ s.command.answer = answer /\ s.command.kind = r.command.kind
             /\ s.command.profiles = r.command.profiles /\ s.command.todo = r.command.todo
             /\ s.command.swaps = r.command.swaps /\ s.command.running = r.command.running
<1> DEFINE c == [r.command EXCEPT !.at = "ended", !.answer = answer]
<1>1. /\ CommandShape(c) /\ c.at = "ended" /\ c.answer = answer /\ c.kind = r.command.kind
      /\ c.profiles = r.command.profiles /\ c.todo = r.command.todo
      /\ c.swaps = r.command.swaps /\ c.running = r.command.running
  <2>1. c \in [at : {"ended"}, kind : {r.command.kind}, profiles : {r.command.profiles}, todo : {r.command.todo},
               answer : {answer}, swaps : {r.command.swaps}, running : {r.command.running}]
    BY DEF CommandShape
  <2> HIDE DEF c
  <2> QED BY <2>1 DEF CommandShape
<1>2. End(r, answer) = [r EXCEPT !.command = c]
  BY DEF End, RootsShape
<1> HIDE DEF c
<1>3. /\ RootsShape([r EXCEPT !.command = c]) /\ [r EXCEPT !.command = c].command = c
      /\ s = [r EXCEPT !.command = c] =>
           /\ s.site = r.site /\ s.links = r.links /\ s.config = r.config /\ s.running = r.running /\ s.erased = r.erased
           /\ s.made = r.made /\ s.wrote = r.wrote /\ s.vouched = r.vouched /\ s.swaps = r.swaps
  BY DEF RootsShape
<1> QED BY <1>1, <1>2, <1>3

\* Of two paths that are within each other there is one.
LEMMA WithinBoth ==
  ASSUME NEW p \in Path, NEW q \in Path, Within(p, q), Within(q, p)
  PROVE  p = q
<1>1. Len(p) = Len(q) /\ SubSeq(p, 1, Len(p)) = SubSeq(q, 1, Len(p))
  BY DEF Within, IsPrefix, Path
<1>2. ASSUME NEW i \in 1 .. Len(p) PROVE p[i] = q[i]
  <2>1. SubSeq(p, 1, Len(p))[i] = p[i] /\ SubSeq(q, 1, Len(p))[i] = q[i]
    BY <1>1 DEF Path
  <2> QED BY <1>1, <2>1
<1> QED BY <1>1, <1>2 DEF Path

\* A link leads to a path, and without links a path is where it is.
LEMMA ResolvePath ==
  ASSUME NEW links \in SUBSET DirLink, NEW p \in Path
  PROVE  Resolve(links, p) \in Path /\ (links = {} => Resolve(links, p) = p)
<1>1. CASE \E l \in links : IsPrefix(l.at, p)
  <2> DEFINE l == CHOOSE k \in links : IsPrefix(k.at, p)
  <2>1. l \in links
    BY <1>1
  <2> HIDE DEF l
  <2>2. l.to \in Path /\ l.at \in Path
    BY <2>1 DEF DirLink
  <2>3. Len(l.at) + 1 \in Nat \ {0} /\ Len(p) \in Nat
    BY <2>2 DEF Path
  <2>4. SubSeq(p, Len(l.at) + 1, Len(p)) \in Path
    BY <2>3 DEF Path
  <2>5. l.to \o SubSeq(p, Len(l.at) + 1, Len(p)) \in Path
    BY <2>2, <2>4 DEF Path
  <2> QED BY <1>1, <2>5 DEF Resolve, l
<1>2. CASE ~\E l \in links : IsPrefix(l.at, p)
  BY <1>2 DEF Resolve
<1> QED BY <1>1, <1>2

\* A directory that agrees with a longer one as far as it goes is on the way to it.
LEMMA AgreeWithin ==
  ASSUME NEW a \in Path, NEW b \in Path, Len(a) <= Len(b), \A i \in 1 .. Len(a) : a[i] = b[i]
  PROVE  Within(a, b)
<1>1. Len(a) \in Nat /\ Len(b) \in Nat
  BY DEF Path
<1>2. SubSeq(a, 1, Len(a)) \in Seq(Names) /\ SubSeq(b, 1, Len(a)) \in Seq(Names)
      /\ Len(SubSeq(a, 1, Len(a))) = Len(a) /\ Len(SubSeq(b, 1, Len(a))) = Len(a)
  BY <1>1 DEF Path
<1>3. \A i \in 1 .. Len(a) : SubSeq(a, 1, Len(a))[i] = SubSeq(b, 1, Len(a))[i]
  BY <1>1 DEF Path
<1>4. SubSeq(a, 1, Len(a)) = SubSeq(b, 1, Len(a))
  BY <1>2, <1>3
<1> QED BY <1>4 DEF Within, IsPrefix

\* Two directories on one path are one within the other.
LEMMA PrefixesCompare ==
  ASSUME NEW p \in Path, NEW q \in Path, NEW r \in Path, Within(p, r), Within(q, r)
  PROVE  Overlaps(p, q)
<1>1. Len(p) <= Len(r) /\ SubSeq(p, 1, Len(p)) = SubSeq(r, 1, Len(p))
      /\ Len(q) <= Len(r) /\ SubSeq(q, 1, Len(q)) = SubSeq(r, 1, Len(q))
  BY DEF Within, IsPrefix
<1>2. Len(p) \in Nat /\ Len(q) \in Nat /\ Len(r) \in Nat
  BY DEF Path
<1>3. (\A i \in 1 .. Len(p) : p[i] = r[i]) /\ (\A i \in 1 .. Len(q) : q[i] = r[i])
  <2>1. ASSUME NEW i \in 1 .. Len(p) PROVE p[i] = r[i]
    <3>1. SubSeq(p, 1, Len(p))[i] = p[i] /\ SubSeq(r, 1, Len(p))[i] = r[i]
      BY <1>1, <1>2 DEF Path
    <3> QED BY <1>1, <3>1
  <2>2. ASSUME NEW i \in 1 .. Len(q) PROVE q[i] = r[i]
    <3>1. SubSeq(q, 1, Len(q))[i] = q[i] /\ SubSeq(r, 1, Len(q))[i] = r[i]
      BY <1>1, <1>2 DEF Path
    <3> QED BY <1>1, <3>1
  <2> QED BY <2>1, <2>2
<1>4. CASE Len(p) <= Len(q)
  BY <1>2, <1>3, <1>4, AgreeWithin DEF Overlaps
<1>5. CASE Len(q) <= Len(p)
  BY <1>2, <1>3, <1>5, AgreeWithin DEF Overlaps
<1> QED BY <1>2, <1>4, <1>5

\* What is apart from a directory is apart from what is in it.
LEMMA ChildApart ==
  ASSUME NEW p \in Path, NEW name \in Names, NEW q \in Path, ~Overlaps(p, q)
  PROVE  ~Overlaps(Append(p, name), q)
<1> DEFINE d == Append(p, name)
<1>1. d \in Path /\ Within(p, d)
  <2>1. d \in Seq(Names) /\ Len(d) = Len(p) + 1 /\ Len(p) \in Nat /\ \A i \in 1 .. Len(p) : d[i] = p[i]
    BY DEF Path
  <2>2. SubSeq(d, 1, Len(p)) \in Seq(Names) /\ Len(SubSeq(d, 1, Len(p))) = Len(p)
        /\ SubSeq(p, 1, Len(p)) \in Seq(Names) /\ Len(SubSeq(p, 1, Len(p))) = Len(p)
    BY <2>1 DEF Path
  <2>3. \A i \in 1 .. Len(p) : SubSeq(d, 1, Len(p))[i] = SubSeq(p, 1, Len(p))[i]
    BY <2>1 DEF Path
  <2>4. SubSeq(d, 1, Len(p)) = SubSeq(p, 1, Len(p))
    BY <2>2, <2>3
  <2> QED BY <2>1, <2>4 DEF Path, Within, IsPrefix
<1> HIDE DEF d
<1>2. CASE Within(q, d)
  BY <1>1, <1>2, PrefixesCompare DEF Overlaps
<1>3. CASE Within(d, q)
  <2>1. SubSeq(d, 1, Len(d)) = SubSeq(q, 1, Len(d)) /\ Len(d) <= Len(q)
        /\ SubSeq(p, 1, Len(p)) = SubSeq(d, 1, Len(p)) /\ Len(p) <= Len(d)
        /\ Len(p) \in Nat /\ Len(d) \in Nat /\ Len(q) \in Nat
    BY <1>1, <1>3 DEF Within, IsPrefix, Path
  <2>2. SubSeq(q, 1, Len(p)) \in Seq(Names) /\ Len(SubSeq(q, 1, Len(p))) = Len(p)
        /\ SubSeq(p, 1, Len(p)) \in Seq(Names) /\ Len(SubSeq(p, 1, Len(p))) = Len(p)
    BY <2>1 DEF Path
  <2>3. ASSUME NEW i \in 1 .. Len(p) PROVE SubSeq(q, 1, Len(p))[i] = SubSeq(p, 1, Len(p))[i]
    <3>1. SubSeq(d, 1, Len(d))[i] = d[i] /\ SubSeq(q, 1, Len(d))[i] = q[i] /\ SubSeq(d, 1, Len(p))[i] = d[i]
          /\ SubSeq(q, 1, Len(p))[i] = q[i]
      BY <1>1, <2>1 DEF Path
    <3> QED BY <2>1, <3>1
  <2>4. SubSeq(q, 1, Len(p)) = SubSeq(p, 1, Len(p))
    BY <2>2, <2>3
  <2> QED BY <2>1, <2>4 DEF Within, IsPrefix, Overlaps
<1> QED BY <1>2, <1>3 DEF Overlaps, d

\* On the way to a child is the child, and what is on the way to its parent.
LEMMA OnTheWay ==
  ASSUME NEW p \in Path, NEW name \in Names, NEW q \in Path, Within(q, Append(p, name)), ~Within(q, p)
  PROVE  q = Append(p, name)
<1> DEFINE d == Append(p, name)
<1>1. d \in Seq(Names) /\ Len(d) = Len(p) + 1 /\ Len(p) \in Nat /\ (\A i \in 1 .. Len(p) : d[i] = p[i])
      /\ q \in Seq(Names) /\ Len(q) \in Nat
  BY DEF Path
<1>2. Len(q) <= Len(d) /\ SubSeq(q, 1, Len(q)) = SubSeq(d, 1, Len(q))
  BY DEF Within, IsPrefix
<1> HIDE DEF d
<1>3. \A i \in 1 .. Len(q) : q[i] = d[i]
  <2>1. ASSUME NEW i \in 1 .. Len(q) PROVE q[i] = d[i]
    <3>1. SubSeq(q, 1, Len(q))[i] = q[i] /\ SubSeq(d, 1, Len(q))[i] = d[i]
      BY <1>1, <1>2
    <3> QED BY <1>2, <3>1
  <2> QED BY <2>1
<1>4. CASE Len(q) = Len(d)
  BY <1>1, <1>3, <1>4 DEF d
<1>5. CASE Len(q) <= Len(p)
  <2>1. \A i \in 1 .. Len(q) : q[i] = p[i]
    BY <1>1, <1>3, <1>5
  <2> QED BY <1>5, <2>1, AgreeWithin
<1> QED BY <1>1, <1>2, <1>4, <1>5

\* No plain link is on the way to where one leads.
LEMMA ResolveTwice ==
  ASSUME NEW links \in SUBSET PlainLink, \A k, l \in links : k = l, NEW p \in Path
  PROVE  \A l \in links : ~Within(l.at, Resolve(links, p))
<1>1. CASE \E l \in links : IsPrefix(l.at, p)
  <2> DEFINE l == CHOOSE k \in links : IsPrefix(k.at, p)
             rest == SubSeq(p, Len(l.at) + 1, Len(p))
  <2>1. l \in links /\ l.to \in Path /\ l.at \in Path /\ ~Overlaps(l.at, l.to)
    BY <1>1 DEF PlainLink, DirLink
  <2>2. rest \in Path /\ Resolve(links, p) = l.to \o rest
    <3>1. Len(l.at) + 1 \in Nat \ {0} /\ Len(p) \in Nat
      BY <2>1 DEF Path
    <3>2. rest \in Path
      BY <3>1 DEF Path
    <3> QED BY <1>1, <3>2 DEF Resolve
  <2> HIDE DEF l, rest
  <2>3. Within(l.to, l.to \o rest) /\ l.to \o rest \in Path
    <3>1. l.to \o rest \in Seq(Names) /\ Len(l.to \o rest) = Len(l.to) + Len(rest) /\ Len(l.to) \in Nat /\ Len(rest) \in Nat
          /\ \A i \in 1 .. Len(l.to) : (l.to \o rest)[i] = l.to[i]
      BY <2>1, <2>2 DEF Path
    <3>2. SubSeq(l.to \o rest, 1, Len(l.to)) \in Seq(Names) /\ Len(SubSeq(l.to \o rest, 1, Len(l.to))) = Len(l.to)
          /\ SubSeq(l.to, 1, Len(l.to)) \in Seq(Names) /\ Len(SubSeq(l.to, 1, Len(l.to))) = Len(l.to)
      BY <2>1, <3>1 DEF Path
    <3>3. \A i \in 1 .. Len(l.to) : SubSeq(l.to \o rest, 1, Len(l.to))[i] = SubSeq(l.to, 1, Len(l.to))[i]
      BY <2>1, <3>1 DEF Path
    <3>4. SubSeq(l.to \o rest, 1, Len(l.to)) = SubSeq(l.to, 1, Len(l.to))
      BY <3>2, <3>3
    <3> QED BY <3>1, <3>4 DEF Path, Within, IsPrefix
  <2> QED BY <2>1, <2>2, <2>3, PrefixesCompare
<1>2. CASE ~\E l \in links : IsPrefix(l.at, p)
  BY <1>2 DEF Resolve, Within
<1> QED BY <1>1, <1>2

\* A root is a path with its links followed once.
LEMMA RootOfSite ==
  ASSUME NEW site \in AnySite, NEW links, NEW v \in DOMAIN LoadConfig(site.placed, links)
  PROVE  /\ \E p \in Path : LoadConfig(site.placed, links)[v] = Resolve(links, p)
         /\ v \in AllRoots
<1>1. site.placed \in [AllRoots -> Path] /\ DOMAIN site.placed = AllRoots
  BY DEF AnySite
<1>2. DOMAIN LoadConfig(site.placed, links) = {r \in AllRoots : site.placed[r] # Unset} \cup Derived
  BY <1>1 DEF LoadConfig
<1>3. Derived \subseteq AllRoots /\ "RESULTS_DIR" \in AllRoots
  BY DEF AllRoots, Outputs, Database
<1>4. CASE site.placed[v] # Unset
  BY <1>1, <1>2, <1>3, <1>4 DEF LoadConfig
<1>5. CASE site.placed[v] = Unset
  <2>1. v \in Derived
    BY <1>2, <1>5
  <2>2. Suffix[v] \in Names
    <3>1. Suffix \in [Derived -> {"runs", "services", "models", "tmp"}]
      BY DEF Suffix, Derived
    <3>2. Suffix[v] \in {"runs", "services", "models", "tmp"}
      BY <2>1, <3>1
    <3> QED BY <3>2 DEF Names
  <2>3. site.placed["RESULTS_DIR"] \in Path
    BY <1>1, <1>3
  <2>4. Append(site.placed["RESULTS_DIR"], Suffix[v]) \in Path
    BY <2>2, <2>3 DEF Path
  <2> QED BY <1>1, <1>2, <1>3, <1>5, <2>4 DEF LoadConfig
<1> QED BY <1>4, <1>5

\* The roots of a site are what a command needs.
LEMMA ConfigOfSite ==
  ASSUME NEW site \in AnySite, NEW links \in SUBSET DirLink, Configured(site.placed)
  PROVE  ConfigOK(LoadConfig(site.placed, links))
<1>1. DOMAIN site.placed = AllRoots
  BY DEF AnySite
<1>2. DOMAIN LoadConfig(site.placed, links) = {r \in AllRoots : site.placed[r] # Unset} \cup Derived
  BY <1>1 DEF LoadConfig
<1>3. {"RESULTS_DIR", "PGDATA_DIR"} \subseteq AllRoots
  BY DEF AllRoots, Outputs, Database
<1>4. \A v \in DOMAIN LoadConfig(site.placed, links) : v \in AllRoots /\ LoadConfig(site.placed, links)[v] \in Path
  <2> SUFFICES ASSUME NEW v \in DOMAIN LoadConfig(site.placed, links)
               PROVE  v \in AllRoots /\ LoadConfig(site.placed, links)[v] \in Path
    OBVIOUS
  <2>1. PICK p \in Path : LoadConfig(site.placed, links)[v] = Resolve(links, p)
    BY RootOfSite
  <2> QED BY <2>1, RootOfSite, ResolvePath
<1> QED BY <1>1, <1>2, <1>3, <1>4 DEF ConfigOK, Configured

\* What services write is below their roots.
LEMMA DataPathsServed ==
  ASSUME NEW config, NEW links
  PROVE  DataPaths(config, links) \subseteq ServedPaths(config)
<1>1. \A k \in DOMAIN Served : Served[k] \in Database \cup {"SERVICE_STATE_DIR", "MODEL_CACHE_DIR"}
  <2>1. DOMAIN Served = {1, 2, 3, 4, 5}
    BY DEF Served
  <2> QED BY <2>1 DEF Served, Database
<1> QED BY <1>1 DEF DataPaths, ServedPaths

\* A target that is accepted is no source, does not hold one, and is not and does
\* not hold the results.
LEMMA AcceptedTarget ==
  ASSUME NEW config, ConfigOK(config), NEW links \in SUBSET DirLink, NEW path \in Path, ~ErasureRefused(config, links, path)
  PROVE  /\ \A s \in SourceRoots(config, links) : ~Overlaps(Resolve(links, path), s)
         /\ ~Within(Resolve(links, path), Resolve(links, config["RESULTS_DIR"]))
<1>1. Resolve(links, path) \in Path /\ Resolve(links, config["RESULTS_DIR"]) \in Path
  BY ResolvePath DEF ConfigOK
<1>2. \A s \in SourceRoots(config, links) : ~Overlaps(Resolve(links, path), s)
  BY DEF ErasureRefused, Violates
<1>3. ~Violates(Resolve(links, path), Resolve(links, config["RESULTS_DIR"]), TRUE)
  BY DEF ErasureRefused
<1>4. Within(Resolve(links, path), Resolve(links, config["RESULTS_DIR"]))
        => ~(Within(Resolve(links, config["RESULTS_DIR"]), Resolve(links, path))
             /\ Resolve(links, path) # Resolve(links, config["RESULTS_DIR"]))
  BY <1>1, WithinBoth
<1> QED BY <1>2, <1>3, <1>4 DEF Violates, Overlaps

\* Of roots that do not overlap the trees that services write are apart from the
\* run journal and the scratch space.
LEMMA RunsApart ==
  ASSUME NEW config, ConfigOK(config), ~Misplaced(config), NEW tree \in ServedPaths(config), NEW v \in {"RUNS_DIR", "TMP_DIR"}
  PROVE  ~Overlaps(tree, config[v])
<1>1. PICK u \in (Database \cup {"SERVICE_STATE_DIR", "MODEL_CACHE_DIR"}) \cap DOMAIN config : tree = config[u]
  BY DEF ServedPaths
<1>2. v \in Derived /\ v \in DOMAIN config
  BY DEF ConfigOK, Derived
<1>3. CASE u \in Database
  <2>1. u \in (Primary \ {"RESULTS_DIR"}) \cap DOMAIN config
    BY <1>1, <1>3 DEF Primary, Database
  <2> QED BY <1>1, <1>2, <2>1 DEF Misplaced, DerivedMisplaced, Overlaps
<1>4. CASE u \in {"SERVICE_STATE_DIR", "MODEL_CACHE_DIR"}
  <2>1. u \in Derived /\ u # v
    BY <1>4 DEF Derived
  <2> QED BY <1>1, <1>2, <2>1 DEF Misplaced, Overlapping, Misfit
<1> QED BY <1>1, <1>3, <1>4

\* A start checks nothing that readiness has not checked.
LEMMA StartChecksLess ==
  ASSUME NEW config, ConfigOK(config), NEW profiles
  PROVE  PathVariables(config, profiles, FALSE) \subseteq PathVariables(config, profiles, TRUE)
<1>1. {"RESULTS_DIR", "RUNS_DIR", "TMP_DIR", "SERVICE_STATE_DIR", "MODEL_CACHE_DIR"} \subseteq DOMAIN config
  BY DEF ConfigOK, Derived
<1>2. PathVariables(config, profiles, FALSE) \subseteq DOMAIN config
  BY <1>1 DEF PathVariables
<1>3. CASE IsPipeline(profiles)
  BY <1>2, <1>3 DEF PathVariables
<1>4. CASE ~IsPipeline(profiles)
  BY <1>4 DEF PathVariables
<1> QED BY <1>3, <1>4

\* What a start lays out: children of the results and of the services' state, roots,
\* and the data directory.
LaidOutAt(config, d) ==
  \/ d = DataDir
  \/ d = Append(config["RESULTS_DIR"], "normalized")
  \/ \E name \in StateServices : d = Append(config["SERVICE_STATE_DIR"], name)
  \/ \E v \in Outputs \cap DOMAIN config : d = config[v]

\* What is in a layout is one of these directories, of a root that was prepared.
LEMMA LayoutIs ==
  ASSUME NEW config, ConfigOK(config), NEW action, NEW profiles, NEW n \in 0 .. Len(LayoutOrder),
         NEW d \in Layout(config, action, profiles, n)
  PROVE  LaidOutAt(config, d)
<1>1. Prepared(config, action, profiles) \subseteq DOMAIN config
  <2>1. {"RESULTS_DIR", "RUNS_DIR", "TMP_DIR", "SERVICE_STATE_DIR", "MODEL_CACHE_DIR"} \subseteq DOMAIN config
    BY DEF ConfigOK, Derived
  <2>2. PathVariables(config, profiles, FALSE) \subseteq DOMAIN config
    BY <2>1 DEF PathVariables
  <2> QED BY <2>2 DEF Prepared
<1>2. Len(LayoutOrder) = 12
  BY DEF LayoutOrder
<1>3. PICK k \in 1 .. n : d = DirectoryOf(config, LayoutOrder[k])
                          /\ LayoutOrder[k] \in Prepared(config, action, profiles) \cup StateServices \cup {"DATA_DIR"}
  BY DEF Layout
<1>4. k \in 1 .. 12
  BY <1>2, <1>3
<1>5. LayoutOrder[k] \in Outputs \cup StateServices \cup {"DATA_DIR"}
  <2>1. \A i \in 1 .. 12 : LayoutOrder[i] \in Outputs \cup StateServices \cup {"DATA_DIR"}
    BY DEF LayoutOrder, Outputs, Database, Derived, StateServices
  <2> QED BY <1>4, <2>1
<1>6. PICK name \in Outputs \cup StateServices \cup {"DATA_DIR"} : name = LayoutOrder[k]
  BY <1>5
<1>7. name \in StateServices \cup {"DATA_DIR"} \/ name \in Outputs \cap DOMAIN config
  BY <1>1, <1>3, <1>6
<1>8. d = DirectoryOf(config, name)
  BY <1>3, <1>6
<1>9. CASE name = "RESULTS_DIR"
  BY <1>8, <1>9 DEF DirectoryOf, LaidOutAt
<1>10. CASE name \in StateServices
  <2>1. name # "RESULTS_DIR"
    BY <1>10 DEF StateServices
  <2> QED BY <1>8, <1>10, <2>1 DEF DirectoryOf, LaidOutAt
<1>11. CASE name = "DATA_DIR"
  <2>1. name # "RESULTS_DIR" /\ name \notin StateServices
    BY <1>11 DEF StateServices
  <2> QED BY <1>8, <1>11, <2>1 DEF DirectoryOf, LaidOutAt
<1>12. CASE name \notin StateServices \cup {"RESULTS_DIR", "DATA_DIR"}
  BY <1>7, <1>8, <1>12 DEF DirectoryOf, LaidOutAt
<1> QED BY <1>9, <1>10, <1>11, <1>12

\* Roots that do not overlap are apart from the sources, and so is what is laid out
\* in them, where no link is.
LEMMA LayoutApart ==
  ASSUME NEW config, ConfigOK(config), ~Misplaced(config), NEW links \in SUBSET PlainLink,
         \A v \in DOMAIN config : \A l \in links : ~Within(l.at, config[v]),
         NEW d, LaidOutAt(config, d), d # DataDir, \A l \in links : l.at # d, NEW s \in SourceRoots(config, links)
  PROVE  ~Overlaps(Resolve(links, d), s)
<1>1. links \subseteq DirLink /\ (\A l \in links : ~Within(l.at, Checkout)) /\ Checkout \in Path
  <2>1. Checkout \in Path
    BY DEF Checkout, Path, Names
  <2> QED BY <2>1 DEF PlainLink
<1>2. s = Checkout \/ \E u \in SiloRoots \cap DOMAIN config : s = config[u]
  <2>1. Resolve(links, Checkout) = Checkout
    BY <1>1 DEF Resolve, Within
  <2>2. \A u \in DOMAIN config : Resolve(links, config[u]) = config[u]
    BY DEF Resolve, Within
  <2> QED BY <2>1, <2>2 DEF SourceRoots, Now
<1>3. ASSUME NEW v \in Outputs \cap DOMAIN config PROVE ~Overlaps(config[v], s)
  <2>1. CASE s = Checkout
    BY <1>3, <2>1 DEF Misplaced, DangerousTargets
  <2>2. ASSUME NEW u \in SiloRoots \cap DOMAIN config, s = config[u] PROVE ~Overlaps(config[v], s)
    <3>1. u \notin Outputs /\ u # "RESULTS_DIR" /\ u \in Primary
      BY DEF SiloRoots, Outputs, Database, Derived, Primary
    <3>2. CASE v \in Derived
      BY <2>2, <3>1, <3>2 DEF Misplaced, DerivedMisplaced
    <3>3. CASE v \notin Derived
      <4>1. v \in Primary
        BY <3>3 DEF Primary, Outputs
      <4> QED BY <2>2, <3>1, <4>1 DEF Misplaced, Overlapping, Misfit
    <3> QED BY <3>2, <3>3
  <2> QED BY <1>2, <2>1, <2>2
<1>4. s \in Path
  BY <1>1, <1>2 DEF ConfigOK
<1>5. ASSUME NEW v \in Outputs \cap DOMAIN config, d = config[v] PROVE ~Overlaps(Resolve(links, d), s)
  <2>1. Resolve(links, d) = d
    BY <1>5 DEF Resolve, Within
  <2> QED BY <1>3, <1>5, <2>1
<1>6. ASSUME NEW v \in Outputs \cap DOMAIN config, NEW name \in Names, d = Append(config[v], name)
      PROVE  ~Overlaps(Resolve(links, d), s)
  <2>1. config[v] \in Path
    BY DEF ConfigOK
  <2>2. ~Overlaps(d, s)
    BY <1>3, <1>4, <1>6, <2>1, ChildApart
  <2>3. ASSUME NEW l \in links PROVE ~Within(l.at, d)
    <3>1. l.at \in Path
      BY <1>1 DEF DirLink
    <3> QED BY <1>6, <2>1, <3>1, OnTheWay
  <2>4. Resolve(links, d) = d
    BY <2>3 DEF Resolve, Within
  <2> QED BY <2>2, <2>4
<1>7. "normalized" \in Names /\ StateServices \subseteq Names
  BY DEF Names
<1>8. {"RESULTS_DIR", "SERVICE_STATE_DIR"} \subseteq Outputs \cap DOMAIN config
  BY DEF ConfigOK, Outputs, Derived
<1> QED BY <1>5, <1>6, <1>7, <1>8 DEF LaidOutAt

\* A command moves on, with something else to do.
Move(c, at, todo) == [c EXCEPT !.at = at, !.todo = todo]

\* Moving on keeps the kind of the command, and what it began with.
LEMMA MovedCommand ==
  ASSUME NEW c, CommandShape(c), NEW at, NEW todo,
         NEW d, d = Move(c, at, todo)
  PROVE      /\ CommandShape(d) /\ d.at = at /\ d.todo = todo /\ d.kind = c.kind /\ d.profiles = c.profiles
             /\ d.answer = c.answer /\ d.swaps = c.swaps /\ d.running = c.running
<1>1. d \in [at : {at}, kind : {c.kind}, profiles : {c.profiles}, todo : {todo},
             answer : {c.answer}, swaps : {c.swaps}, running : {c.running}]
  BY DEF CommandShape, Move
<1> QED BY <1>1 DEF CommandShape

\* A state differs from another in the command only.
LEMMA MovedRoots ==
  ASSUME NEW r, RootsShape(r), NEW c, NEW s, s = [r EXCEPT !.command = c]
  PROVE  /\ RootsShape(s) /\ s.command = c
         /\ s.site = r.site /\ s.links = r.links /\ s.config = r.config /\ s.running = r.running /\ s.erased = r.erased
         /\ s.made = r.made /\ s.wrote = r.wrote /\ s.vouched = r.vouched /\ s.swaps = r.swaps
BY DEF RootsShape

\* What does not change while a command goes on.
Continues ==
  /\ RootsShape(roots') /\ CommandShape(roots'.command)
  /\ roots'.site = roots.site /\ roots'.links = roots.links /\ roots'.config = roots.config /\ roots'.swaps = roots.swaps
  /\ roots'.command.kind = roots.command.kind /\ roots'.command.profiles = roots.command.profiles
  /\ roots'.command.swaps = roots.command.swaps /\ roots'.command.running = roots.command.running

\* A command at work is one that has begun.
LEMMA AtWorkBegun ==
  ASSUME BegunInv, roots.command.at \in AtWork
  PROVE  /\ CommandShape(roots.command) /\ RootsShape(roots) /\ roots.site \in AnySite /\ ConfigOK(roots.config)
         /\ roots.links \in SUBSET DirLink /\ roots.swaps \in Nat
<1>1. roots.command # [at |-> "none"]
  BY DEF AtWork
<1> QED BY <1>1 DEF BegunInv

\* Going on changes none of the roots that a command began with.
LEMMA Continuing ==
  ASSUME BegunInv, roots.command.at \in AtWork, Continues, roots'.command.at \in {"report", "stop", "erase", "ended"},
         roots.command.at = "compose" => roots'.command.at = "ended"
  PROVE  BegunInv'
<1>1. roots.command # [at |-> "none"]
  BY DEF AtWork
<1>2. roots'.command # [at |-> "none"]
  OBVIOUS
<1>3. roots'.command.at \in AtWork \cup {"ended"} /\ roots'.command.at # "compose"
  BY DEF AtWork
<1>4. roots.site # <<>>
  BY <1>1 DEF BegunInv
<1>5. roots.command.at \in AtWork =>
        /\ ConfigOK(roots.config)
        /\ roots.swaps = 0 => roots.config = LoadConfig(roots.site.placed, {})
        /\ roots.command.at = "compose" <=> roots.command.kind = "compose"
  BY DEF BegunInv
<1>6. roots'.command.at \in AtWork =>
        /\ ConfigOK(roots'.config)
        /\ roots'.swaps = 0 => roots'.config = LoadConfig(roots'.site.placed, {})
        /\ roots'.command.at = "compose" <=> roots'.command.kind = "compose"
  <2>1. CASE roots.command.at = "compose"
    BY <1>3, <2>1 DEF AtWork
  <2>2. CASE roots.command.at # "compose"
    BY <1>3, <1>5, <2>2 DEF Continues
  <2> QED BY <2>1, <2>2
<1>7. RootsShape(roots') /\ roots'.links \subseteq DirLink /\ roots'.swaps \in Nat /\ roots'.site \in AnySite
      /\ (roots'.swaps = 0 => roots'.links = {}) /\ roots'.site # <<>>
      /\ CommandShape(roots'.command) /\ roots'.command.swaps \in Nat /\ roots'.command.swaps <= roots'.swaps
  BY <1>1, <1>4 DEF BegunInv, Continues
<1> QED BY <1>2, <1>3, <1>6, <1>7 DEF BegunInv

\* A command goes on when what is new then is true.
LEMMA GoesOnKeeps ==
  ASSUME RootsInv, roots.command.at \in AtWork, Continues, roots'.command.at \in {"report", "stop", "erase", "ended"},
         roots.command.at = "compose" => roots'.command.at = "ended",
         roots'.wrote = roots.wrote \/ ReportInside',
         roots'.made = roots.made \/ MadeWell',
         roots'.erased = roots.erased \/ SourcesKept',
         roots'.vouched = roots.vouched \/ VouchInv',
         ResetInv', RefusedIsWhole', UpFollowsReadiness'
  PROVE  RootsInv'
<1>1. BegunInv /\ VouchInv /\ SourcesKept /\ ReportInside
  BY DEF RootsInv
<1>2. BegunInv'
  BY <1>1, Continuing
<1>3. VouchInv'
  BY <1>1 DEF VouchInv, Continues
<1>4. SourcesKept'
  BY <1>1 DEF SourcesKept, Continues
<1>5. ReportInside'
  BY <1>1 DEF ReportInside, Continues
<1>6. LayoutInv'
  <2>1. LayoutInv
    BY DEF RootsInv
  <2>2. roots'.command.at \in AtWork => roots'.made = {}
    BY <2>1 DEF LayoutInv, AtWork, MadeWell
  <2>3. (\A k, l \in roots'.links : k = l)
        /\ (roots'.command.swaps = roots'.swaps => roots'.config = LoadConfig(roots'.site.placed, roots'.links))
    BY <2>1 DEF LayoutInv, Continues
  <2>4. roots'.links \subseteq PlainLink => LayoutOutside'
    BY <2>1 DEF LayoutInv, LayoutOutside, MadeWell
  <2> QED BY <2>2, <2>3, <2>4 DEF LayoutInv
<1> QED BY <1>2, <1>3, <1>4, <1>5, <1>6 DEF RootsInv

\* A command ends with an answer; what it erased stays.
LEMMA EndKeeps ==
  ASSUME RootsInv, roots.command.at \in AtWork, Continues, roots'.command.at = "ended",
         roots'.erased = roots.erased, roots'.wrote = roots.wrote \/ ReportInside',
         roots'.made = roots.made \/ MadeWell',
         roots'.vouched = roots.vouched \/ VouchInv', RefusedIsWhole', UpFollowsReadiness'
  PROVE  RootsInv'
<1>1. ResetInv'
  BY DEF RootsInv, ResetInv, Continues
<1> QED BY <1>1, GoesOnKeeps

\* Compose starts, stops or prepares services, and erases nothing.
LEMMA ComposeKeeps == ASSUME RootsInv, Compose PROVE RootsInv'
<1>1. roots.command.at = "compose" /\ roots.command.at \in AtWork /\ BegunInv /\ VouchInv
  BY DEF Compose, Command, AtWork, RootsInv
<1>2. CommandShape(roots.command) /\ RootsShape(roots) /\ roots.site \in AnySite /\ ConfigOK(roots.config)
  BY <1>1, AtWorkBegun
<1> DEFINE Outside(made) == roots.links \subseteq PlainLink /\ roots.command.swaps = roots.swaps =>
                              \A m \in made :
                                m.path = Resolve(m.links, DataDir)
                                \/ \A s \in SourceRoots(roots.config, m.links) : ~Overlaps(m.path, s)
<1>3. ASSUME NEW r, NEW answer, RootsShape(r), r.site = roots.site, r.links = roots.links, r.config = roots.config,
             r.swaps = roots.swaps, r.command = roots.command, r.erased = roots.erased, r.wrote = roots.wrote,
             r.vouched = roots.vouched, roots' = End(r, answer), answer \notin {"refused", "planned"}, Outside(r.made),
             roots.swaps = 0 /\ roots.command.todo = "up" /\ roots.command.profiles \in roots.vouched
               => answer \notin {"unsafe roots", "no password"}
      PROVE  RootsInv'
  <2>1. /\ RootsShape(roots') /\ CommandShape(roots'.command)
        /\ roots'.site = r.site /\ roots'.links = r.links /\ roots'.config = r.config
        /\ roots'.erased = r.erased /\ roots'.wrote = r.wrote /\ roots'.made = r.made /\ roots'.vouched = r.vouched /\ roots'.swaps = r.swaps
        /\ roots'.command.at = "ended" /\ roots'.command.answer = answer /\ roots'.command.kind = r.command.kind
        /\ roots'.command.profiles = r.command.profiles /\ roots'.command.todo = r.command.todo
        /\ roots'.command.swaps = r.command.swaps /\ roots'.command.running = r.command.running
    <3>1. RootsShape(r) /\ CommandShape(r.command) /\ roots' = End(r, answer)
      BY <1>2, <1>3
    <3>2. RootsShape(roots') /\ CommandShape(roots'.command)
      BY <3>1, EndFields
    <3>3. roots'.site = r.site /\ roots'.links = r.links /\ roots'.config = r.config
      BY <3>1, EndFields
    <3>4. roots'.command.at = "ended" /\ roots'.command.answer = answer /\ roots'.command.kind = r.command.kind
      BY <3>1, EndFields
    <3> QED BY <3>1, EndFields
  <2>2. Continues
    BY <1>3, <2>1 DEF Continues
  <2>3. RefusedIsWhole'
    BY <1>3, <2>1 DEF RefusedIsWhole
  <2>4. UpFollowsReadiness'
    BY <1>3, <2>1 DEF UpFollowsReadiness
  <2>5. MadeWell'
    BY <1>3, <2>1 DEF MadeWell, LayoutOutside
  <2>6. roots'.erased = roots.erased /\ roots'.wrote = roots.wrote /\ roots'.vouched = roots.vouched
    BY <1>3, <2>1
  <2> QED BY <1>1, <2>1, <2>2, <2>3, <2>4, <2>5, <2>6, EndKeeps
<1> DEFINE action == roots.command.todo
           profiles == roots.command.profiles
           layout(n) == Layout(roots.config, action, profiles, n)
           laid(n) == LaidOut(roots, layout(n))
           after(services) == [laid(Len(LayoutOrder)) EXCEPT !.running = RunningAfter(action, services)]
<1>4. ASSUME roots.swaps = 0, action = "up", profiles \in roots.vouched
      PROVE  ComposeRefused(action, profiles) \notin {"unsafe roots", "no password"}
  <2>1. roots.config = LoadConfig(roots.site.placed, {}) /\ Vouched(roots.site, profiles)
    BY <1>1, <1>4 DEF BegunInv, VouchInv
  <2>2. ~PathsBlocked(roots.config, roots.site.flaws, PathVariables(roots.config, profiles, TRUE))
        /\ (HasDatabase(profiles) => roots.site.password = "secret")
    BY <2>1 DEF Vouched
  <2>3. ~PathsBlocked(roots.config, roots.site.flaws, PathVariables(roots.config, profiles, FALSE))
    BY <1>2, <2>2, StartChecksLess DEF PathsBlocked
  <2>4. Prepared(roots.config, action, profiles) = PathVariables(roots.config, profiles, FALSE)
    BY <1>4 DEF Prepared
  <2> QED BY <1>4, <2>2, <2>3, <2>4 DEF ComposeRefused
<1>5. ComposeRefused(action, profiles) \in {"none", "failed", "no password", "closed gate", "unsafe roots"}
  BY DEF ComposeRefused
<1>i. /\ roots.made = {} /\ (\A k, l \in roots.links : k = l)
      /\ roots.command.swaps = roots.swaps => roots.config = LoadConfig(roots.site.placed, roots.links)
      /\ roots.links \in SUBSET DirLink
  BY <1>1 DEF RootsInv, LayoutInv, BegunInv
<1>6. CASE roots' = End(roots, ComposeRefused(action, profiles))
  <2>1. Outside(roots.made)
    BY <1>i
  <2> HIDE DEF Outside
  <2> QED BY <1>2, <1>3, <1>4, <1>5, <1>6, <2>1
<1>7. ASSUME NEW directories
      PROVE  LET r == LaidOut(roots, directories)
             IN  /\ RootsShape(r) /\ r.site = roots.site /\ r.links = roots.links /\ r.config = roots.config
                 /\ r.swaps = roots.swaps /\ r.command = roots.command /\ r.erased = roots.erased
                 /\ r.wrote = roots.wrote /\ r.vouched = roots.vouched
                 /\ r.made = {[path |-> Resolve(roots.links, d), links |-> roots.links] : d \in {e \in directories : ~LinkAt(roots, e)}}
  <2>1. PICK made : made = {[path |-> Resolve(roots.links, d), links |-> roots.links] : d \in {e \in directories : ~LinkAt(roots, e)}}
    OBVIOUS
  <2>2. LaidOut(roots, directories) = [roots EXCEPT !.made = made]
    BY <2>1 DEF LaidOut
  <2>3. RootsShape([roots EXCEPT !.made = made])
    BY <1>2 DEF RootsShape
  <2> QED BY <1>2, <2>1, <2>2, <2>3 DEF RootsShape
<1>a. ASSUME NEW n \in 0 .. Len(LayoutOrder), ComposeRefused(action, profiles) = "none"
      PROVE  Outside(LaidOut(roots, layout(n)).made)
  <2>1. SUFFICES ASSUME roots.links \subseteq PlainLink, roots.command.swaps = roots.swaps,
                        NEW d \in layout(n), ~LinkAt(roots, d), d # DataDir, NEW s \in SourceRoots(roots.config, roots.links)
                 PROVE  ~Overlaps(Resolve(roots.links, d), s)
    BY <1>7
  <2>2. LaidOutAt(roots.config, d)
    BY <1>2, LayoutIs
  <2>3. ~Misplaced(roots.config)
    <3>1. action # "down"
      BY DEF Layout, Prepared
    <3> QED BY <1>a, <3>1 DEF ComposeRefused, PathsBlocked
  <2>4. ASSUME NEW v \in DOMAIN roots.config, NEW l \in roots.links PROVE ~Within(l.at, roots.config[v])
    <3>0. roots.config = LoadConfig(roots.site.placed, roots.links) /\ roots.site \in AnySite
      BY <1>2, <1>i, <2>1
    <3>1. PICK p \in Path : roots.config[v] = Resolve(roots.links, p)
      <4>1. v \in DOMAIN LoadConfig(roots.site.placed, roots.links)
        BY <3>0
      <4>2. \E p \in Path : LoadConfig(roots.site.placed, roots.links)[v] = Resolve(roots.links, p)
        BY <3>0, <4>1, RootOfSite
      <4> QED BY <3>0, <4>2
    <3> QED BY <1>i, <2>1, <3>1, ResolveTwice
  <2>5. \A l \in roots.links : l.at # d
    BY <2>1 DEF LinkAt
  <2> QED BY <1>2, <2>1, <2>2, <2>3, <2>4, <2>5, LayoutApart
<1>8. ASSUME NEW n \in 0 .. Len(LayoutOrder) - 1, ComposeRefused(action, profiles) = "none",
             roots' = End(laid(n), "failed")
      PROVE  RootsInv'
  <2>0. n \in 0 .. Len(LayoutOrder)
    BY DEF LayoutOrder
  <2> DEFINE r == laid(n)
  <2>1. /\ RootsShape(r) /\ r.site = roots.site /\ r.links = roots.links /\ r.config = roots.config
        /\ r.swaps = roots.swaps /\ r.command = roots.command /\ r.erased = roots.erased
        /\ r.wrote = roots.wrote /\ r.vouched = roots.vouched
    BY <1>7
  <2>2. roots' = End(r, "failed") /\ Outside(r.made)
    BY <1>8, <1>a, <2>0
  <2> HIDE DEF r, Outside
  <2> QED BY <1>3, <2>1, <2>2
<1>9. ASSUME ComposeRefused(action, profiles) = "none", NEW services, NEW answer \in {"failed", "done"},
             roots' = End(after(services), answer)
      PROVE  RootsInv'
  <2> DEFINE s == laid(Len(LayoutOrder))
             r == [s EXCEPT !.running = RunningAfter(action, services)]
  <2>1. /\ RootsShape(s) /\ s.site = roots.site /\ s.links = roots.links /\ s.config = roots.config
        /\ s.swaps = roots.swaps /\ s.command = roots.command /\ s.erased = roots.erased
        /\ s.wrote = roots.wrote /\ s.vouched = roots.vouched
    BY <1>7
  <2>a. Outside(s.made)
    <3>1. Len(LayoutOrder) \in 0 .. Len(LayoutOrder)
      BY DEF LayoutOrder
    <3> QED BY <1>9, <1>a, <3>1
  <2> HIDE DEF s
  <2>2. PICK running : running = RunningAfter(action, services)
    OBVIOUS
  <2>3. /\ RootsShape(r) /\ r.site = s.site /\ r.links = s.links /\ r.config = s.config
        /\ r.swaps = s.swaps /\ r.command = s.command /\ r.erased = s.erased
        /\ r.wrote = s.wrote /\ r.vouched = s.vouched /\ r.made = s.made
    BY <2>1, <2>2 DEF RootsShape
  <2>4. roots' = End(r, answer)
    BY <1>9 DEF s
  <2>5. Outside(r.made)
    BY <2>a, <2>3
  <2> HIDE DEF r, Outside
  <2> QED BY <1>3, <1>9, <2>1, <2>3, <2>4, <2>5
<1>10. \/ roots' = End(roots, ComposeRefused(action, profiles))
       \/ /\ ComposeRefused(action, profiles) = "none"
          /\ \/ \E n \in 0 .. Len(LayoutOrder) - 1 : roots' = End(laid(n), "failed")
             \/ \E some : roots' = End(after(some), "failed")
             \/ roots' = End(after(ServicesFor(profiles)), "done")
  BY Zenon DEF Compose
<1> HIDE DEF laid, after, action, profiles
<1>11. ASSUME ComposeRefused(action, profiles) = "none", NEW some, roots' = End(after(some), "failed") PROVE RootsInv'
  BY <1>9, <1>11
<1>12. ASSUME ComposeRefused(action, profiles) = "none", roots' = End(after(ServicesFor(profiles)), "done") PROVE RootsInv'
  BY <1>9, <1>12
<1> QED BY <1>6, <1>8, <1>10, <1>11, <1>12

\* Readiness vouches for what it has nothing against.
LEMMA InspectKeeps == ASSUME RootsInv, InspectRoots PROVE RootsInv'
<1>1. roots.command.at = "readiness" /\ roots.command.at \in AtWork /\ BegunInv
  BY DEF InspectRoots, Command, AtWork, RootsInv
<1>2. CommandShape(roots.command) /\ RootsShape(roots) /\ roots.command.kind # "compose"
      /\ (roots.swaps = 0 => roots.config = LoadConfig(roots.site.placed, {}))
  BY <1>1, AtWorkBegun DEF BegunInv
<1> DEFINE config == roots.config
           variables == PathVariables(config, roots.command.profiles, TRUE)
           clear == /\ Inspectable(roots.site.flaws, variables) /\ ~PathsBlocked(config, roots.site.flaws, variables)
                    /\ ~HasDatabase(roots.command.profiles) \/ roots.site.password = "secret"
           vouched == IF clear THEN {roots.command.profiles} ELSE {}
<1>3. roots.swaps = 0 => \A p \in vouched : Vouched(roots.site, p)
  BY <1>2 DEF Vouched
<1>5. PICK file : \/ \E answer \in {"done", "no report"} : roots' = End([roots EXCEPT !.vouched = vouched], answer)
                  \/ roots' = [[roots EXCEPT !.vouched = vouched] EXCEPT !.command.at = "report", !.command.todo = file]
  BY DEF InspectRoots
<1> HIDE DEF vouched
<1>p. PICK next : next = [roots EXCEPT !.vouched = vouched]
  OBVIOUS
<1>4. /\ RootsShape(next) /\ next.site = roots.site /\ next.links = roots.links /\ next.config = roots.config
      /\ next.swaps = roots.swaps /\ next.command = roots.command /\ next.erased = roots.erased
      /\ next.wrote = roots.wrote /\ next.made = roots.made /\ next.vouched = vouched /\ next.running = roots.running
  BY <1>2, <1>p DEF RootsShape
<1>6. CommandShape(next.command)
  BY <1>2, <1>4
<1>7. /\ Continues /\ roots'.erased = roots.erased /\ roots'.wrote = roots.wrote /\ roots'.made = roots.made /\ roots'.vouched = vouched
      /\ \/ roots'.command.at = "ended" /\ roots'.command.answer \in {"done", "no report"}
         \/ roots'.command.at = "report"
  <2>1. CASE \E answer \in {"done", "no report"} : roots' = End(next, answer)
    <3>a. PICK answer : answer \in {"done", "no report"} /\ roots' = End(next, answer)
      BY <2>1
    <3>1. RootsShape(next) /\ CommandShape(next.command) /\ roots' = End(next, answer)
      BY <1>4, <1>6, <2>1, <3>a
    <3>2. /\ RootsShape(roots') /\ CommandShape(roots'.command)
          /\ roots'.site = next.site /\ roots'.links = next.links /\ roots'.config = next.config
          /\ roots'.erased = next.erased /\ roots'.wrote = next.wrote /\ roots'.made = next.made /\ roots'.vouched = next.vouched
          /\ roots'.swaps = next.swaps /\ roots'.command.at = "ended" /\ roots'.command.answer = answer
          /\ roots'.command.kind = next.command.kind /\ roots'.command.profiles = next.command.profiles
          /\ roots'.command.swaps = next.command.swaps /\ roots'.command.running = next.command.running
      BY <3>1, EndFields
    <3> QED BY <1>4, <3>a, <3>2 DEF Continues
  <2>2. CASE roots' = [next EXCEPT !.command.at = "report", !.command.todo = file]
    <3>a. PICK at : at = "report"
      OBVIOUS
    <3>b. PICK old : old = next.command
      OBVIOUS
    <3>c. PICK c : c = Move(old, at, file)
      OBVIOUS
    <3>1. CommandShape(c) /\ c.at = at /\ c.kind = next.command.kind /\ c.profiles = next.command.profiles
          /\ c.swaps = next.command.swaps /\ c.running = next.command.running
      <4>1. CommandShape(old)
        BY <1>6, <3>b
      <4>2. CommandShape(c) /\ c.at = at /\ c.kind = old.kind /\ c.profiles = old.profiles
            /\ c.swaps = old.swaps /\ c.running = old.running
        BY <4>1, <3>c, MovedCommand
      <4> QED BY <4>2, <3>b
    <3>2. roots' = [next EXCEPT !.command = c]
      BY <1>4, <2>2, <3>a, <3>b, <3>c DEF RootsShape, Move
    <3>3. RootsShape(next) /\ roots' = [next EXCEPT !.command = c]
      BY <1>4, <3>2
    <3>4. /\ RootsShape(roots') /\ roots'.command = c
          /\ roots'.site = next.site /\ roots'.links = next.links /\ roots'.config = next.config
          /\ roots'.erased = next.erased /\ roots'.wrote = next.wrote /\ roots'.made = next.made /\ roots'.vouched = next.vouched
          /\ roots'.swaps = next.swaps
      BY <3>3, MovedRoots
    <3> QED BY <1>4, <3>a, <3>1, <3>4 DEF Continues
  <2> QED BY <1>5, <1>p, <2>1, <2>2
<1>8. VouchInv' /\ ResetInv' /\ RefusedIsWhole' /\ UpFollowsReadiness'
  <2>1. VouchInv'
    BY <1>3, <1>7 DEF VouchInv, Continues
  <2>2. ResetInv'
    BY <1>7 DEF ResetInv, RootsInv, Continues
  <2>3. RefusedIsWhole'
    BY <1>7 DEF RefusedIsWhole
  <2>4. UpFollowsReadiness'
    BY <1>2, <1>7 DEF UpFollowsReadiness, Continues
  <2> QED BY <2>1, <2>2, <2>3, <2>4
<1> QED BY <1>1, <1>7, <1>8, GoesOnKeeps

\* A report is written where its file was accepted.
LEMMA WriteReportKeeps == ASSUME RootsInv, WriteReport PROVE RootsInv'
<1>1. roots.command.at = "report" /\ roots.command.at \in AtWork /\ BegunInv
  BY DEF WriteReport, Command, AtWork, RootsInv
<1>2. CommandShape(roots.command) /\ RootsShape(roots) /\ roots.command.kind # "compose"
  BY <1>1, AtWorkBegun DEF BegunInv
<1> DEFINE named == roots.command.todo
           directory == Resolve(roots.links, Front(named))
           file == Append(directory, Last(named))
           next == [roots EXCEPT !.made = {[path |-> directory, links |-> roots.links]}]
           written == [next EXCEPT !.wrote = {[path |-> file, links |-> roots.links]}]
<1>3. \/ roots' = End(roots, "no report")
      \/ roots' = End(next, "no report")
      \/ ~ReportRefused(roots.config, roots.links, roots.site.flaws, file) /\ roots' = End(written, "done")
  BY DEF WriteReport
<1>4. ASSUME NEW r, NEW answer, RootsShape(r), r.site = roots.site, r.links = roots.links, r.config = roots.config,
             r.swaps = roots.swaps, r.command = roots.command, r.erased = roots.erased,
             r.vouched = roots.vouched, roots' = End(r, answer), answer \notin {"refused", "planned"}
      PROVE  /\ Continues /\ roots'.command.at = "ended" /\ roots'.erased = roots.erased /\ roots'.vouched = roots.vouched
             /\ roots'.wrote = r.wrote /\ MadeWell' /\ RefusedIsWhole' /\ UpFollowsReadiness'
  <2>1. RootsShape(r) /\ CommandShape(r.command) /\ roots' = End(r, answer)
    BY <1>2, <1>4
  <2>2. /\ RootsShape(roots') /\ CommandShape(roots'.command)
        /\ roots'.site = r.site /\ roots'.links = r.links /\ roots'.config = r.config
        /\ roots'.erased = r.erased /\ roots'.wrote = r.wrote /\ roots'.made = r.made /\ roots'.vouched = r.vouched /\ roots'.swaps = r.swaps
        /\ roots'.command.at = "ended" /\ roots'.command.answer = answer /\ roots'.command.kind = r.command.kind
        /\ roots'.command.profiles = r.command.profiles
        /\ roots'.command.swaps = r.command.swaps /\ roots'.command.running = r.command.running
    BY <2>1, EndFields
  <2>3. Continues
    BY <1>4, <2>2 DEF Continues
  <2>4. RefusedIsWhole'
    BY <1>4, <2>2 DEF RefusedIsWhole
  <2>5. UpFollowsReadiness'
    BY <1>2, <1>4, <2>2 DEF UpFollowsReadiness
  <2>6. MadeWell'
    BY <1>2, <1>4, <2>2 DEF MadeWell, LayoutOutside
  <2> QED BY <1>4, <2>2, <2>3, <2>4, <2>5, <2>6
<1>n. /\ RootsShape(next) /\ next.site = roots.site /\ next.links = roots.links /\ next.config = roots.config
      /\ next.swaps = roots.swaps /\ next.command = roots.command /\ next.erased = roots.erased
      /\ next.vouched = roots.vouched /\ next.wrote = roots.wrote
  <2> HIDE DEF directory
  <2> QED BY <1>2 DEF RootsShape
<1>5. CASE \E r \in {roots, next} : roots' = End(r, "no report")
  <2> HIDE DEF next
  <2>1. /\ Continues /\ roots'.command.at = "ended" /\ roots'.erased = roots.erased /\ roots'.vouched = roots.vouched
        /\ roots'.wrote = roots.wrote /\ MadeWell' /\ RefusedIsWhole' /\ UpFollowsReadiness'
    BY <1>2, <1>4, <1>5, <1>n
  <2> QED BY <1>1, <2>1, EndKeeps
<1>6. CASE ~ReportRefused(roots.config, roots.links, roots.site.flaws, file) /\ roots' = End(written, "done")
  <2>1. /\ RootsShape(written) /\ written.site = roots.site /\ written.links = roots.links /\ written.config = roots.config
        /\ written.swaps = roots.swaps /\ written.command = roots.command /\ written.erased = roots.erased
        /\ written.vouched = roots.vouched /\ written.wrote = {[path |-> file, links |-> roots.links]}
    <3> HIDE DEF next, file
    <3> QED BY <1>n DEF RootsShape
  <2>2. roots' = End(written, "done") /\ ~ReportRefused(roots.config, roots.links, roots.site.flaws, file)
    BY <1>6
  <2> HIDE DEF written, file
  <2>3. /\ Continues /\ roots'.command.at = "ended" /\ roots'.erased = roots.erased /\ roots'.vouched = roots.vouched
        /\ roots'.wrote = written.wrote /\ MadeWell' /\ RefusedIsWhole' /\ UpFollowsReadiness'
    BY <1>4, <2>1, <2>2
  <2>4. /\ Within(Resolve(roots.links, roots.config["RESULTS_DIR"]), file)
        /\ \A s \in SourceRoots(roots.config, roots.links) \cup Now(roots.config, roots.links, Database) : ~Overlaps(file, s)
    BY <2>2 DEF ReportRefused, Violates
  <2>5. roots'.config = roots.config /\ roots'.wrote = {[path |-> file, links |-> roots.links]}
    BY <2>1, <2>3 DEF Continues
  <2>6. ReportInside'
    <3>1. SUFFICES ASSUME NEW w \in roots'.wrote
                   PROVE  /\ Within(Resolve(w.links, roots'.config["RESULTS_DIR"]), w.path)
                          /\ \A s \in SourceRoots(roots'.config, w.links) \cup Now(roots'.config, w.links, Database) :
                               ~Overlaps(w.path, s)
      BY DEF ReportInside
    <3>2. w.path = file /\ w.links = roots.links
      BY <2>5
    <3> QED BY <2>4, <2>5, <3>2
  <2> QED BY <1>1, <2>3, <2>6, EndKeeps
<1> QED BY <1>3, <1>5, <1>6

\* A command that ends as it is keeps all that is known of it.
LEMMA EndsAsItIs ==
  ASSUME RootsInv, roots.command.at \in AtWork, roots.command.kind # "compose", NEW r, NEW answer,
         RootsShape(r), r.site = roots.site, r.links = roots.links, r.config = roots.config, r.swaps = roots.swaps,
         r.command = roots.command, r.erased = roots.erased, r.wrote = roots.wrote /\ r.made = roots.made, r.vouched = roots.vouched,
         roots' = End(r, answer),
         answer = "refused" /\ roots.command.swaps = roots.swaps => r.running = roots.command.running /\ roots.erased = {},
         answer = "planned" => roots.erased = {}
  PROVE  RootsInv'
<1>1. BegunInv
  BY DEF RootsInv
<1>2. CommandShape(roots.command)
  BY <1>1, AtWorkBegun
<1>3. RootsShape(r) /\ CommandShape(r.command) /\ roots' = End(r, answer)
  BY <1>2
<1>4. /\ RootsShape(roots') /\ CommandShape(roots'.command)
      /\ roots'.site = r.site /\ roots'.links = r.links /\ roots'.config = r.config /\ roots'.running = r.running
      /\ roots'.erased = r.erased /\ roots'.wrote = r.wrote /\ roots'.made = r.made /\ roots'.vouched = r.vouched /\ roots'.swaps = r.swaps
      /\ roots'.command.at = "ended" /\ roots'.command.answer = answer /\ roots'.command.kind = r.command.kind
      /\ roots'.command.profiles = r.command.profiles
      /\ roots'.command.swaps = r.command.swaps /\ roots'.command.running = r.command.running
  BY <1>3, EndFields
<1>5. Continues
  BY <1>4 DEF Continues
<1>6. RefusedIsWhole'
  BY <1>4 DEF RefusedIsWhole
<1>7. UpFollowsReadiness'
  BY <1>4 DEF UpFollowsReadiness
<1> QED BY <1>4, <1>5, <1>6, <1>7, EndKeeps

\* The work of a command is done by a command that has begun.
LEMMA ResetAtWork ==
  ASSUME RootsInv, roots.command.at \in {"reset", "stop", "erase"}
  PROVE  /\ roots.command.at \in AtWork /\ roots.command.kind # "compose" /\ CommandShape(roots.command)
         /\ RootsShape(roots) /\ ConfigOK(roots.config) /\ roots.links \in SUBSET DirLink /\ roots.swaps \in Nat
<1>1. roots.command.at \in AtWork /\ roots.command.at # "compose"
  BY DEF AtWork
<1> QED BY <1>1, AtWorkBegun DEF RootsInv, BegunInv

\* A target that is refused stops nothing.
LEMMA CheckKeeps == ASSUME RootsInv, CheckTargets PROVE RootsInv'
<1>1. roots.command.at = "reset" /\ roots.command.at \in AtWork /\ roots.command.kind # "compose" /\ CommandShape(roots.command)
      /\ RootsShape(roots)
  BY ResetAtWork DEF CheckTargets, Command
<1>2. ResetInv
  BY DEF RootsInv
<1>3. roots.erased = {} /\ roots.running = roots.command.running
  BY <1>1, <1>2 DEF ResetInv
<1>4. CASE ~Accepted(roots)
  <2>1. PICK answer : answer = "refused"
    OBVIOUS
  <2>2. roots' = End(roots, answer)
    BY <1>4, <2>1 DEF CheckTargets
  <2> QED BY <1>1, <1>3, <2>1, <2>2, EndsAsItIs
<1>5. CASE Accepted(roots)
  <2>1. PICK at, todo, old : at = "stop" /\ todo = roots.command.todo /\ old = roots.command
    OBVIOUS
  <2>2. PICK c : c = Move(old, at, todo)
    OBVIOUS
  <2>3. roots' = [roots EXCEPT !.command.at = "stop"]
    BY <1>5 DEF CheckTargets
  <2>4. roots' = [roots EXCEPT !.command = c]
    BY <1>1, <2>1, <2>2, <2>3 DEF RootsShape, CommandShape, Move
  <2>5. CommandShape(old)
    BY <1>1, <2>1
  <2>6. CommandShape(c) /\ c.at = at /\ c.todo = todo /\ c.kind = old.kind /\ c.profiles = old.profiles
        /\ c.swaps = old.swaps /\ c.running = old.running
    BY <2>2, <2>5, MovedCommand
  <2>7. /\ RootsShape(roots') /\ roots'.command = c
        /\ roots'.site = roots.site /\ roots'.links = roots.links /\ roots'.config = roots.config
        /\ roots'.erased = roots.erased /\ roots'.wrote = roots.wrote /\ roots'.made = roots.made /\ roots'.vouched = roots.vouched
        /\ roots'.swaps = roots.swaps /\ roots'.running = roots.running
    BY <1>1, <2>4, MovedRoots
  <2>8. Continues /\ roots'.command.at = "stop"
    BY <2>1, <2>6, <2>7 DEF Continues
  <2>9. Accepted(roots')
    BY <1>5, <2>7 DEF Accepted
  <2>10. ResetInv'
    BY <1>3, <2>1, <2>6, <2>7, <2>8, <2>9 DEF ResetInv
  <2>11. RefusedIsWhole' /\ UpFollowsReadiness'
    BY <2>8 DEF RefusedIsWhole, UpFollowsReadiness
  <2> QED BY <1>1, <2>7, <2>8, <2>10, <2>11, GoesOnKeeps
<1> QED BY <1>4, <1>5

\* What is erased was accepted once more when the services had stopped.
LEMMA StopKeeps == ASSUME RootsInv, StopServices PROVE RootsInv'
<1>1. roots.command.at = "stop" /\ roots.command.at \in AtWork /\ roots.command.kind # "compose" /\ CommandShape(roots.command)
      /\ RootsShape(roots)
  BY ResetAtWork DEF StopServices, Command
<1>2. ResetInv
  BY DEF RootsInv
<1>3. roots.erased = {} /\ (roots.command.swaps = roots.swaps => Accepted(roots))
  BY <1>1, <1>2 DEF ResetInv
<1>r. PICK running : running = roots.running \ ServicesFor(roots.command.profiles)
  OBVIOUS
<1>s. PICK stopped : stopped = [roots EXCEPT !.running = running]
  OBVIOUS
<1>4. stopped = [roots EXCEPT !.running = @ \ ServicesFor(roots.command.profiles)]
  BY <1>r, <1>s
<1>5. /\ RootsShape(stopped) /\ stopped.site = roots.site /\ stopped.links = roots.links /\ stopped.config = roots.config
      /\ stopped.swaps = roots.swaps /\ stopped.command = roots.command /\ stopped.erased = roots.erased
      /\ stopped.wrote = roots.wrote /\ stopped.made = roots.made /\ stopped.vouched = roots.vouched
  BY <1>1, <1>s DEF RootsShape
<1>6. \/ \E some : roots' = End([roots EXCEPT !.running = @ \ some], "failed")
      \/ ~Accepted(roots) /\ roots' = End(stopped, "refused")
      \/ roots' = End(stopped, "planned")
      \/ /\ Accepted(roots)
         /\ roots' = [stopped EXCEPT !.command.at = "erase", !.command.todo = DataPaths(roots.config, roots.links)]
  BY <1>4 DEF StopServices
<1>7. CASE \E some : roots' = End([roots EXCEPT !.running = @ \ some], "failed")
  <2>1. PICK answer : answer = "failed"
    OBVIOUS
  <2>2. PICK some : roots' = End([roots EXCEPT !.running = @ \ some], answer)
    BY <1>7, <2>1
  <2>3. PICK left : left = roots.running \ some
    OBVIOUS
  <2>4. PICK part : part = [roots EXCEPT !.running = left]
    OBVIOUS
  <2>5. roots' = End(part, answer)
    BY <2>2, <2>3, <2>4
  <2>6. /\ RootsShape(part) /\ part.site = roots.site /\ part.links = roots.links /\ part.config = roots.config
        /\ part.swaps = roots.swaps /\ part.command = roots.command /\ part.erased = roots.erased
        /\ part.wrote = roots.wrote /\ part.made = roots.made /\ part.vouched = roots.vouched
    BY <1>1, <2>4 DEF RootsShape
  <2> QED BY <1>1, <2>1, <2>5, <2>6, EndsAsItIs
<1>8. CASE ~Accepted(roots) /\ roots' = End(stopped, "refused")
  <2>1. PICK answer : answer = "refused"
    OBVIOUS
  <2>2. roots' = End(stopped, answer) /\ roots.command.swaps # roots.swaps
    BY <1>3, <1>8, <2>1
  <2> QED BY <1>1, <1>5, <2>1, <2>2, EndsAsItIs
<1>9. CASE roots' = End(stopped, "planned")
  <2>1. PICK answer : answer = "planned"
    OBVIOUS
  <2>2. roots' = End(stopped, answer)
    BY <1>9, <2>1
  <2> QED BY <1>1, <1>3, <1>5, <2>1, <2>2, EndsAsItIs
<1>10. CASE /\ Accepted(roots)
            /\ roots' = [stopped EXCEPT !.command.at = "erase", !.command.todo = DataPaths(roots.config, roots.links)]
  <2>1. PICK at, todo, old : at = "erase" /\ todo = DataPaths(roots.config, roots.links) /\ old = roots.command
    OBVIOUS
  <2>2. PICK c : c = Move(old, at, todo)
    OBVIOUS
  <2>3. roots' = [stopped EXCEPT !.command.at = at, !.command.todo = todo]
    BY <1>10, <2>1
  <2>4. roots' = [stopped EXCEPT !.command = c]
    BY <1>5, <2>1, <2>2, <2>3 DEF RootsShape, Move
  <2>5. CommandShape(old)
    BY <1>1, <2>1
  <2>6. CommandShape(c) /\ c.at = at /\ c.todo = todo /\ c.kind = old.kind /\ c.profiles = old.profiles
        /\ c.swaps = old.swaps /\ c.running = old.running
    BY <2>2, <2>5, MovedCommand
  <2>7. /\ RootsShape(roots') /\ roots'.command = c
        /\ roots'.site = stopped.site /\ roots'.links = stopped.links /\ roots'.config = stopped.config
        /\ roots'.erased = stopped.erased /\ roots'.wrote = stopped.wrote /\ roots'.made = stopped.made /\ roots'.vouched = stopped.vouched
        /\ roots'.swaps = stopped.swaps
    BY <1>5, <2>4, MovedRoots
  <2>8. Continues /\ roots'.command.at = "erase"
    BY <1>5, <2>1, <2>6, <2>7 DEF Continues
  <2>9. Accepted(roots')
    BY <1>5, <1>10, <2>7 DEF Accepted
  <2>10. roots'.command.todo = DataPaths(roots'.config, roots'.links)
    BY <1>5, <2>1, <2>6, <2>7
  <2>11. ResetInv'
    <3>1. roots'.command.todo \subseteq ServedPaths(roots'.config)
      BY <2>10, DataPathsServed
    <3>2. roots'.erased = {}
      BY <1>3, <1>5, <2>7
    <3> QED BY <2>8, <2>9, <2>10, <3>1, <3>2 DEF ResetInv
  <2>12. RefusedIsWhole' /\ UpFollowsReadiness'
    BY <2>8 DEF RefusedIsWhole, UpFollowsReadiness
  <2>13. roots'.wrote = roots.wrote /\ roots'.made = roots.made /\ roots'.erased = roots.erased /\ roots'.vouched = roots.vouched
    BY <1>5, <2>7
  <2> QED BY <1>1, <2>8, <2>11, <2>12, <2>13, GoesOnKeeps
<1> QED BY <1>6, <1>7, <1>8, <1>9, <1>10

\* A tree is erased that was accepted where the links lead now.
LEMMA EraseKeeps == ASSUME RootsInv, NEW path, Erase(path) PROVE RootsInv'
<1>1. roots.command.at = "erase" /\ roots.command.at \in AtWork /\ roots.command.kind # "compose" /\ CommandShape(roots.command)
      /\ RootsShape(roots) /\ ConfigOK(roots.config) /\ roots.links \in SUBSET DirLink /\ path \in roots.command.todo
  BY ResetAtWork DEF Erase, Command
<1>2. ResetInv /\ SourcesKept /\ BegunInv
  BY DEF RootsInv
<1>3. /\ path \in ServedPaths(roots.config)
      /\ roots.command.swaps = roots.swaps => ~ErasureRefused(roots.config, roots.links, path)
  BY <1>1, <1>2 DEF ResetInv, Accepted
<1>4. path \in Path
  BY <1>1, <1>3 DEF ServedPaths, ConfigOK
<1>5. CASE ErasureRefused(roots.config, roots.links, path)
  <2>1. PICK answer : answer = "refused"
    OBVIOUS
  <2>2. roots' = End(roots, answer) /\ roots.command.swaps # roots.swaps
    BY <1>3, <1>5, <2>1 DEF Erase
  <2> QED BY <1>1, <2>1, <2>2, EndsAsItIs
<1>6. CASE ~ErasureRefused(roots.config, roots.links, path)
  <2>1. PICK left, erased, old : /\ left = roots.command.todo \ {path}
                                 /\ erased = roots.erased \cup {[tree |-> Resolve(roots.links, path), links |-> roots.links]}
                                 /\ old = roots.command
    OBVIOUS
  <2>2. PICK c, at : c = Move(old, at, left) /\ at = "erase"
    OBVIOUS
  <2>3. PICK next : next = [roots EXCEPT !.command = c, !.erased = erased]
    OBVIOUS
  <2>4. CommandShape(c) /\ c.at = at /\ c.todo = left /\ c.kind = old.kind /\ c.profiles = old.profiles
        /\ c.swaps = old.swaps /\ c.running = old.running
    <3>1. CommandShape(old)
      BY <1>1, <2>1
    <3> QED BY <2>2, <3>1, MovedCommand
  <2>5. /\ RootsShape(next) /\ next.command = c /\ next.site = roots.site /\ next.links = roots.links
        /\ next.config = roots.config /\ next.swaps = roots.swaps /\ next.erased = erased
        /\ next.wrote = roots.wrote /\ next.made = roots.made /\ next.vouched = roots.vouched
    BY <1>1, <2>3 DEF RootsShape
  <2>6. next = [roots EXCEPT !.command.todo = left, !.erased = erased]
    <3>1. c = [old EXCEPT !.todo = left]
      BY <1>1, <2>1, <2>2 DEF CommandShape, Move
    <3> QED BY <1>1, <2>1, <2>3, <3>1 DEF RootsShape
  <2>7. Erased(roots, path) = IF left = {} THEN End(next, "done") ELSE next
    BY <2>1, <2>6 DEF Erased
  <2>8. \/ roots' = End(roots, "not a directory")
        \/ roots' = next
        \/ roots' = End(next, "done")
        \/ roots' = End(next, "failed")
        \/ roots' = End(End(next, "done"), "failed")
    BY <1>6, <2>7 DEF Erase
  <2>9. CASE roots' = End(roots, "not a directory")
    <3>1. PICK answer : answer = "not a directory"
      OBVIOUS
    <3> QED BY <1>1, <2>9, <3>1, EndsAsItIs
  <2>10. ASSUME RootsShape(roots'), CommandShape(roots'.command), roots'.site = next.site, roots'.links = next.links,
                roots'.config = next.config, roots'.swaps = next.swaps, roots'.erased = next.erased,
                roots'.wrote = next.wrote /\ roots'.made = next.made, roots'.vouched = next.vouched,
                roots'.command.kind = c.kind, roots'.command.profiles = c.profiles, roots'.command.swaps = c.swaps,
                roots'.command.running = c.running, roots'.command.todo = c.todo,
                \/ roots'.command.at = "erase"
                \/ roots'.command.at = "ended" /\ roots'.command.answer \in {"done", "failed"}
         PROVE  RootsInv'
    <3>1. Continues
      BY <2>1, <2>4, <2>5, <2>10 DEF Continues
    <3>2. SourcesKept'
      <4>1. SUFFICES ASSUME NEW e \in roots'.erased
                     PROVE  /\ \A s \in SourceRoots(roots'.config, e.links) : ~Overlaps(e.tree, s)
                            /\ ~Within(e.tree, Resolve(e.links, roots'.config["RESULTS_DIR"]))
        BY DEF SourcesKept
      <4>2. roots'.config = roots.config
        BY <2>5, <2>10
      <4>3. CASE e \in roots.erased
        BY <1>2, <4>2, <4>3 DEF SourcesKept
      <4>4. CASE e.tree = Resolve(roots.links, path) /\ e.links = roots.links
        BY <1>1, <1>4, <1>6, <4>2, <4>4, AcceptedTarget
      <4> QED BY <2>1, <2>5, <2>10, <4>1, <4>3, <4>4
    <3>3. ResetInv'
      <4>1. Accepted(roots) /\ roots'.config = roots.config /\ roots'.links = roots.links => Accepted(roots')
        BY DEF Accepted
      <4>2. roots'.command.swaps = roots'.swaps => Accepted(roots')
        BY <1>1, <1>2, <2>1, <2>4, <2>5, <2>10, <4>1 DEF ResetInv
      <4>3. roots'.command.todo \subseteq roots.command.todo
        BY <2>1, <2>4, <2>10
      <4>4. roots'.command.todo \subseteq ServedPaths(roots'.config)
        BY <1>1, <1>2, <2>5, <2>10, <4>3 DEF ResetInv
      <4>5. roots'.command.swaps = roots'.swaps => roots'.command.todo \subseteq DataPaths(roots'.config, roots'.links)
        BY <1>1, <1>2, <2>1, <2>4, <2>5, <2>10, <4>3 DEF ResetInv
      <4>6. ASSUME roots'.swaps = 0, NEW e \in roots'.erased PROVE e.tree \in ServedPaths(roots'.config)
        <5>1. roots.swaps = 0 /\ roots.links = {} /\ roots'.config = roots.config
          BY <1>2, <2>5, <2>10, <4>6 DEF BegunInv
        <5>2. Resolve(roots.links, path) = path
          BY <1>4, <5>1, ResolvePath
        <5>3. e \in roots.erased \/ e.tree = path
          BY <2>1, <2>5, <2>10, <4>6, <5>2
        <5> QED BY <1>2, <1>3, <5>1, <5>3 DEF ResetInv
      <4>7. ConfigOK(roots'.config)
        BY <1>1, <2>5, <2>10
      <4> QED BY <2>10, <4>2, <4>4, <4>5, <4>6, <4>7 DEF ResetInv
    <3>4. RefusedIsWhole'
      BY <2>10 DEF RefusedIsWhole
    <3>5. UpFollowsReadiness'
      BY <1>1, <2>1, <2>4, <2>10 DEF UpFollowsReadiness
    <3>6. roots'.wrote = roots.wrote /\ roots'.made = roots.made /\ roots'.vouched = roots.vouched
      BY <2>5, <2>10
    <3> QED BY <1>1, <2>10, <3>1, <3>2, <3>3, <3>4, <3>5, <3>6, GoesOnKeeps
  <2>11. CASE roots' = next
    BY <2>2, <2>4, <2>5, <2>10, <2>11
  <2>12. ASSUME NEW r, NEW answer, RootsShape(r), CommandShape(r.command), r.site = next.site, r.links = next.links,
                r.config = next.config, r.swaps = next.swaps, r.erased = next.erased, r.wrote = next.wrote /\ r.made = next.made,
                r.vouched = next.vouched, r.command.kind = c.kind, r.command.profiles = c.profiles,
                r.command.swaps = c.swaps, r.command.running = c.running, r.command.todo = c.todo,
                roots' = End(r, answer), answer \in {"done", "failed"}
         PROVE  RootsInv'
    <3>1. RootsShape(r) /\ CommandShape(r.command) /\ roots' = End(r, answer)
      BY <2>12
    <3>2. /\ RootsShape(roots') /\ CommandShape(roots'.command)
          /\ roots'.site = r.site /\ roots'.links = r.links /\ roots'.config = r.config
          /\ roots'.erased = r.erased /\ roots'.wrote = r.wrote /\ roots'.made = r.made /\ roots'.vouched = r.vouched /\ roots'.swaps = r.swaps
          /\ roots'.command.at = "ended" /\ roots'.command.answer = answer /\ roots'.command.kind = r.command.kind
          /\ roots'.command.profiles = r.command.profiles /\ roots'.command.todo = r.command.todo
          /\ roots'.command.swaps = r.command.swaps /\ roots'.command.running = r.command.running
      BY <3>1, EndFields
    <3> QED BY <2>10, <2>12, <3>2
  <2>13. PICK done, failed : done = "done" /\ failed = "failed"
    OBVIOUS
  <2>14. CASE roots' = End(next, done) \/ roots' = End(next, failed)
    BY <2>4, <2>5, <2>12, <2>13, <2>14
  <2>15. CASE roots' = End(End(next, done), failed)
    <3>1. PICK r : r = End(next, done)
      OBVIOUS
    <3>2. RootsShape(next) /\ CommandShape(next.command)
      BY <2>4, <2>5
    <3>3. /\ RootsShape(r) /\ CommandShape(r.command)
          /\ r.site = next.site /\ r.links = next.links /\ r.config = next.config
          /\ r.erased = next.erased /\ r.wrote = next.wrote /\ r.made = next.made /\ r.vouched = next.vouched /\ r.swaps = next.swaps
          /\ r.command.kind = next.command.kind
          /\ r.command.profiles = next.command.profiles /\ r.command.todo = next.command.todo
          /\ r.command.swaps = next.command.swaps /\ r.command.running = next.command.running
      BY <3>1, <3>2, EndFields
    <3>4. roots' = End(r, failed) /\ failed \in {"done", "failed"}
      BY <2>13, <2>15, <3>1
    <3> QED BY <2>5, <2>12, <3>3, <3>4
  <2> QED BY <2>8, <2>9, <2>11, <2>13, <2>14, <2>15
<1> QED BY <1>5, <1>6

\* When a directory becomes a link, nothing is claimed any more that held of the
\* links before.
LEMMA SwapKeeps == ASSUME RootsInv, NEW link \in DirLink, Swap(link) PROVE RootsInv'
<1>1. RootsShape(roots) /\ roots.swaps \in Nat /\ BegunInv /\ ResetInv /\ SourcesKept /\ ReportInside
  BY DEF RootsInv, BegunInv
<1>s. PICK swaps \in Nat : swaps = roots.swaps + 1
  BY <1>1
<1>2. roots' = [roots EXCEPT !.links = {link}, !.swaps = swaps]
  BY <1>s DEF Swap
<1>3. /\ RootsShape(roots') /\ roots'.links = {link} /\ roots'.swaps = swaps
      /\ roots'.site = roots.site /\ roots'.config = roots.config /\ roots'.running = roots.running
      /\ roots'.erased = roots.erased /\ roots'.wrote = roots.wrote /\ roots'.made = roots.made /\ roots'.vouched = roots.vouched
      /\ roots'.command = roots.command
  BY <1>1, <1>2 DEF RootsShape
<1>4. swaps # 0 /\ (roots.command.swaps \in Nat /\ roots.command.swaps <= roots.swaps
                      => roots.command.swaps <= swaps /\ roots.command.swaps # swaps)
  BY <1>1, <1>s
<1>5. BegunInv'
  BY <1>1, <1>3, <1>4 DEF BegunInv
<1>6. roots.command.at \in AtWork \cup {"ended"} => roots.command.swaps # swaps
  <2>1. roots.command = [at |-> "none"] => roots.command.at = "none"
    OBVIOUS
  <2>2. "none" \notin AtWork \cup {"ended"}
    BY DEF AtWork
  <2> QED BY <1>1, <1>4, <2>1, <2>2 DEF BegunInv
<1>7. ResetInv'
  BY <1>1, <1>3, <1>4, <1>6 DEF ResetInv, AtWork
<1>l. LayoutInv'
  <2>1. LayoutInv
    BY DEF RootsInv
  <2>2. roots.command.at = "ended" => roots.command.swaps # swaps
    BY <1>6
  <2> QED BY <1>3, <1>6, <2>1, <2>2 DEF LayoutInv, LayoutOutside
<1>8. VouchInv' /\ UpFollowsReadiness'
  BY <1>3, <1>4 DEF VouchInv, UpFollowsReadiness
<1>9. SourcesKept' /\ ReportInside'
  BY <1>1, <1>3 DEF SourcesKept, ReportInside
<1>10. RefusedIsWhole'
  <2>1. RefusedIsWhole
    BY DEF RootsInv
  <2> QED BY <1>3, <1>6, <2>1 DEF RefusedIsWhole
<1> QED BY <1>5, <1>7, <1>l, <1>8, <1>9, <1>10 DEF RootsInv

\* A command begins with nothing erased, made or written.
LEMMA BeganKeeps ==
  ASSUME RootsInv, CanStart, NEW kind \in {"compose", "readiness", "reset"}, NEW requested, NEW todo,
         roots' = Began(kind, requested, todo)
  PROVE  RootsInv'
<1>1. BegunInv /\ VouchInv /\ roots.site \in AnySite /\ roots.links \in SUBSET DirLink /\ RootsShape(roots) /\ roots.swaps \in Nat
      /\ roots.site # <<>>
  BY DEF RootsInv, BegunInv, CanStart
<1> DEFINE command == [at |-> kind, kind |-> kind, profiles |-> ParseProfiles(requested), todo |-> todo,
                       answer |-> "none", swaps |-> roots.swaps, running |-> roots.running]
           next == [roots EXCEPT !.commands = @ + 1, !.erased = {}, !.made = {}, !.wrote = {}, !.config = <<>>,
                                 !.command = command]
<1>2. CommandShape(command) /\ command.at = kind /\ command.kind = kind /\ command.answer = "none"
      /\ command.swaps = roots.swaps /\ command.running = roots.running
  BY DEF CommandShape
<1>3. roots' = IF ~Configured(roots.site.placed) THEN End(next, "unconfigured")
               ELSE [next EXCEPT !.config = LoadConfig(roots.site.placed, roots.links)]
  BY DEF Began
<1> HIDE DEF command
<1>4. /\ RootsShape(next) /\ next.site = roots.site /\ next.links = roots.links /\ next.running = roots.running
      /\ next.erased = {} /\ next.wrote = {} /\ next.made = {} /\ next.vouched = roots.vouched /\ next.swaps = roots.swaps
      /\ next.command = command
  <2>1. next \in [site : {roots.site}, links : {roots.links}, config : {<<>>}, command : {command}, running : {roots.running},
                  erased : {{}}, made : {{}}, wrote : {{}}, vouched : {roots.vouched}, commands : {roots.commands + 1},
                  swaps : {roots.swaps}]
    BY <1>1 DEF RootsShape
  <2> HIDE DEF next
  <2> QED BY <2>1 DEF RootsShape
<1> HIDE DEF next
<1>5. /\ RootsShape(roots') /\ roots'.site = roots.site /\ roots'.links = roots.links /\ roots'.running = roots.running
      /\ roots'.erased = {} /\ roots'.wrote = {} /\ roots'.made = {} /\ roots'.vouched = roots.vouched /\ roots'.swaps = roots.swaps
      /\ CommandShape(roots'.command) /\ roots'.command.kind = kind /\ roots'.command.swaps = roots.swaps
      /\ roots'.command.running = roots.running
      /\ \/ roots'.command.at = "ended" /\ roots'.command.answer = "unconfigured"
         \/ roots'.command.at = kind /\ Configured(roots.site.placed) /\ roots'.config = LoadConfig(roots.site.placed, roots.links)
  <2>1. CASE Configured(roots.site.placed)
    <3>1. roots' = [next EXCEPT !.config = LoadConfig(roots.site.placed, roots.links)]
      BY <1>3, <2>1
    <3>2. PICK config : config = LoadConfig(roots.site.placed, roots.links)
      OBVIOUS
    <3>3. /\ RootsShape(roots') /\ roots'.site = next.site /\ roots'.links = next.links /\ roots'.running = next.running
          /\ roots'.erased = next.erased /\ roots'.wrote = next.wrote /\ roots'.made = next.made /\ roots'.vouched = next.vouched
          /\ roots'.swaps = next.swaps /\ roots'.command = next.command /\ roots'.config = config
      BY <1>4, <3>1, <3>2 DEF RootsShape
    <3> QED BY <1>2, <1>4, <2>1, <3>2, <3>3
  <2>2. CASE ~Configured(roots.site.placed)
    <3>1. roots' = End(next, "unconfigured")
      BY <1>3, <2>2
    <3> QED BY <1>2, <1>4, <3>1, EndFields
  <2> QED BY <2>1, <2>2
<1>6. BegunInv'
  <2>1. kind \in AtWork
    BY DEF AtWork
  <2>2. roots'.command # [at |-> "none"]
    BY <1>5, <2>1 DEF AtWork
  <2>3. roots'.command.at \in AtWork => ConfigOK(roots'.config) /\ roots'.config = LoadConfig(roots.site.placed, roots.links)
    BY <1>1, <1>5, ConfigOfSite DEF AtWork
  <2>4. /\ RootsShape(roots') /\ roots'.links \subseteq DirLink /\ roots'.swaps \in Nat /\ roots'.site \in AnySite
        /\ (roots'.swaps = 0 => roots'.links = {}) /\ roots'.site # <<>>
        /\ CommandShape(roots'.command) /\ roots'.command.swaps \in Nat /\ roots'.command.swaps <= roots'.swaps
    BY <1>1, <1>5 DEF BegunInv
  <2>5. roots'.command.at \in AtWork \cup {"ended"}
    BY <1>5, <2>1
  <2>6. roots'.command.at \in AtWork =>
          /\ roots'.swaps = 0 => roots'.config = LoadConfig(roots'.site.placed, {})
          /\ roots'.command.at = "compose" <=> roots'.command.kind = "compose"
    BY <1>1, <1>5, <2>3 DEF BegunInv, AtWork
  <2> QED BY <2>2, <2>3, <2>4, <2>5, <2>6 DEF BegunInv
<1>7. ResetInv' /\ SourcesKept' /\ ReportInside' /\ RefusedIsWhole' /\ UpFollowsReadiness'
  BY <1>5 DEF ResetInv, SourcesKept, ReportInside, RefusedIsWhole, UpFollowsReadiness
<1>8. VouchInv'
  BY <1>1, <1>5 DEF VouchInv
<1>9. LayoutInv'
  <2>1. LayoutInv /\ "ended" \notin AtWork
    BY DEF RootsInv, AtWork
  <2> QED BY <1>5, <2>1 DEF LayoutInv, LayoutOutside
<1> QED BY <1>6, <1>7, <1>8, <1>9 DEF RootsInv

\* Before a site is placed no command has begun.
LEMMA PlaceKeeps == ASSUME RootsInv, NEW site \in AnySite, Place(site) PROVE RootsInv'
<1>1. RootsShape(roots) /\ BegunInv /\ roots.site = <<>> /\ roots' = [roots EXCEPT !.site = site]
  BY DEF RootsInv, BegunInv, Place
<1>2. /\ RootsShape(roots') /\ roots'.site = site /\ roots'.links = roots.links /\ roots'.swaps = roots.swaps
      /\ roots'.config = roots.config /\ roots'.running = roots.running /\ roots'.command = roots.command
      /\ roots'.erased = roots.erased /\ roots'.wrote = roots.wrote /\ roots'.made = roots.made /\ roots'.vouched = roots.vouched
  BY <1>1 DEF RootsShape
<1>3. roots.command = [at |-> "none"] /\ roots.erased = {} /\ roots.wrote = {} /\ roots.vouched = {}
  BY <1>1 DEF BegunInv
<1>4. roots.command.at = "none" /\ "none" \notin AtWork
  BY <1>3 DEF AtWork
<1>5. BegunInv'
  BY <1>1, <1>2, <1>3, <1>4 DEF BegunInv
<1>6. ResetInv' /\ VouchInv' /\ SourcesKept' /\ ReportInside' /\ RefusedIsWhole' /\ UpFollowsReadiness'
  BY <1>2, <1>3, <1>4 DEF ResetInv, VouchInv, SourcesKept, ReportInside, RefusedIsWhole, UpFollowsReadiness
<1>7. LayoutInv'
  <2>1. LayoutInv
    BY DEF RootsInv
  <2> QED BY <1>2, <1>4, <2>1 DEF LayoutInv, LayoutOutside
<1> QED BY <1>5, <1>6, <1>7 DEF RootsInv

\* Every step of every command.
LEMMA RootsStep ==
  ASSUME RootsInv, RootsNext(AnySite, SUBSET STRING, Path, DirLink)
  PROVE  RootsInv'
<1>1. ASSUME NEW site \in AnySite, Place(site) PROVE RootsInv'
  BY <1>1, PlaceKeeps
<1>2. ASSUME NEW action, NEW requested, AskCompose(action, requested) PROVE RootsInv'
  <2>1. PICK kind \in {"compose", "readiness", "reset"} : kind = "compose"
    OBVIOUS
  <2>2. CanStart /\ roots' = Began(kind, requested, action)
    BY <1>2, <2>1 DEF AskCompose
  <2> QED BY <2>2, BeganKeeps
<1>c. CASE AskConfig
  <2>1. PICK kind \in {"compose", "readiness", "reset"} : kind = "compose"
    OBVIOUS
  <2>2. PICK action, requested : action = "config" /\ requested = {}
    OBVIOUS
  <2>3. CanStart /\ roots' = Began(kind, requested, action)
    BY <1>c, <2>1, <2>2 DEF AskConfig
  <2> QED BY <2>3, BeganKeeps
<1>3. ASSUME NEW requested, NEW apply \in BOOLEAN, AskReset(requested, apply) PROVE RootsInv'
  <2>1. PICK kind \in {"compose", "readiness", "reset"} : kind = "reset"
    OBVIOUS
  <2>2. PICK todo : todo = IF apply THEN "apply" ELSE "plan"
    OBVIOUS
  <2>3. CanStart /\ roots' = Began(kind, requested, todo)
    BY <1>3, <2>1, <2>2 DEF AskReset
  <2> QED BY <2>3, BeganKeeps
<1>4. ASSUME NEW requested, NEW file, AskReadiness(requested, file) PROVE RootsInv'
  <2>1. PICK kind \in {"compose", "readiness", "reset"} : kind = "readiness"
    OBVIOUS
  <2>2. PICK asked : asked = IF Known(requested) THEN requested ELSE {}
    OBVIOUS
  <2>3. CanStart /\ roots' = Began(kind, asked, file)
    BY <1>4, <2>1, <2>2 DEF AskReadiness
  <2> QED BY <2>3, BeganKeeps
<1>5. CASE Compose
  BY <1>5, ComposeKeeps
<1>6. CASE InspectRoots
  BY <1>6, InspectKeeps
<1>7. CASE WriteReport
  BY <1>7, WriteReportKeeps
<1>8. CASE CheckTargets
  BY <1>8, CheckKeeps
<1>9. CASE StopServices
  BY <1>9, StopKeeps
<1>10. ASSUME NEW path, Erase(path) PROVE RootsInv'
  BY <1>10, EraseKeeps
<1>11. ASSUME NEW link \in DirLink, Swap(link) PROVE RootsInv'
  BY <1>11, SwapKeeps
<1> QED BY <1>1, <1>2, <1>c, <1>3, <1>4, <1>5, <1>6, <1>7, <1>8, <1>9, <1>10, <1>11 DEF RootsNext

\* It is about the roots only, and so is kept by what leaves them alone.
LEMMA RootsStutter == ASSUME RootsInv, UNCHANGED roots PROVE RootsInv'
<1>1. roots' = roots
  OBVIOUS
<1>2. BegunInv' /\ VouchInv'
  BY <1>1 DEF RootsInv, BegunInv, VouchInv
<1>3. ResetInv'
  BY <1>1 DEF RootsInv, ResetInv, Accepted
<1>4. SourcesKept' /\ ReportInside'
  BY <1>1 DEF RootsInv, SourcesKept, ReportInside
<1>5. RefusedIsWhole'
  BY <1>1 DEF RootsInv, RefusedIsWhole
<1>6. UpFollowsReadiness'
  BY <1>1 DEF RootsInv, UpFollowsReadiness
<1>7. LayoutInv'
  BY <1>1 DEF RootsInv, LayoutInv, LayoutOutside
<1> QED BY <1>2, <1>3, <1>4, <1>5, <1>6, <1>7 DEF RootsInv

\* It holds at first, whatever the client has asked.
LEMMA RootsInitially == ASSUME RootsInit PROVE RootsInv
<1>1. RootsShape(roots) /\ roots.links = {} /\ roots.swaps = 0 /\ roots.site = <<>> /\ roots.command = [at |-> "none"]
      /\ roots.erased = {} /\ roots.wrote = {} /\ roots.vouched = {}
  BY DEF RootsInit, RootsShape
<1>2. roots.command.at = "none" /\ "none" \notin AtWork
  BY <1>1 DEF AtWork
<1>3. BegunInv
  BY <1>1, <1>2 DEF BegunInv
<1>4. LayoutInv
  BY <1>1, <1>2 DEF LayoutInv, LayoutOutside
<1> QED BY <1>1, <1>2, <1>3, <1>4 DEF RootsInv, ResetInv, VouchInv, SourcesKept, ReportInside, RefusedIsWhole, UpFollowsReadiness

\* So it holds throughout.
LEMMA RootsInvariance == RootsSpec => []RootsInv
<1>1. call = Ready /\ RootsInit => RootsInv
  BY RootsInitially
<1>2. RootsInv /\ [RootsNext(AnySite, SUBSET STRING, Path, DirLink)]_<<call, roots>> => RootsInv'
  BY RootsStep, RootsStutter
<1> QED BY <1>1, <1>2, PTL DEF RootsSpec

\* What the invariant says of the sources, the journal and the reports.
LEMMA RootsAreSafe == RootsInv => SourcesKept /\ RunsKept /\ RefusedIsWhole /\ ReportInside /\ UpFollowsReadiness
<1>1. RootsInv => SourcesKept /\ RefusedIsWhole /\ ReportInside /\ UpFollowsReadiness
  BY DEF RootsInv
<1>2. RootsInv => RunsKept
  <2> SUFFICES ASSUME RootsInv, roots.swaps = 0, ~Misplaced(roots.config), NEW e \in roots.erased, NEW v \in {"RUNS_DIR", "TMP_DIR"}
               PROVE  ~Overlaps(e.tree, roots.config[v])
    BY DEF RunsKept
  <2>1. e.tree \in ServedPaths(roots.config) /\ ConfigOK(roots.config)
    BY DEF RootsInv, ResetInv
  <2> QED BY <2>1, RunsApart
<1> QED BY <1>1, <1>2

\* A reset erases no source, nothing that holds one, and not the results, nor the
\* run journal or the scratch space of roots that are sound; a refused one has
\* done nothing; a report is written inside the results; and what readiness
\* lets pass is not refused by a start (runtime/service_reset.py,
\* runtime/containment.py, readiness/run.py).
THEOREM SourcesSurvive ==
  RootsSpec => [](SourcesKept /\ RunsKept /\ RefusedIsWhole /\ ReportInside /\ UpFollowsReadiness)
BY RootsAreSafe, RootsInvariance, PTL

-----------------------------------------------------------------------------
(***************************************************************************)
(* What readiness says of a host                                           *)
(***************************************************************************)
AllProfiles == DOMAIN ProfileServices \cup DOMAIN ProfileAliases

\* Hosts with at most one trouble of each part.
Hosts == {d \in SUBSET Trouble : \A x, y \in d : x[1] = y[1] => x = y}

\* The findings that are not ready advise nothing that would change the host.
Useless(F, profiles, d) ==
  \A f \in F : f.status \in {"blocked", "degraded"} => Follow(profiles, d, f.action) = d

\* A check that found trouble is among the findings.
LEMMA CheckFinds ==
  ASSUME NEW F, NEW troubled \in BOOLEAN, NEW name, NEW status \in {"blocked", "degraded"}, NEW action,
         Check(troubled, name, status, action) \subseteq F, troubled
  PROVE  \E f \in F : f.status = status /\ f.action = action
BY DEF Check, Finding

\* The remedies that are not named like a part.
Remedies == {"none", "services-up", "pipeline-up", "vllm-up", "image"}

\* Doing what is named like a part puts the part right.
LEMMA PutRight ==
  ASSUME NEW profiles, NEW d, NEW part, part \notin Remedies, About(d, part) # {}
  PROVE  Follow(profiles, d, part) # d
<1>1. PICK x \in d : x[1] = part
  BY DEF About
<1>2. Follow(profiles, d, part) = {y \in d : y[1] # part}
  BY DEF Follow, Remedies
<1> QED BY <1>1, <1>2

\* So a part that is checked is in order when no advice changes anything.
LEMMA PartInOrder ==
  ASSUME NEW F, NEW profiles, NEW d, Useless(F, profiles, d), NEW part, part \notin Remedies,
         \E f \in F : f.status \in {"blocked", "degraded"} /\ f.action = part
  PROVE  About(d, part) = {}
BY PutRight DEF Useless

\* The troubles there are of each part.
LEMMA TroublesOf ==
  ASSUME NEW d \in Hosts
  PROVE  /\ About(d, "gpu") \subseteq {"missing", "failing"}
         /\ About(d, "docker") \subseteq {"missing", "failing"}
         /\ About(d, "vllm") \subseteq {"absent", "starting"}
         /\ About(d, "backend") \subseteq {"vllm", "unknown"}
         /\ About(d, "paths") \subseteq {"unsafe", "network", "elsewhere"}
         /\ About(d, "contracts") \in {{}, {"none"}, {"no extra"}, {"invalid"}}
         /\ About(d, "database") \subseteq {"absent", "starting", "unreported"}
<1>0. Services = {"database", "age-viewer", "grafana", "postgres-exporter", "prometheus", "vllm", "cadvisor"}
  <2>1. DOMAIN ProfileServices = {"core", "graph", "ui", "observability", "vllm", "cadvisor"}
    BY DEF ProfileServices
  <2>2. Services = ProfileServices.core \cup ProfileServices.graph \cup ProfileServices.ui \cup ProfileServices.observability
                   \cup ProfileServices.vllm \cup ProfileServices.cadvisor
    BY <2>1 DEF Services
  <2>3. ProfileServices.core = {"database"} /\ ProfileServices.graph = {"database", "age-viewer"}
        /\ ProfileServices.ui = {"database", "grafana"}
        /\ ProfileServices.observability = {"database", "postgres-exporter", "prometheus"}
        /\ ProfileServices.vllm = {"vllm"} /\ ProfileServices.cadvisor = {"cadvisor"}
    BY DEF ProfileServices
  <2> QED BY <2>2, <2>3
<1>1. \A x \in d : x \in Trouble
  BY DEF Hosts
<1>2. ASSUME NEW x \in d PROVE
        /\ x[1] = "gpu" => x[2] \in {"missing", "failing"}
        /\ x[1] = "docker" => x[2] \in {"missing", "failing"}
        /\ x[1] = "vllm" => x[2] \in {"absent", "starting"}
        /\ x[1] = "backend" => x[2] \in {"vllm", "unknown"}
        /\ x[1] = "paths" => x[2] \in {"unsafe", "network", "elsewhere"}
        /\ x[1] = "contracts" => x[2] \in {"none", "no extra", "invalid"}
        /\ x[1] = "database" => x[2] \in {"absent", "starting", "unreported"}
  <2>1. CASE x \in Amiss \X {"amiss"}
    BY <2>1 DEF Amiss
  <2>2. CASE x \in {"git", "make", "uv", "docker", "gpu"} \X {"missing", "failing"}
    BY <2>2
  <2>3. CASE x \in {"password"} \X {"none", "placeholder"}
    BY <2>3
  <2>4. CASE x \in {"contracts"} \X {"none", "no extra", "invalid"}
    BY <2>4
  <2>5. CASE x \in {"backend"} \X {"vllm", "unknown"}
    BY <2>5
  <2>6. CASE x \in {"ollama"} \X {"foreign", "down", "garbled"}
    BY <2>6
  <2>7. CASE x \in Services \X {"absent", "starting"}
    BY <1>0, <2>7
  <2>8. CASE x \in {"database"} \X {"unreported"}
    BY <2>8
  <2>9. CASE x \in Extensions \X {"missing", "not installed"}
    BY <2>9 DEF Extensions
  <2>10. CASE x \in {"paths"} \X {"unsafe", "network", "elsewhere"}
    BY <2>10
  <2>11. CASE x \in {"others"} \X {"unset"}
    BY <2>11
  <2> QED BY <1>1, <2>1, <2>2, <2>3, <2>4, <2>5, <2>6, <2>7, <2>8, <2>9, <2>10, <2>11 DEF Trouble
<1>3. About(d, "contracts") \subseteq {"none", "no extra", "invalid"}
  BY <1>2 DEF About
<1>4. \A a, b \in About(d, "contracts") : a = b
  BY DEF About, Hosts
<1> QED BY <1>2, <1>3, <1>4 DEF About

\* A profile that is asked for is one that there is.
LEMMA ProfilesKnown ==
  ASSUME NEW requested \in SUBSET AllProfiles, NEW d
  PROVE  PlannedProfiles(requested, d) \subseteq DOMAIN ProfileServices
<1>1. \A asked \in SUBSET AllProfiles : ParseProfiles(asked) \subseteq DOMAIN ProfileServices
  BY DEF AllProfiles, ParseProfiles, ProfileAliases, ProfileServices
<1> QED BY <1>1 DEF PlannedProfiles, AllProfiles

\* What the services of a pipeline are, and of vLLM.
LEMMA ServicesOf ==
  ASSUME NEW profiles \in SUBSET DOMAIN ProfileServices
  PROVE  /\ "graph" \in profiles => HasDatabase(profiles)
         /\ IsPipeline(profiles) => HasDatabase(profiles)
         /\ ~NeedsInference(profiles) => "vllm" \notin ServicesFor(profiles)
         /\ "database" \in ServicesFor(ParseProfiles({})) /\ "vllm" \notin ServicesFor(ParseProfiles({}))
         /\ "graph" \notin ParseProfiles({})
         /\ "vllm" \in ServicesFor({"vllm"}) /\ ~HasDatabase({"vllm"})
         /\ ServicesFor(profiles) \subseteq Services
<1>1. ProfileServices.core = {"database"} /\ ProfileServices.graph = {"database", "age-viewer"}
      /\ ProfileServices.ui = {"database", "grafana"}
      /\ ProfileServices.observability = {"database", "postgres-exporter", "prometheus"}
      /\ ProfileServices.vllm = {"vllm"} /\ ProfileServices.cadvisor = {"cadvisor"}
      /\ DOMAIN ProfileServices = {"core", "graph", "ui", "observability", "vllm", "cadvisor"}
  BY DEF ProfileServices
<1>2. ParseProfiles({}) = {"core", "ui", "observability"} /\ ProfileAliases["pipeline"] = {"core", "ui", "observability"}
  BY DEF ParseProfiles, ProfileAliases
<1>3. "graph" \in profiles => HasDatabase(profiles)
  BY <1>1 DEF HasDatabase, ServicesFor
<1>4. IsPipeline(profiles) => HasDatabase(profiles)
  BY <1>1, <1>2 DEF IsPipeline, HasDatabase, ServicesFor
<1>5. "database" \in ServicesFor(ParseProfiles({})) /\ "vllm" \notin ServicesFor(ParseProfiles({}))
  BY <1>1, <1>2 DEF ServicesFor
<1>6. "vllm" \in ServicesFor({"vllm"}) /\ ~HasDatabase({"vllm"})
  BY <1>1 DEF ServicesFor, HasDatabase
<1>7. ServicesFor(profiles) \subseteq Services
  BY DEF ServicesFor, Services
<1> QED BY <1>2, <1>3, <1>4, <1>5, <1>6, <1>7 DEF NeedsInference

\* The host is one on which commands can be given.
Answering(F, profiles, d) ==
  /\ About(d, "root") = {} /\ About(d, "config") = {} /\ About(d, "profiles") = {}
  /\ About(d, "paths") = {} /\ About(d, "report") = {}
  /\ \A t \in {"python", "git", "make", "uv", "docker", "compose"} : Responds(d, t)
  /\ "failing" \notin About(d, "gpu")
  /\ "vllm" \in ServicesFor(profiles) => About(d, "gpu") = {}
  /\ HasDatabase(profiles) => About(d, "password") = {}
  /\ CheckResources(profiles, d) \cup CheckServices(profiles, d) \cup CheckDatabase(profiles, d)
     \cup CheckContracts(profiles, d) \cup CheckInference(profiles, d) \subseteq F

\* A root is misplaced that the request does not inspect.
Elsewhere(profiles, d) == "elsewhere" \in About(d, "paths") /\ ~IsPipeline(profiles)

\* It is, when no advice changes anything.
LEMMA CommandsAnswer ==
  ASSUME NEW requested \in SUBSET AllProfiles, NEW d \in Hosts, NEW F, NEW profiles, F = Findings(requested, d),
         profiles = PlannedProfiles(requested, d), Useless(F, profiles, d), ~Elsewhere(profiles, d)
  PROVE  Answering(F, profiles, d)
<1>1. ASSUME NEW part, part \notin Remedies, \E f \in F : f.status \in {"blocked", "degraded"} /\ f.action = part
      PROVE  About(d, part) = {}
  BY <1>1, PartInOrder
<1>2. About(d, "root") = {}
  <2> SUFFICES ASSUME About(d, "root") # {} PROVE FALSE
    OBVIOUS
  <2>1. Finding("root", "blocked", "root") \in F
    BY DEF Findings
  <2> QED BY <2>1, <1>1 DEF Finding, Remedies
<1> DEFINE host == CheckTools(d) \cup CheckResources(profiles, d)
                   \cup {f \in Check(About(d, "profiles") # {}, "profiles", "blocked", "profiles") : f.status = "blocked"}
<1>3. F = IF About(d, "config") # {} THEN host \cup {Finding("config", "blocked", "config")}
          ELSE host \cup Good("config") \cup CheckPassword(profiles, d)
               \cup CheckPaths(profiles, d)
               \cup CheckServices(profiles, d) \cup CheckDatabase(profiles, d)
               \cup CheckContracts(profiles, d) \cup CheckInference(profiles, d)
               \cup {f \in Check(About(d, "report") # {}, "report", "blocked", "report") : f.status = "blocked"}
  BY <1>2 DEF Findings
<1>4. host \subseteq F
  BY <1>3
<1>5. About(d, "config") = {}
  <2> SUFFICES ASSUME About(d, "config") # {} PROVE FALSE
    OBVIOUS
  <2>1. Finding("config", "blocked", "config") \in F
    BY <1>3
  <2> QED BY <2>1, <1>1 DEF Finding, Remedies
<1>6. About(d, "profiles") = {}
  <2> SUFFICES ASSUME About(d, "profiles") # {} PROVE FALSE
    OBVIOUS
  <2>1. Finding("profiles", "blocked", "profiles") \in F
    BY <1>4 DEF Check, Finding
  <2> QED BY <2>1, <1>1 DEF Finding, Remedies
<1> HIDE DEF host
<1>7. /\ CheckPassword(profiles, d) \subseteq F
      /\ CheckPaths(profiles, d) \subseteq F
      /\ CheckServices(profiles, d) \cup CheckDatabase(profiles, d) \cup CheckContracts(profiles, d)
         \cup CheckInference(profiles, d) \subseteq F
      /\ \A f \in Check(About(d, "report") # {}, "report", "blocked", "report") : f.status = "blocked" => f \in F
      /\ CheckTools(d) \cup CheckResources(profiles, d) \subseteq F
  BY <1>3, <1>4, <1>5 DEF host
<1>8. About(d, "paths") = {}
  <2> SUFFICES ASSUME About(d, "paths") # {} PROVE FALSE
    OBVIOUS
  <2>1. About(d, "paths") \subseteq {"unsafe", "network", "elsewhere"}
    BY TroublesOf
  <2>2. \E status \in {"blocked", "degraded"} : Finding("paths", status, "paths") \in CheckPaths(profiles, d)
    BY <2>1 DEF CheckPaths, Check, Elsewhere
  <2> QED BY <2>2, <1>1, <1>7 DEF Finding, Remedies
<1>9. About(d, "report") = {}
  <2> SUFFICES ASSUME About(d, "report") # {} PROVE FALSE
    OBVIOUS
  <2>1. Finding("report", "blocked", "report") \in F
    BY <1>7 DEF Check, Finding
  <2> QED BY <2>1, <1>1 DEF Finding, Remedies
<1>10. ASSUME NEW t \in {"python", "git", "make", "uv", "docker", "compose"}, ~Responds(d, t)
       PROVE  About(d, t) = {}
  <2>1. Check(~Responds(d, t), t, "blocked", t) \subseteq F
    BY <1>7 DEF CheckTools
  <2>2. Finding(t, "blocked", t) \in F
    BY <1>10, <2>1 DEF Check
  <2>3. t \notin Remedies
    BY <1>10 DEF Remedies
  <2> QED BY <2>2, <2>3, <1>1 DEF Finding
<1>11. \A t \in {"python", "git", "make", "uv", "docker", "compose"} : Responds(d, t)
  <2>1. \A t \in {"python", "git", "make", "uv", "docker"} : Responds(d, t)
    BY <1>10 DEF Responds
  <2>2. About(d, "docker") = {}
    BY <2>1 DEF Responds
  <2>3. Responds(d, "compose")
    BY <1>10, <2>2 DEF Responds
  <2> QED BY <2>1, <2>3
<1>12. "failing" \notin About(d, "gpu") /\ ("vllm" \in ServicesFor(profiles) => About(d, "gpu") = {})
  <2> SUFFICES ASSUME "failing" \in About(d, "gpu") \/ ("vllm" \in ServicesFor(profiles) /\ About(d, "gpu") # {}) PROVE FALSE
    OBVIOUS
  <2>1. About(d, "gpu") # {} /\ About(d, "gpu") \subseteq {"missing", "failing"}
    BY TroublesOf
  <2>2. ~({"missing", "failing"} \subseteq About(d, "gpu"))
    BY DEF About, Hosts
  <2>3. \E f \in CheckResources(profiles, d) : f.status \in {"blocked", "degraded"} /\ f.action = "gpu"
    <3>1. CASE "missing" \in About(d, "gpu")
      <4>1. "vllm" \in ServicesFor(profiles)
        BY <2>2, <3>1
      <4>2. Finding("gpu", "blocked", "gpu") \in CheckResources(profiles, d)
        BY <3>1, <4>1 DEF CheckResources
      <4> QED BY <4>2 DEF Finding
    <3>2. CASE "missing" \notin About(d, "gpu")
      <4>1. "failing" \in About(d, "gpu")
        BY <2>1, <3>2
      <4>2. \E status \in {"blocked", "degraded"} : Finding("gpu", status, "gpu") \in CheckResources(profiles, d)
        BY <3>2, <4>1 DEF CheckResources, Check
      <4> QED BY <4>2 DEF Finding
    <3> QED BY <3>1, <3>2
  <2>4. \E f \in F : f.status \in {"blocked", "degraded"} /\ f.action = "gpu"
    BY <1>7, <2>3
  <2> QED BY <2>1, <2>4, <1>1 DEF Remedies
<1>13. HasDatabase(profiles) => About(d, "password") = {}
  <2> SUFFICES ASSUME HasDatabase(profiles), About(d, "password") # {} PROVE FALSE
    OBVIOUS
  <2>1. Finding("password", "blocked", "password") \in F
    BY <1>7 DEF CheckPassword, Check
  <2> QED BY <2>1, <1>1 DEF Finding, Remedies
<1> QED BY <1>2, <1>5, <1>6, <1>7, <1>8, <1>9, <1>11, <1>12, <1>13 DEF Answering

\* Such a host refuses no start, but for the gate, if the database is not asked for.
LEMMA UpIsAccepted ==
  ASSUME NEW F, NEW profiles \in SUBSET DOMAIN ProfileServices, NEW d \in Hosts, Answering(F, profiles, d)
  PROVE  /\ ComposeAnswers(d)
         /\ GraphAgeRefused(profiles, About(d, "gate") = {}) \/ ~UpRefused(profiles, d)
         /\ HasDatabase(profiles) => ~UpRefused(ParseProfiles({}), d)
         /\ "vllm" \in ServicesFor(profiles) => ~UpRefused({"vllm"}, d)
<1>1. ComposeAnswers(d)
  BY DEF Answering, ComposeAnswers
<1>2. \A part \in {"root", "config", "paths", "profiles"} : About(d, part) = {}
  BY DEF Answering
<1>3. GraphAgeRefused(profiles, About(d, "gate") = {}) \/ ~UpRefused(profiles, d)
  BY <1>1, <1>2 DEF UpRefused, Answering
<1>4. HasDatabase(profiles) => ~UpRefused(ParseProfiles({}), d)
  BY <1>1, <1>2, ServicesOf DEF UpRefused, Answering, GraphAgeRefused
<1>5. "vllm" \in ServicesFor(profiles) => ~UpRefused({"vllm"}, d)
  BY <1>1, <1>2, ServicesOf DEF UpRefused, Answering, GraphAgeRefused
<1> QED BY <1>1, <1>3, <1>4, <1>5

\* What a start that is accepted changes.
LEMMA UpChanges ==
  ASSUME NEW profiles, NEW d, ~UpRefused(profiles, d),
         \/ \E s \in ServicesFor(profiles) : About(d, s) # {}
         \/ "vllm" \in ServicesFor(profiles) /\ About(d, "served") # {}
  PROVE  Up(profiles, d) # d
<1>1. PICK x \in d : x[1] \in ServicesFor(profiles) \/ (x[1] = "served" /\ "vllm" \in ServicesFor(profiles))
  BY DEF About
<1>2. x \notin Up(profiles, d)
  BY <1>1 DEF Up
<1> QED BY <1>1, <1>2

\* The services asked for run, and the database is as it should be, but for a query
\* it does not answer.
ServicesUp(profiles, d) ==
  /\ ~GraphAgeRefused(profiles, About(d, "gate") = {})
  /\ ~UpRefused(profiles, d)
  /\ \A s \in ServicesFor(profiles) : About(d, s) \cap {"absent", "starting"} = {}
  /\ HasDatabase(profiles) => DatabaseHealthy(profiles, d)
  /\ HasDatabase(profiles) /\ About(d, "query") = {} =>
       \A e \in ExtensionsFor(profiles, About(d, "gate") = {}) : About(d, e) = {}

\* They do, when no advice changes anything.
LEMMA ServicesRun ==
  ASSUME NEW F, NEW profiles \in SUBSET DOMAIN ProfileServices, NEW d \in Hosts, Answering(F, profiles, d),
         Useless(F, profiles, d)
  PROVE  ServicesUp(profiles, d)
<1>1. ComposeAnswers(d) /\ Responds(d, "docker") /\ "missing" \notin About(d, "docker")
  BY UpIsAccepted DEF Answering, Responds, ComposeAnswers
<1>2. CheckServices(profiles, d) \subseteq F /\ CheckDatabase(profiles, d) \subseteq F
  BY DEF Answering
<1>3. ~GraphAgeRefused(profiles, About(d, "gate") = {})
  <2> SUFFICES ASSUME GraphAgeRefused(profiles, About(d, "gate") = {}) PROVE FALSE
    OBVIOUS
  <2>1. HasDatabase(profiles) /\ About(d, "gate") # {}
    BY ServicesOf DEF GraphAgeRefused
  <2>2. Finding("extensions", "degraded", "gate") \in F
    BY <1>2, <2>1 DEF CheckDatabase
  <2> QED BY <2>1, <2>2, PartInOrder DEF Finding, Remedies
<1>4. ~UpRefused(profiles, d)
  BY <1>3, UpIsAccepted
<1>5. ASSUME NEW s \in ServicesFor(profiles), About(d, s) \cap {"absent", "starting"} # {} PROVE FALSE
  <2>1. Finding(s, "degraded", "services-up") \in CheckServices(profiles, d)
    <3>1. Check(About(d, s) \cap {"absent", "starting"} # {}, s, "degraded", "services-up") \subseteq CheckServices(profiles, d)
      BY <1>1 DEF CheckServices
    <3> QED BY <1>5, <3>1 DEF Check
  <2>2. Follow(profiles, d, "services-up") = d
    BY <1>2, <2>1 DEF Useless, Finding
  <2>3. Up(profiles, d) = d
    BY <2>2 DEF Follow
  <2>4. About(d, s) # {}
    BY <1>5
  <2> QED BY <1>4, <2>3, <2>4, UpChanges
<1>6. HasDatabase(profiles) => DatabaseHealthy(profiles, d)
  <2> SUFFICES ASSUME HasDatabase(profiles), About(d, "database") # {} PROVE FALSE
    BY <1>1 DEF DatabaseHealthy
  <2>1. Finding("extensions", "degraded", "pipeline-up") \in F
    BY <1>2, <1>3 DEF CheckDatabase, DatabaseHealthy
  <2>2. Follow(profiles, d, "pipeline-up") = d
    BY <2>1 DEF Useless, Finding
  <2>3. Up(ParseProfiles({}), d) = d
    BY <2>2 DEF Follow
  <2>4. ~UpRefused(ParseProfiles({}), d) /\ "database" \in ServicesFor(ParseProfiles({}))
    BY UpIsAccepted, ServicesOf
  <2> QED BY <2>3, <2>4, UpChanges
<1>7. ASSUME HasDatabase(profiles), About(d, "query") = {},
             NEW e \in ExtensionsFor(profiles, About(d, "gate") = {}), About(d, e) # {}
      PROVE  FALSE
  <2>1. Finding("extensions", "blocked", "image") \in F
    <3> DEFINE lacking == {x \in ExtensionsFor(profiles, About(d, "gate") = {}) : About(d, x) # {}}
    <3>1. lacking # {}
      BY <1>7
    <3>2. Check(lacking # {}, "extensions", "blocked", "image") \subseteq CheckDatabase(profiles, d)
      BY <1>3, <1>6, <1>7 DEF CheckDatabase
    <3> QED BY <1>2, <3>1, <3>2 DEF Check
  <2>2. Follow(profiles, d, "image") = d
    BY <2>1 DEF Useless, Finding
  <2>3. {x \in d : x[1] \notin Extensions} = d
    BY <2>2 DEF Follow
  <2>4. e \in Extensions
    BY <1>7 DEF ExtensionsFor, Extensions
  <2> QED BY <1>7, <2>3, <2>4 DEF About
<1> QED BY <1>3, <1>4, <1>5, <1>6, <1>7 DEF ServicesUp

\* The contracts and the inference of a request are in order, unless a pipeline wants
\* of vLLM the models that it does not serve.
Inferring(profiles, d) ==
  /\ IsPipeline(profiles) => About(d, "contracts") \subseteq {"none"}
  /\ "vllm" \in ServicesFor(profiles) => About(d, "vllm") = {} /\ About(d, "served") = {}
  /\ "vllm" \notin ServicesFor(profiles) /\ NeedsInference(profiles) /\ Backend(d) # "vllm" =>
       Backend(d) = "ollama" /\ About(d, "ollama") = {} /\ About(d, "models") = {}

\* They are, when no advice changes anything.
LEMMA InferenceAnswers ==
  ASSUME NEW F, NEW profiles \in SUBSET DOMAIN ProfileServices, NEW d \in Hosts, Answering(F, profiles, d),
         Useless(F, profiles, d), ServicesUp(profiles, d)
  PROVE  Inferring(profiles, d)
<1>1. CheckContracts(profiles, d) \subseteq F /\ CheckInference(profiles, d) \subseteq F /\ ComposeAnswers(d)
  BY UpIsAccepted DEF Answering
<1>2. IsPipeline(profiles) => About(d, "contracts") \subseteq {"none"}
  <2> SUFFICES ASSUME IsPipeline(profiles), ~(About(d, "contracts") \subseteq {"none"}) PROVE FALSE
    OBVIOUS
  <2>1. About(d, "contracts") \in {{"no extra"}, {"invalid"}}
    BY TroublesOf
  <2>2. \E f \in CheckContracts(profiles, d) : f.status \in {"blocked", "degraded"} /\ f.action = "contracts"
    <3>1. CASE About(d, "contracts") = {"no extra"}
      <4>1. Finding("contracts", "degraded", "contracts") \in CheckContracts(profiles, d)
        BY <3>1 DEF CheckContracts
      <4> QED BY <4>1 DEF Finding
    <3>2. CASE About(d, "contracts") = {"invalid"}
      <4>1. Finding("contracts", "blocked", "contracts") \in CheckContracts(profiles, d)
        BY <3>2 DEF CheckContracts, Check
      <4> QED BY <4>1 DEF Finding
    <3> QED BY <2>1, <3>1, <3>2
  <2>3. \E f \in F : f.status \in {"blocked", "degraded"} /\ f.action = "contracts"
    BY <1>1, <2>2
  <2>4. About(d, "contracts") = {}
    BY <2>3, PartInOrder DEF Remedies
  <2> QED BY <2>4
<1>3. ASSUME "vllm" \in ServicesFor(profiles) PROVE About(d, "vllm") = {} /\ About(d, "served") = {}
  <2>1. About(d, "vllm") = {}
    BY <1>3, TroublesOf DEF ServicesUp
  <2>2. CheckInference(profiles, d) = VllmFindings(VllmValues(Backend(d)).models, d)
    BY <1>3 DEF CheckInference, NeedsInference, VllmValues
  <2>3. CheckModels(VllmValues(Backend(d)).models, Serves(d), "vllm-up") \subseteq F
    BY <1>1, <2>1, <2>2 DEF VllmFindings
  <2>4. ASSUME About(d, "served") # {} PROVE FALSE
    <3>1. Serves(d) = {"stale"}
      BY <2>4 DEF Serves
    <3>2. ~(VllmValues(Backend(d)).models \subseteq Serves(d))
      BY <3>1 DEF VllmValues
    <3>3. Finding("models", "degraded", "vllm-up") \in F
      BY <2>3, <3>2 DEF CheckModels, Check
    <3>4. Follow(profiles, d, "vllm-up") = d
      BY <3>3 DEF Useless, Finding
    <3>5. Up({"vllm"}, d) = d
      BY <3>4 DEF Follow
    <3>6. ~UpRefused({"vllm"}, d) /\ "vllm" \in ServicesFor({"vllm"})
      BY <1>3, UpIsAccepted, ServicesOf
    <3> QED BY <2>4, <3>5, <3>6, UpChanges
  <2> QED BY <2>1, <2>4
<1>4. ASSUME "vllm" \notin ServicesFor(profiles), NeedsInference(profiles), Backend(d) # "vllm"
      PROVE  Backend(d) = "ollama" /\ About(d, "ollama") = {} /\ About(d, "models") = {}
  <2>1. Values(d).backend = Backend(d) /\ "GENERATION_MODEL" \in Values(d).models
    BY DEF Values
  <2>2. Backend(d) = "ollama"
    <3> SUFFICES ASSUME Backend(d) # "ollama" PROVE FALSE
      OBVIOUS
    <3>1. About(d, "backend") # {}
      BY DEF Backend
    <3>2. Finding("backend", "blocked", "backend") \in F
      BY <1>1, <1>4, <2>1 DEF CheckInference
    <3> QED BY <3>1, <3>2, PartInOrder DEF Finding, Remedies
  <2>3. CheckInference(profiles, d) = OllamaFindings(Values(d).models, d)
    BY <1>4, <2>1, <2>2 DEF CheckInference
  <2>4. About(d, "ollama") = {}
    <3> SUFFICES ASSUME About(d, "ollama") # {} PROVE FALSE
      OBVIOUS
    <3>1. \E status \in {"blocked", "degraded"} : Finding("endpoint", status, "ollama") \in F
      BY <1>1, <2>3 DEF OllamaFindings
    <3>2. \E f \in F : f.status \in {"blocked", "degraded"} /\ f.action = "ollama"
      BY <3>1 DEF Finding
    <3> QED BY <3>2, PartInOrder DEF Remedies
  <2>5. About(d, "models") = {}
    <3> SUFFICES ASSUME About(d, "models") # {} PROVE FALSE
      OBVIOUS
    <3>1. CheckModels(Values(d).models, {}, "models") \subseteq F
      BY <1>1, <2>3, <2>4 DEF OllamaFindings
    <3>2. Finding("models", "degraded", "models") \in F
      BY <2>1, <3>1 DEF CheckModels, Check
    <3> QED BY <3>2, PartInOrder DEF Finding, Remedies
  <2> QED BY <2>2, <2>4, <2>5
<1> QED BY <1>2, <1>3, <1>4 DEF Inferring

\* A report has the status of its worst finding.
LEMMA StatusIs ==
  ASSUME NEW F
  PROVE  /\ Status(F) = "ready" <=> \A f \in F : f.status \notin {"blocked", "degraded"}
BY DEF Status

\* A report that is ready tells the truth.
LEMMA ReadyTells ==
  ASSUME NEW requested \in SUBSET AllProfiles, NEW d \in Hosts, AskReadinessOf(requested, d)
  PROVE  ReadyIsUsable'
<1> DEFINE profiles == PlannedProfiles(requested, d)
           F == Findings(requested, d)
           inference == IF "vllm" \in ServicesFor(profiles) THEN "vllm" ELSE Backend(d)
<1>1. call' = [op |-> "readiness", profiles |-> profiles, troubles |-> d, report |-> F]
  BY DEF AskReadinessOf, Ask
<1>2. call'.profiles = profiles /\ call'.troubles = d /\ call'.report = F
  BY <1>1
<1>3. SUFFICES ASSUME Status(F) = "ready"
               PROVE  /\ ~UpRefused(profiles, d)
                      /\ \A s \in ServicesFor(profiles) : About(d, s) \cap {"absent", "starting"} = {}
                      /\ HasDatabase(profiles) => About(d, "password") = {} /\ About(d, "database") = {}
                      /\ \A e \in ExtensionsFor(profiles, TRUE) : About(d, e) = {}
                      /\ IsPipeline(profiles) => About(d, "contracts") \subseteq {"none"}
                      /\ NeedsInference(profiles) =>
                           CASE inference = "ollama" -> About(d, "ollama") = {} /\ About(d, "models") = {}
                             [] OTHER -> /\ About(d, "vllm") = {} /\ About(d, "served") = {}
                                         /\ PassedModel(Backend(d)) \in VllmValues(Backend(d)).models
  BY <1>2 DEF ReadyIsUsable
<1>4. \A f \in F : f.status \notin {"blocked", "degraded"}
  BY <1>3, StatusIs
<1>5. profiles \in SUBSET DOMAIN ProfileServices
  BY ProfilesKnown
<1>6. Answering(F, profiles, d) /\ Useless(F, profiles, d)
  <2>1. Useless(F, profiles, d)
    BY <1>4 DEF Useless
  <2>2. ASSUME Elsewhere(profiles, d) PROVE FALSE
    <3>1. Finding("paths", "blocked", "none") \in CheckPaths(profiles, d)
      BY <2>2 DEF Elsewhere, CheckPaths
    <3>2. \E f \in F : f \in {Finding("paths", "blocked", "none"), Finding("root", "blocked", "root"), Finding("config", "blocked", "config")}
      BY <3>1 DEF Findings
    <3> QED BY <1>4, <3>2 DEF Finding
  <2> QED BY <2>1, <2>2, CommandsAnswer
<1> HIDE DEF profiles, F
<1>7. ServicesUp(profiles, d)
  BY <1>5, <1>6, ServicesRun
<1>8. Inferring(profiles, d)
  BY <1>5, <1>6, <1>7, InferenceAnswers
<1>9. HasDatabase(profiles) => About(d, "query") = {}
  <2> SUFFICES ASSUME HasDatabase(profiles), About(d, "query") # {} PROVE FALSE
    OBVIOUS
  <2>1. Finding("extensions", "degraded", "pipeline-up") \in CheckDatabase(profiles, d)
    BY <1>7 DEF CheckDatabase, ServicesUp
  <2>2. Finding("extensions", "degraded", "pipeline-up") \in F
    BY <1>6, <2>1 DEF Answering
  <2> QED BY <1>4, <2>2 DEF Finding
<1>10. \A e \in ExtensionsFor(profiles, TRUE) : About(d, e) = {}
  <2>1. HasDatabase(profiles) => \A e \in ExtensionsFor(profiles, About(d, "gate") = {}) : About(d, e) = {}
    BY <1>7, <1>9 DEF ServicesUp
  <2>2. ExtensionsFor(profiles, TRUE) = ExtensionsFor(profiles, About(d, "gate") = {})
    BY <1>7 DEF ExtensionsFor, ServicesUp, GraphAgeRefused
  <2>3. ~HasDatabase(profiles) => ExtensionsFor(profiles, TRUE) = {}
    BY DEF ExtensionsFor
  <2> QED BY <2>1, <2>2, <2>3
<1>11. HasDatabase(profiles) => About(d, "password") = {} /\ About(d, "database") = {}
  BY <1>6, <1>7 DEF Answering, ServicesUp, DatabaseHealthy
<1>12. ASSUME NeedsInference(profiles), "vllm" \notin ServicesFor(profiles), Backend(d) = "vllm"
       PROVE  About(d, "vllm") = {} /\ About(d, "served") = {}
  <2>1. CheckInference(profiles, d) = VllmFindings(Values(d).models, d) /\ CheckInference(profiles, d) \subseteq F
    BY <1>6, <1>12 DEF CheckInference, Values, Answering
  <2>2. About(d, "vllm") = {}
    <3> SUFFICES ASSUME About(d, "vllm") # {} PROVE FALSE
      OBVIOUS
    <3>1. Finding("endpoint", "degraded", "vllm-up") \in F
      BY <2>1 DEF VllmFindings
    <3> QED BY <1>4, <3>1 DEF Finding
  <2>3. About(d, "served") = {}
    <3> SUFFICES ASSUME About(d, "served") # {} PROVE FALSE
      OBVIOUS
    <3>1. ~(Values(d).models \subseteq Serves(d))
      BY DEF Values, Serves
    <3>2. Finding("models", "degraded", "vllm-up") \in F
      BY <2>1, <2>2, <3>1 DEF VllmFindings, CheckModels, Check
    <3> QED BY <1>4, <3>2 DEF Finding
  <2> QED BY <2>2, <2>3
<1>13. PassedModel(Backend(d)) \in VllmValues(Backend(d)).models
  BY DEF PassedModel, VllmValues
<1>14. NeedsInference(profiles) =>
         CASE inference = "ollama" -> About(d, "ollama") = {} /\ About(d, "models") = {}
           [] OTHER -> /\ About(d, "vllm") = {} /\ About(d, "served") = {}
                       /\ PassedModel(Backend(d)) \in VllmValues(Backend(d)).models
  <2>1. CASE "vllm" \in ServicesFor(profiles)
    BY <1>8, <1>13, <2>1 DEF Inferring
  <2>2. CASE "vllm" \notin ServicesFor(profiles) /\ Backend(d) = "vllm"
    BY <1>12, <1>13, <2>2
  <2>3. CASE "vllm" \notin ServicesFor(profiles) /\ Backend(d) # "vllm"
    BY <1>8, <2>3 DEF Inferring
  <2> QED BY <2>1, <2>2, <2>3
<1> QED BY <1>7, <1>8, <1>10, <1>11, <1>14 DEF ServicesUp, Inferring

\* A report that is not ready advises something that changes the host.
LEMMA AdviceChanges ==
  ASSUME NEW requested \in SUBSET AllProfiles, NEW d \in Hosts, AskReadinessOf(requested, d)
  PROVE  AdviceHelps'
<1> DEFINE profiles == PlannedProfiles(requested, d)
           F == Findings(requested, d)
           stuck == \/ \E part \in {"memory", "migrations", "query"} : About(d, part) # {}
                    \/ Elsewhere(profiles, d)
                    \/ /\ Backend(d) = "vllm" /\ IsPipeline(profiles) /\ "vllm" \notin ServicesFor(profiles)
                       /\ About(d, "others") = {} \/ About(d, "gpu") # {}
<1>1. call' = [op |-> "readiness", profiles |-> profiles, troubles |-> d, report |-> F]
  BY DEF AskReadinessOf, Ask
<1>2. call'.profiles = profiles /\ call'.troubles = d /\ call'.report = F
  BY <1>1
<1>3. SUFFICES ASSUME ~stuck, \A f \in F : f.status # "ready" => Follow(profiles, d, f.action) = d
               PROVE  Status(F) = "ready"
  BY <1>2 DEF AdviceHelps, Elsewhere
<1>4. profiles \in SUBSET DOMAIN ProfileServices
  BY ProfilesKnown
<1>5. Answering(F, profiles, d) /\ Useless(F, profiles, d)
  <2>1. Useless(F, profiles, d)
    BY <1>3 DEF Useless
  <2> QED BY <1>3, <2>1, CommandsAnswer
<1>6. ServicesUp(profiles, d)
  <2> HIDE DEF F, profiles
  <2> QED BY <1>4, <1>5, ServicesRun
<1>7. Inferring(profiles, d)
  <2> HIDE DEF F, profiles
  <2> QED BY <1>4, <1>5, <1>6, InferenceAnswers
<1> DEFINE Fine(S) == \A f \in S : f.status = "ready"
<1>8. ASSUME NEW troubled, NEW name, NEW status, NEW action, ~troubled PROVE Fine(Check(troubled, name, status, action))
  BY <1>8 DEF Check, Good, Finding
<1>9. Fine(CheckTools(d))
  <2> HIDE DEF F, profiles
  <2> SUFFICES ASSUME NEW t \in {"python", "git", "make", "uv", "docker", "compose"}
               PROVE  Fine(Check(~Responds(d, t), t, "blocked", t))
    BY DEF CheckTools
  <2> QED BY <1>5 DEF Answering, Check, Good, Finding
<1> HIDE DEF F
<1>10. Fine(CheckResources(profiles, d))
  <2> HIDE DEF profiles
  <2>1. About(d, "memory") = {}
    BY <1>3
  <2>2. "failing" \notin About(d, "gpu") /\ ("vllm" \in ServicesFor(profiles) => About(d, "gpu") = {})
    BY <1>5 DEF Answering
  <2> QED BY <2>1, <2>2 DEF CheckResources, Check, Good, Finding
<1>11. Fine(CheckPassword(profiles, d))
  <2> HIDE DEF profiles
  <2> QED BY <1>5 DEF Answering, CheckPassword, Check, Good, Finding
<1>12. Fine(CheckServices(profiles, d))
  <2> HIDE DEF profiles
  <2>1. ComposeAnswers(d) /\ "missing" \notin About(d, "docker")
    BY <1>5 DEF Answering, ComposeAnswers, Responds
  <2>2. CheckServices(profiles, d)
          = UNION {Check(About(d, s) \cap {"absent", "starting"} # {}, s, "degraded", "services-up") : s \in ServicesFor(profiles)}
    BY <2>1 DEF CheckServices
  <2>3. ASSUME NEW s \in ServicesFor(profiles)
        PROVE  Fine(Check(About(d, s) \cap {"absent", "starting"} # {}, s, "degraded", "services-up"))
    BY <1>6 DEF ServicesUp, Check, Good, Finding
  <2> QED BY <2>2, <2>3
<1>13. Fine(CheckDatabase(profiles, d))
  <2>1. About(d, "migrations") = {} /\ About(d, "query") = {}
    BY <1>3
  <2> HIDE DEF profiles
  <2>2. CASE ~HasDatabase(profiles)
    BY <2>2 DEF CheckDatabase
  <2>3. CASE HasDatabase(profiles)
    <3> DEFINE lacking == {x \in ExtensionsFor(profiles, About(d, "gate") = {}) : About(d, x) # {}}
    <3>1. lacking = {} /\ ~GraphAgeRefused(profiles, About(d, "gate") = {}) /\ DatabaseHealthy(profiles, d)
      BY <1>6, <2>1, <2>3 DEF ServicesUp
    <3>2. CheckDatabase(profiles, d) = Check(About(d, "migrations") # {}, "migrations", "degraded", "none")
                                       \cup Check(lacking # {}, "extensions", "blocked", "image")
      BY <2>1, <2>3, <3>1 DEF CheckDatabase
    <3> HIDE DEF lacking
    <3> QED BY <2>1, <3>1, <3>2 DEF Check, Good, Finding
  <2> QED BY <2>2, <2>3
<1>14. Fine(CheckContracts(profiles, d))
  <2> HIDE DEF profiles
  <2>1. IsPipeline(profiles) => About(d, "contracts") \in {{}, {"none"}}
    BY <1>7 DEF Inferring
  <2>2. CheckContracts(profiles, d) = {} \/ CheckContracts(profiles, d) = Good("contracts")
    <3>1. CASE ~IsPipeline(profiles)
      BY <3>1 DEF CheckContracts
    <3>2. CASE IsPipeline(profiles)
      <4>1. "none" \in About(d, "contracts") \/ ("no extra" \notin About(d, "contracts") /\ "invalid" \notin About(d, "contracts"))
        BY <2>1, <3>2
      <4> QED BY <3>2, <4>1 DEF CheckContracts, Check
    <3> QED BY <3>1, <3>2
  <2>3. Fine(Good("contracts")) /\ Fine({})
    BY DEF Good, Finding
  <2> QED BY <2>2, <2>3
<1>15. Fine(CheckInference(profiles, d))
  <2>0. Backend(d) = "vllm" /\ IsPipeline(profiles) /\ "vllm" \notin ServicesFor(profiles)
          => About(d, "others") # {} /\ About(d, "gpu") = {}
    BY <1>3
  <2> HIDE DEF profiles
  <2>1. CASE "vllm" \in ServicesFor(profiles)
    <3>1. CheckInference(profiles, d) = VllmFindings(VllmValues(Backend(d)).models, d)
      BY <2>1 DEF CheckInference, NeedsInference, VllmValues
    <3>2. About(d, "vllm") = {} /\ About(d, "served") = {} /\ ComposeAnswers(d)
      BY <1>5, <1>7, <2>1 DEF Inferring, Answering, ComposeAnswers
    <3>3. VllmValues(Backend(d)).models \subseteq Serves(d)
      BY <3>2 DEF Serves, VllmValues, PassedModel
    <3> QED BY <3>1, <3>2, <3>3 DEF VllmFindings, CheckModels, Check, Good, Finding
  <2>2. CASE "vllm" \notin ServicesFor(profiles) /\ NeedsInference(profiles) /\ Backend(d) # "vllm"
    <3>1. Backend(d) = "ollama" /\ About(d, "ollama") = {} /\ About(d, "models") = {}
      BY <1>7, <2>2 DEF Inferring, NeedsInference
    <3>2. CheckInference(profiles, d) = OllamaFindings(Values(d).models, d)
      BY <2>2, <3>1 DEF CheckInference, Values
    <3> QED BY <3>1, <3>2 DEF OllamaFindings, CheckModels, Check, Good, Finding
  <2>4. CASE "vllm" \notin ServicesFor(profiles) /\ NeedsInference(profiles) /\ Backend(d) = "vllm"
    <3>1. About(d, "others") # {} /\ About(d, "gpu") = {}
      BY <2>0, <2>4 DEF NeedsInference
    <3>2. Values(d).models = {"GENERATION_MODEL"} /\ CheckInference(profiles, d) = VllmFindings(Values(d).models, d)
          /\ CheckInference(profiles, d) \subseteq F
      BY <1>5, <2>4, <3>1 DEF CheckInference, Values, Answering
    <3>3. ~UpRefused({"vllm"}, d) /\ "vllm" \in ServicesFor({"vllm"})
      <4>1. ComposeAnswers(d) /\ (\A part \in {"root", "config", "paths", "profiles"} : About(d, part) = {})
        BY <1>5 DEF Answering, ComposeAnswers
      <4>2. ~GraphAgeRefused({"vllm"}, About(d, "gate") = {})
        BY DEF GraphAgeRefused
      <4> QED BY <1>4, <3>1, <4>1, <4>2, ServicesOf DEF UpRefused
    <3>4. ASSUME About(d, "vllm") # {} \/ About(d, "served") # {},
                 \E f \in F : f.status = "degraded" /\ f.action = "vllm-up"
          PROVE  FALSE
      <4>1. Up({"vllm"}, d) = d
        BY <1>5, <3>4 DEF Useless, Follow
      <4> QED BY <3>3, <3>4, <4>1, UpChanges
    <3>5. About(d, "vllm") = {}
      <4> SUFFICES ASSUME About(d, "vllm") # {} PROVE FALSE
        OBVIOUS
      <4>1. Finding("endpoint", "degraded", "vllm-up") \in F
        BY <3>2 DEF VllmFindings
      <4> QED BY <3>4, <4>1 DEF Finding
    <3>6. About(d, "served") = {}
      <4> SUFFICES ASSUME About(d, "served") # {} PROVE FALSE
        OBVIOUS
      <4>1. ~(Values(d).models \subseteq Serves(d))
        BY <3>2 DEF Serves
      <4>2. Finding("models", "degraded", "vllm-up") \in F
        BY <3>2, <3>5, <4>1 DEF VllmFindings, CheckModels, Check
      <4> QED BY <3>4, <4>2 DEF Finding
    <3>7. Values(d).models \subseteq Serves(d)
      BY <2>4, <3>2, <3>6 DEF Serves, PassedModel
    <3> QED BY <3>2, <3>5, <3>7 DEF VllmFindings, CheckModels, Check, Good, Finding
  <2>3. CASE ~NeedsInference(profiles)
    <3>1. CheckInference(profiles, d) = {}
      BY <2>3 DEF CheckInference
    <3> QED BY <3>1
  <2> QED BY <2>1, <2>2, <2>3, <2>4 DEF NeedsInference
<1>16. \A f \in F : f.status = "ready"
  <2> DEFINE seen == CheckTools(d) \cup CheckResources(profiles, d) \cup CheckPassword(profiles, d) \cup CheckServices(profiles, d)
                     \cup CheckDatabase(profiles, d) \cup CheckContracts(profiles, d) \cup CheckInference(profiles, d)
  <2>1. Fine(seen)
    BY <1>9, <1>10, <1>11, <1>12, <1>13, <1>14, <1>15
  <2>2. /\ About(d, "root") = {} /\ About(d, "config") = {} /\ About(d, "profiles") = {}
        /\ About(d, "paths") = {} /\ About(d, "report") = {}
    BY <1>5 DEF Answering
  <2>3. F \subseteq seen \cup Good("profiles") \cup Good("config") \cup Good("paths") \cup Good("report")
    BY <2>2 DEF F, Findings, Check, CheckPaths
  <2> HIDE DEF seen
  <2> QED BY <2>1, <2>3 DEF Good, Finding
<1> QED BY <1>16, StatusIs

-----------------------------------------------------------------------------
(***************************************************************************)
(* The client of Runtime, of any roots and of any host                     *)
(***************************************************************************)
\* Only plain links come about; readiness is asked about a host of any troubles,
\* at most one of each part.
RuntimeNext ==
  \/ RootsNext(AnySite, SUBSET STRING, Path, PlainLink)
  \/ UNCHANGED roots /\ \E requested \in SUBSET AllProfiles, d \in Hosts : AskReadinessOf(requested, d)
  \/ UNCHANGED roots /\ Return
RuntimeSpec == call = Ready /\ RootsInit /\ [][RuntimeNext]_<<call, roots>>
RuntimeInv == RootsInv /\ roots.links \subseteq PlainLink /\ ReadyIsUsable /\ AdviceHelps

\* Nothing but a swap sets the links.
LEMMA BeganLinks ==
  ASSUME RootsInv, NEW kind, NEW requested, NEW todo, roots' = Began(kind, requested, todo)
  PROVE  roots'.links = roots.links
<1>1. RootsShape(roots)
  BY DEF RootsInv, BegunInv
<1> QED BY <1>1 DEF Began, End, RootsShape

\* And those that come about are plain.
LEMMA LinksStay ==
  ASSUME RootsInv, roots.links \subseteq PlainLink, RootsNext(AnySite, SUBSET STRING, Path, PlainLink)
  PROVE  roots'.links \subseteq PlainLink
<1>0. RootsShape(roots)
  BY DEF RootsInv, BegunInv
<1>1. ASSUME NEW site, Place(site) PROVE roots'.links = roots.links
  BY <1>0, <1>1 DEF Place, RootsShape
<1>2. ASSUME NEW action, NEW requested, AskCompose(action, requested) PROVE roots'.links = roots.links
  <2>1. PICK kind : kind = "compose"
    OBVIOUS
  <2>2. roots' = Began(kind, requested, action)
    BY <1>2, <2>1 DEF AskCompose
  <2> QED BY <2>2, BeganLinks
<1>c. CASE AskConfig
  <2>1. PICK kind, requested, action : kind = "compose" /\ requested = {} /\ action = "config"
    OBVIOUS
  <2>2. roots' = Began(kind, requested, action)
    BY <1>c, <2>1 DEF AskConfig
  <2> QED BY <2>2, BeganLinks
<1>3. ASSUME NEW requested, NEW apply \in BOOLEAN, AskReset(requested, apply) PROVE roots'.links = roots.links
  <2>1. PICK kind : kind = "reset"
    OBVIOUS
  <2>2. PICK todo : todo = IF apply THEN "apply" ELSE "plan"
    OBVIOUS
  <2>3. roots' = Began(kind, requested, todo)
    BY <1>3, <2>1, <2>2 DEF AskReset
  <2> QED BY <2>3, BeganLinks
<1>4. ASSUME NEW requested, NEW file, AskReadiness(requested, file) PROVE roots'.links = roots.links
  <2>1. PICK kind : kind = "readiness"
    OBVIOUS
  <2>2. PICK asked : asked = IF Known(requested) THEN requested ELSE {}
    OBVIOUS
  <2>3. roots' = Began(kind, asked, file)
    BY <1>4, <2>1, <2>2 DEF AskReadiness
  <2> QED BY <2>3, BeganLinks
<1>5. CASE Compose
  <2>1. \A answer : End(roots, answer).links = roots.links
    BY <1>0 DEF End, RootsShape
  <2>2. \A directories, answer : End(LaidOut(roots, directories), answer).links = roots.links
    BY <1>0 DEF End, LaidOut, RootsShape
  <2>3. \A directories, answer, running :
          End([LaidOut(roots, directories) EXCEPT !.running = running], answer).links = roots.links
    BY <1>0 DEF End, LaidOut, RootsShape
  <2>4. \/ \E answer : roots' = End(roots, answer)
        \/ \E directories, answer : roots' = End(LaidOut(roots, directories), answer)
        \/ \E directories, answer, running : roots' = End([LaidOut(roots, directories) EXCEPT !.running = running], answer)
    BY <1>5 DEF Compose
  <2> QED BY <2>1, <2>2, <2>3, <2>4
<1>6. CASE InspectRoots
  BY <1>0, <1>6 DEF InspectRoots, End, RootsShape
<1>7. CASE WriteReport
  BY <1>0, <1>7 DEF WriteReport, End, RootsShape
<1>8. CASE CheckTargets
  BY <1>0, <1>8 DEF CheckTargets, End, RootsShape
<1>9. CASE StopServices
  BY <1>0, <1>9 DEF StopServices, End, RootsShape
<1>10. ASSUME NEW path, Erase(path) PROVE roots'.links = roots.links
  BY <1>0, <1>10 DEF Erase, Erased, End, RootsShape
<1>11. ASSUME NEW link \in PlainLink, Swap(link) PROVE roots'.links \subseteq PlainLink
  BY <1>0, <1>11 DEF Swap, RootsShape
<1> QED BY <1>1, <1>2, <1>c, <1>3, <1>4, <1>5, <1>6, <1>7, <1>8, <1>9, <1>10, <1>11 DEF RootsNext

\* A command on the roots is no report of readiness.
LEMMA RootsSayNothing ==
  ASSUME RootsNext(AnySite, SUBSET STRING, Path, PlainLink), ReadyIsUsable, AdviceHelps
  PROVE  ReadyIsUsable' /\ AdviceHelps'
<1>1. call'.op = "roots" \/ call' = call
  <2>1. ASSUME NEW site, Place(site) PROVE call'.op = "roots"
    BY <2>1 DEF Place
  <2>2. CanStart => call'.op = "roots"
    BY DEF CanStart
  <2>3. ASSUME NEW action, NEW requested, AskCompose(action, requested) PROVE call'.op = "roots"
    BY <2>2, <2>3 DEF AskCompose
  <2>c. AskConfig => call'.op = "roots"
    BY <2>2 DEF AskConfig
  <2>4. ASSUME NEW requested, NEW apply, AskReset(requested, apply) PROVE call'.op = "roots"
    BY <2>2, <2>4 DEF AskReset
  <2>5. ASSUME NEW requested, NEW file, AskReadiness(requested, file) PROVE call'.op = "roots"
    BY <2>2, <2>5 DEF AskReadiness
  <2>6. \A at : Command(at) => call' = call
    BY DEF Command
  <2>7. Compose => call' = call
    BY <2>6 DEF Compose
  <2>8. InspectRoots \/ WriteReport => call' = call
    BY <2>6 DEF InspectRoots, WriteReport
  <2>9. CheckTargets \/ StopServices => call' = call
    BY <2>6 DEF CheckTargets, StopServices
  <2>10. ASSUME NEW path, Erase(path) PROVE call' = call
    BY <2>6, <2>10 DEF Erase
  <2>11. ASSUME NEW link, Swap(link) PROVE call' = call
    BY <2>11 DEF Swap
  <2> QED BY <2>1, <2>3, <2>c, <2>4, <2>5, <2>7, <2>8, <2>9, <2>10, <2>11 DEF RootsNext
<1>2. CASE call'.op = "roots"
  BY <1>2 DEF ReadyIsUsable, AdviceHelps
<1>3. CASE call' = call
  BY <1>3 DEF ReadyIsUsable, AdviceHelps
<1> QED BY <1>1, <1>2, <1>3

\* Every step keeps the invariant.
LEMMA RuntimeStep == RuntimeInv /\ [RuntimeNext]_<<call, roots>> => RuntimeInv'
<1> SUFFICES ASSUME RuntimeInv, [RuntimeNext]_<<call, roots>> PROVE RuntimeInv'
  OBVIOUS
<1>1. CASE RootsNext(AnySite, SUBSET STRING, Path, PlainLink)
  <2>1. RootsNext(AnySite, SUBSET STRING, Path, DirLink)
    BY <1>1 DEF RootsNext, PlainLink
  <2> QED BY <1>1, <2>1, RootsStep, LinksStay, RootsSayNothing DEF RuntimeInv
<1>2. ASSUME NEW requested \in SUBSET AllProfiles, NEW d \in Hosts, AskReadinessOf(requested, d), UNCHANGED roots
      PROVE  RuntimeInv'
  BY <1>2, RootsStutter, ReadyTells, AdviceChanges DEF RuntimeInv
<1>3. CASE UNCHANGED roots /\ Return
  <2>1. call'.op = "none"
    BY <1>3 DEF Return, Ready
  <2>2. ReadyIsUsable' /\ AdviceHelps'
    BY <2>1 DEF ReadyIsUsable, AdviceHelps
  <2> QED BY <1>3, <2>2, RootsStutter DEF RuntimeInv
<1>4. CASE UNCHANGED <<call, roots>>
  <2>1. ReadyIsUsable' /\ AdviceHelps'
    BY <1>4 DEF RuntimeInv, ReadyIsUsable, AdviceHelps
  <2> QED BY <1>4, <2>1, RootsStutter DEF RuntimeInv
<1> QED BY <1>1, <1>2, <1>3, <1>4 DEF RuntimeNext

\* Besides what SourcesSurvive says: as long as no link leads into itself or above
\* itself, a start makes no directory in the checkout or the archive but its data
\* directory; what readiness calls ready is usable; and what it does not, it
\* advises on (runtime/compose.py, runtime/paths.py, readiness/).
THEOREM RuntimeIsSafe == RuntimeSpec => []RuntimeHolds
<1>1. call = Ready /\ RootsInit => RuntimeInv
  <2> SUFFICES ASSUME call = Ready, RootsInit PROVE RuntimeInv
    OBVIOUS
  <2>1. call.op = "none" /\ roots.links = {}
    BY DEF Ready, RootsInit
  <2>2. ReadyIsUsable /\ AdviceHelps
    BY <2>1 DEF ReadyIsUsable, AdviceHelps
  <2> QED BY <2>1, <2>2, RootsInitially DEF RuntimeInv
<1>2. RuntimeInv => RuntimeHolds
  <2>1. RuntimeInv => LayoutOutside
    BY DEF RuntimeInv, RootsInv, LayoutInv
  <2> QED BY <2>1, RootsAreSafe DEF RuntimeInv, RuntimeHolds
<1> QED BY <1>1, <1>2, RuntimeStep, PTL DEF RuntimeSpec
=============================================================================
