----------------------------- MODULE CorpusChain ----------------------------
(***************************************************************************)
(* The corpus from extraction to load: which documents are grouped and     *)
(* what the stages make of them, and the snapshots through which one stage *)
(* follows the other.                                                      *)
(***************************************************************************)
EXTENDS Calls, Integers, FiniteSets, Sequences

-----------------------------------------------------------------------------
(***************************************************************************)
(* Which documents are grouped and which of a group stands for it          *)
(* (pipeline/dedupe: sketches, group, decide).  Documents are numbers,     *)
(* ordered like their ids.  A document has two keys, the hashes of its     *)
(* extracted and of its canonical text, and a size; sketches of two        *)
(* documents are alike as "duplicate", "edition" or "other", and fall into *)
(* one bucket or not.                                                      *)
(***************************************************************************)

CONSTANTS
  MaxBucketDocuments, MaxCandidatePairs      \* DedupePolicy

ASSUME DedupePolicyAssumption ==
  MaxBucketDocuments \in Nat \ {0} /\ MaxCandidatePairs \in Nat \ {0}

-----------------------------------------------------------------------------
(* Edges, as pairs of documents, the smaller first.                        *)

PairsOf(docs) == {pair \in docs \X docs : pair[1] < pair[2]}
Precedes(p, q) == p[1] < q[1] \/ (p[1] = q[1] /\ p[2] < q[2])

\* key_edges: the first document of a key with each of the others.
KeyEdges(keys) ==
  {pair \in PairsOf(DOMAIN keys) :
     /\ keys[pair[1]] # "none" /\ keys[pair[1]] = keys[pair[2]]
     /\ \A d \in DOMAIN keys : keys[d] = keys[pair[1]] => pair[1] <= d}

\* band_candidates: the pairs of a bucket in their order, up to the limit.
AddBucket(pairs, bucket) ==
  IF Cardinality(bucket) \notin 2 .. MaxBucketDocuments THEN pairs
  ELSE LET more == PairsOf(bucket) \ pairs
           room == MaxCandidatePairs - Cardinality(pairs)
       IN  pairs \cup {p \in more : Cardinality({q \in more : Precedes(q, p)}) < room}

\* The buckets in the order they come.
Candidates(buckets) ==
  LET found[n \in 0 .. Len(buckets)] ==
        IF n = 0 THEN {} ELSE AddBucket(found[n - 1], buckets[n])
  IN  found[Len(buckets)]

Truncated(found) == Cardinality(found) >= MaxCandidatePairs

-----------------------------------------------------------------------------
(* UnionFind: the parent of each document that an edge has touched.        *)

FindRoot(parent, doc) ==
  LET root[d \in DOMAIN parent] == IF parent[d] = d THEN d ELSE root[parent[d]]
  IN  root[doc]

Union(parent, edge) ==
  LET first == FindRoot(parent, edge[1])
      second == FindRoot(parent, edge[2])
  IN  IF first < second THEN [parent EXCEPT ![second] = first]
                        ELSE [parent EXCEPT ![first] = second]

\* The forest that the edges make, joined in any order.
Forest(edges) ==
  LET touched == UNION {{edge[1], edge[2]} : edge \in edges}
      joined[some \in SUBSET edges] ==
        IF some = {} THEN [d \in touched |-> d]
        ELSE LET edge == CHOOSE e \in some : TRUE IN Union(joined[some \ {edge}], edge)
  IN  joined[edges]

Components(edges) ==
  LET parent == Forest(edges)
  IN  {{d \in DOMAIN parent : FindRoot(parent, d) = root} :
         root \in {FindRoot(parent, d) : d \in DOMAIN parent}}

\* _component_members: the longest text, and of those the smallest id.
Leader(docs, sizes) ==
  CHOOSE d \in docs : \A e \in docs : sizes[e] < sizes[d] \/ (sizes[e] = sizes[d] /\ d <= e)

\* plan_groups: groups of documents with their leaders.
PlanGroups(keys, sizes, buckets, alike) ==
  LET found == Candidates(buckets)
      near == {p \in found : alike[p] = "duplicate"}
      exact == KeyEdges([d \in DOMAIN keys |-> keys[d].exact])
      normalized == KeyEdges([d \in DOMAIN keys |-> keys[d].normalized])
      duplicates == Components(exact \cup normalized \cup near)
      together(p) == \E group \in duplicates : p[1] \in group /\ p[2] \in group
      editions == {p \in found : alike[p] = "edition" /\ ~together(p)}
  IN  [duplicates |-> duplicates, editions |-> Components(editions),
       suppressed |-> UNION {group \ {Leader(group, sizes)} : group \in duplicates},
       truncated |-> Truncated(found)]

AskGroups(keys, sizes, buckets, alike) ==
  Ask([op |-> "groups", keys |-> keys, sizes |-> sizes, buckets |-> buckets, alike |-> alike,
       plan |-> PlanGroups(keys, sizes, buckets, alike)])

-----------------------------------------------------------------------------
(* Properties.                                                             *)

\* The documents that edges lead to from d.
ClosedUnder(docs, edges) == \A e \in edges : e[1] \in docs <=> e[2] \in docs
Reach(docs, edges, d) ==
  {x \in docs : \A some \in SUBSET docs : d \in some /\ ClosedUnder(some, edges) => x \in some}

SameKey(a, b) == (a.exact = b.exact /\ a.exact # "none") \/ (a.normalized = b.normalized /\ a.normalized # "none")

\* A suppressed document is the duplicate, over some steps, of exactly one
\* document that is not, and that one is no shorter; a document without
\* duplicates is not suppressed.
OneSurvivor ==
  call.op = "groups" =>
    LET docs == DOMAIN call.keys
        found == Candidates(call.buckets)
        edges == {p \in PairsOf(docs) :
                    \/ SameKey(call.keys[p[1]], call.keys[p[2]])
                    \/ p \in found /\ call.alike[p] = "duplicate"}
    IN  \A d \in docs :
          LET group == Reach(docs, edges, d)
          IN  \E e \in group :
                group \ call.plan.suppressed = {e} /\ \A f \in group : call.sizes[f] <= call.sizes[e]

\* Pairs are left out of the comparison only from buckets that are too large or
\* when the plan says that it is truncated.
TruncationTold ==
  call.op = "groups" =>
    call.plan.truncated
    \/ \A k \in DOMAIN call.buckets :
         Cardinality(call.buckets[k]) <= MaxBucketDocuments =>
           PairsOf(call.buckets[k]) \subseteq Candidates(call.buckets)

-----------------------------------------------------------------------------
(***************************************************************************)
(* The snapshots of the corpus: extract, normalize, dedupe, chunk and      *)
(* load-lexical (pipeline/*/stage.py, source.py, publish.py, reuse.py).    *)
(* Each stage but the first names the snapshots it has read by manifest    *)
(* and digest, and rehashes them first; the load follows these names from  *)
(* the chunks to the extraction.  Commands run a range of the stages under *)
(* the pipeline lock; what a stage has published serves again as long as   *)
(* its own files are unchanged, whatever became of the ones it has read.   *)
(* A parser may fail on any document, another time on another one, and     *)
(* read another text than the time before.  Files change between commands  *)
(* only.                                                                   *)
(***************************************************************************)

CONSTANTS
  Document,        \* the documents of the inventory: numbers
  MayRead,         \* the texts that the parsers may give for each
  ViewsOf,         \* what is made of each text: its canonical form and the length of it,
                   \* the bands of its sketch, whether normalization takes it (neither
                   \* empty nor too long) and whether chunking can cut it
  Likeness,        \* how the sketches of two texts compare
  MaxWalks,        \* bound: commands and losses
  MaxLosses        \* bound: snapshots a file of which is changed or lost

TextSet == DOMAIN ViewsOf
BandKeys == UNION {ViewsOf[t].bands : t \in TextSet}

ASSUME CorpusAssumption ==
  /\ IsFiniteSet(Document) /\ Document \subseteq Nat
  /\ MayRead \in [Document -> SUBSET TextSet]
  /\ "none" \notin TextSet /\ IsFiniteSet(BandKeys)
  /\ \A t \in TextSet :
       /\ ViewsOf[t].chars \in Nat /\ ViewsOf[t].fits \in BOOLEAN /\ ViewsOf[t].cuts \in BOOLEAN
       /\ ViewsOf[t].canonical # "none"
  /\ Likeness \in [TextSet \X TextSet -> {"duplicate", "edition", "other"}]

VARIABLE corpus

StageAt == <<"extract", "normalize", "dedupe", "chunk", "load">>
StageSet == {StageAt[i] : i \in 1 .. 5}
InputsOf == [extract |-> {}, normalize |-> {"extract"}, dedupe |-> {"normalize"},
          chunk |-> {"normalize", "dedupe"}, load |-> {"chunk"}]
DownstreamOf == [extract |-> StageSet, normalize |-> StageSet \ {"extract"},
          dedupe |-> {"dedupe", "chunk", "load"}, chunk |-> {"chunk", "load"}, load |-> {"load"}]

\* index: the snapshot known for the key of each stage, 0 if none; walk: the
\* command that runs, with the index it began with; loaded: what the last
\* complete load has read.  Rows are functions from documents to the texts that
\* the parsers gave for them.
NoRows == [d \in {} |-> d]
NoWalk == [at |-> 0, to |-> 0, force |-> FALSE, since |-> -1, index |-> <<>>, stale |-> {}]
ChainInit ==
  corpus = [shots |-> <<>>, index |-> [s \in StageSet |-> 0], stale |-> {}, walk |-> NoWalk,
            loaded |-> [documents |-> NoRows, chunks |-> NoRows, chain |-> {}, since |-> -1],
            walks |-> 0, losses |-> 0, parted |-> FALSE]

Shot(n) == corpus.shots[n]
Step == StageAt[corpus.walk.at]

\* _upstream_options: the snapshot that the index names for each input.
Upstream(stage) == [s \in InputsOf[stage] |-> corpus.index[s]]
\* extraction_snapshot, normalization_snapshot, upstream: each input is rehashed.
ValidInputs(up) == \A s \in DOMAIN up : Shot(up[s]).sound
\* corpus_chain: the snapshot that the chunks name, and the one that this names.
Linked(parent, name) == Shot(parent).up[name]
CorpusLinks(chunks) ==
  LET normalization == Linked(chunks, "normalize")
  IN  [normalization |-> normalization, extraction |-> Linked(normalization, "extract")]
\* The outcome of a stage, and validate_*_output, of the stage's own output only.
Partial(shot) == DOMAIN shot.rows = {} /\ shot.quarantined # {}
Reusable(stage) ==
  /\ corpus.index[stage] # 0 /\ stage \notin corpus.stale
  /\ Shot(corpus.index[stage]).sound /\ ~Partial(Shot(corpus.index[stage]))

\* What a stage reads of its inputs.
DocumentInputs(up) == Shot(up.extract).rows
NormalizedInputs(up) == Shot(up.normalize).rows
Only(rows, docs) == [d \in DOMAIN rows \cap docs |-> rows[d]]
ChunkInputs(up) == Only(Shot(up.normalize).rows, Document \ DOMAIN Shot(up.dedupe).rows)

\* What it publishes: rows, and the documents that it leaves in quarantine.
Made(stage, up, rows, quarantined) ==
  [stage |-> stage, rows |-> rows, quarantined |-> quarantined, up |-> up, sound |-> TRUE]
ReadBy(rows) == DOMAIN rows \subseteq Document /\ \A d \in DOMAIN rows : rows[d] \in MayRead[d]
Extract(up) ==
  {Made("extract", up, rows, Document \ DOMAIN rows) :
     rows \in {some \in UNION {[docs -> TextSet] : docs \in SUBSET Document} : ReadBy(some)}}

\* _normalize_item: a text that is empty or too long is refused.
Unusable(rows) == {d \in DOMAIN rows : ~ViewsOf[rows[d]].fits}
Normalize(up) ==
  LET given == DocumentInputs(up)
  IN  {Made("normalize", up, Only(given, Document \ Unusable(given)), Unusable(given))}

\* SketchTables.add: the keys of a document, and its buckets, in any order.
SketchKeys(rows) == [d \in DOMAIN rows |-> [exact |-> rows[d], normalized |-> ViewsOf[rows[d]].canonical]]
SketchSizes(rows) == [d \in DOMAIN rows |-> ViewsOf[rows[d]].chars]
SketchBuckets(rows, order) == [n \in DOMAIN order |-> {d \in DOMAIN rows : order[n] \in ViewsOf[rows[d]].bands}]
SketchLikeness(rows) == [p \in PairsOf(DOMAIN rows) |-> Likeness[<<rows[p[1]], rows[p[2]]>>]]
BandOrders == {order \in [1 .. Cardinality(BandKeys) -> BandKeys] : \A i, j \in DOMAIN order : order[i] = order[j] => i = j}
Grouped(rows, order) == PlanGroups(SketchKeys(rows), SketchSizes(rows), SketchBuckets(rows, order), SketchLikeness(rows))
Dedupe(up) ==
  LET given == NormalizedInputs(up)
  IN  {Made("dedupe", up, Only(given, Grouped(given, order).suppressed), {}) : order \in BandOrders}

\* _chunk_item: a text that cannot be cut is refused.
Uncut(rows) == {d \in DOMAIN rows : ~ViewsOf[rows[d]].cuts}
Chunk(up) ==
  LET given == ChunkInputs(up)
  IN  {Made("chunk", up, Only(given, Document \ Uncut(given)), Uncut(given))}
Load(up) == {Made("load", up, Shot(up.chunk).rows, {})}
\* The command ends here; parted: a forced one has not come to the end.
Broken(c) == [c EXCEPT !.walk = NoWalk, !.parted = @ \/ c.walk.force]
Onward(walk) == IF walk.at = walk.to THEN NoWalk ELSE [walk EXCEPT !.at = @ + 1]
Advance(c) == [c EXCEPT !.walk = Onward(@)]
\* A new attempt takes the place of the indexed one and is not stale.
Index(c, stage) == [c EXCEPT !.index[stage] = Len(c.shots), !.stale = @ \ {stage}]

\* run_dag: one stage or all from one on; what is above it is resolved like a reuse.
AskWalk(from, to, force) ==
  /\ call.op \in {"none", "chain"} /\ call' = [op |-> "chain"]
  /\ corpus.walk = NoWalk /\ corpus.walks + corpus.losses < MaxWalks
  /\ \A i \in 1 .. from - 1 : Reusable(StageAt[i])
  /\ corpus' = [corpus EXCEPT !.walk = [at |-> from, to |-> to, force |-> force,
                                        since |-> IF force /\ from = 1 THEN Len(corpus.shots) ELSE -1,
                                        index |-> corpus.index, stale |-> corpus.stale],
                              !.walks = @ + 1,
                              !.parted = @ \/ (force /\ (from # 1 \/ to # 5))]

Reuse ==
  /\ corpus.walk # NoWalk /\ ~corpus.walk.force /\ Reusable(Step) /\ UNCHANGED call
  /\ corpus' = Advance(corpus)

\* The stage's publisher: nothing is published unless all of it is.  A load
\* replaces what was loaded before.
Replaced(c, shot) ==
  LET links == CorpusLinks(shot.up.chunk)
  IN  [c EXCEPT !.loaded = [documents |-> Shot(links.extraction).rows, chunks |-> shot.rows,
                            chain |-> {shot.up.chunk, Shot(shot.up.chunk).up.dedupe,
                                       links.normalization, links.extraction},
                            since |-> c.walk.since]]
PublishShot(shot) ==
  LET next == Index([corpus EXCEPT !.shots = Append(@, shot)], shot.stage)
  IN  corpus' = IF Partial(shot) THEN Broken(next)
                ELSE Advance(IF shot.stage = "load" THEN Replaced(next, shot) ELSE next)

\* The stage's run, once its inputs are as their manifests say.
Run(stage, up) ==
  \/ stage = "extract" /\ \E shot \in Extract(up) : PublishShot(shot)
  \/ stage = "normalize" /\ \E shot \in Normalize(up) : PublishShot(shot)
  \/ stage = "dedupe" /\ \E shot \in Dedupe(up) : PublishShot(shot)
  \/ stage = "chunk" /\ \E shot \in Chunk(up) : PublishShot(shot)
  \/ stage = "load" /\ \E shot \in Load(up) : PublishShot(shot)

Chained(stage, up) ==
  stage = "load" =>
    LET links == CorpusLinks(up.chunk)
    IN  Shot(links.normalization).sound /\ Shot(links.extraction).sound

Execute ==
  /\ corpus.walk # NoWalk /\ ~(~corpus.walk.force /\ Reusable(Step)) /\ UNCHANGED call
  /\ LET up == Upstream(Step)
     IN  IF ValidInputs(up) /\ Chained(Step, up) THEN Run(Step, up)
         ELSE corpus' = Broken(corpus)

\* A failure or an interrupt: what was published before stays.  A death leaves
\* the index as it was saved by the command before.
Halt == corpus.walk # NoWalk /\ UNCHANGED call /\ corpus' = Broken(corpus)
Die ==
  /\ corpus.walk # NoWalk /\ corpus.index # corpus.walk.index /\ UNCHANGED call
  /\ corpus' = Broken([corpus EXCEPT !.index = corpus.walk.index, !.stale = corpus.walk.stale])

\* invalidate, with everything that was made from it.
InvalidateReaders(stage) == {stage} \cup {s \in StageSet : stage \in InputsOf[s]}
InvalidateBelow(stage) == DownstreamOf[stage]
AskInvalidate(stage) ==
  /\ call.op \in {"none", "chain"} /\ call' = [op |-> "chain"] /\ corpus.walk = NoWalk
  /\ corpus.walks + corpus.losses < MaxWalks /\ corpus.index[stage] # 0
  /\ corpus' = [corpus EXCEPT !.walks = @ + 1,
                              !.stale = @ \cup {s \in InvalidateBelow(stage) : corpus.index[s] # 0}]

Lose(n) ==
  /\ corpus.walk = NoWalk /\ corpus.walks + corpus.losses < MaxWalks
  /\ corpus.losses < MaxLosses /\ Shot(n).sound /\ UNCHANGED call
  /\ corpus' = [corpus EXCEPT !.losses = @ + 1, !.shots[n].sound = FALSE]

ChainNext ==
  \/ \E from \in 1 .. 5 : \E to \in {from, 5}, force \in BOOLEAN : AskWalk(from, to, force)
  \/ Reuse \/ Execute \/ Halt \/ Die
  \/ \E stage \in StageSet : AskInvalidate(stage)
  \/ \E n \in 1 .. Len(corpus.shots) : Lose(n)

-----------------------------------------------------------------------------
(* The chunks in the store are of documents of the same load and of the    *)
(* text that was read of them, however the stages were run again, forced   *)
(* and lost in between.                                                    *)
LoadedTogether ==
  LET loaded == corpus.loaded
  IN  \A d \in DOMAIN loaded.chunks :
        d \in DOMAIN loaded.documents /\ loaded.documents[d] = loaded.chunks[d]

(* A rebuild loads what it has made itself.                                *)
RebuildIsNew ==
  corpus.loaded.since >= 0 => \A n \in corpus.loaded.chain : n > corpus.loaded.since

(* Every extracted document is refused with a reason by normalization, or  *)
(* it or a duplicate of it over some steps is in the chunks or refused     *)
(* with a reason by chunking; and no two documents of one text come to     *)
(* chunking.  Unless only some of the stages were forced or files were     *)
(* lost before: chunking does not compare the normalization it reads with  *)
(* the one the duplicates were found in.                                   *)
Duplicates(rows) ==
  {p \in PairsOf(DOMAIN rows) :
     SameKey(SketchKeys(rows)[p[1]], SketchKeys(rows)[p[2]]) \/ SketchLikeness(rows)[p] = "duplicate"}
TextSurvives ==
  ~corpus.parted /\ corpus.losses = 0 =>
    \A n \in 1 .. Len(corpus.shots) : Shot(n).stage = "chunk" =>
      LET given == Shot(CorpusLinks(n).extraction).rows
          refused == Shot(CorpusLinks(n).normalization).quarantined
          normalized == Shot(CorpusLinks(n).normalization).rows
          chunked == DOMAIN Shot(n).rows \cup Shot(n).quarantined
      IN  /\ \A d \in DOMAIN given \ refused :
               /\ d \in DOMAIN normalized
               /\ Reach(DOMAIN normalized, Duplicates(normalized), d) \cap chunked # {}
          /\ \A d, e \in chunked : d # e => ~SameKey(SketchKeys(normalized)[d], SketchKeys(normalized)[e])

\* From extraction to load no text is lost to duplicates, limits, failures or
\* commands, and what is loaded together was made together.
CorpusHolds ==
  /\ OneSurvivor
  /\ TruncationTold
  /\ LoadedTogether
  /\ RebuildIsNew
  /\ TextSurvives
=============================================================================
