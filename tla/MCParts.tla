------------------------------ MODULE MCParts ------------------------------
(* The parts that are safe on their own: bounded inputs for the calls of   *)
(* the sequential ones, and machines.  A behaviour is of one part.         *)
EXTENDS StageGraph, Upkeep, Chunks, CorpusChain, Answers, Resources,
        QualityGate, Retrieval, Evolution, Transforms, SourceInventory,
        Extraction, SchemaStore, EvidenceBundles, Runtime, StoreTables,
        PlanIntegrity, ContractCatalog, TLC

CONSTANT Asked       \* the groups of calls and the machines a run has
VARIABLE focus       \* the one that a behaviour is of

machines == <<transforms, source, extract, schemas, evaluations, corpus, roots, store>>
all == <<focus, call, machines>>

\* Every graph of three stages, cycles included.
Small == {[order |-> <<"a", "b", "c">>, deps |-> d] :
            d \in [{"a", "b", "c"} -> SUBSET {"a", "b", "c"}]}
\* The registered stages from chunk to report.
Later == {"chunk", "load-lexical", "nlp", "topics", "facts", "domain-artifacts", "evaluate", "report"}
Excerpt == [order |-> SelectSeq(Production.order, LAMBDA s : s \in Later),
            deps |-> [s \in Later |-> Production.deps[s] \cap Later]]

Ends(g) == Stages(g) \cup {None}

Graphs ==
  \/ \E g \in Small : AskOrder(g)
  \/ \E g \in {h \in Small : Registers(h)}, optional \in SUBSET {"a", "b", "c"},
        profile \in {{"a", "b", "c"}, {"b", "c"}} :
       \E from, to \in Ends(g) : AskPlan(g, profile, optional, from, to)
  \/ \E name \in DOMAIN ProfileStages, from, to \in Ends(Excerpt) :
       AskPlan(Excerpt, ProfileStages[name] \cap Later, {}, from, to)

\* The registered stages, from each of them on.
Cuts == \E from \in Stages(Production) : AskPlan(Production, ProfileStages.investigation, OptionalStages, from, None)

\* Two silos, of two paths and one, or one of three paths; what cannot be
\* listed shows no path.
Silos(paths, contents) ==
  {[readable |-> TRUE, seen |-> f] : f \in [paths -> contents]}
  \cup {[readable |-> FALSE, seen |-> [p \in paths |-> "absent"]]}
Seen == {"absent", "unreadable", "h1", "h2"}
Pairwise == {<<a, b>> : a \in Silos({1, 2}, Seen), b \in Silos({1}, Seen)}
Single == {<<a>> : a \in Silos({1, 2, 3}, {"absent", "h1", "h2"})}
Updates ==
  \/ \E previous, current \in Pairwise : AskUpdate(previous, current)
  \/ \E previous, current \in Single : AskUpdate(previous, current)

\* Texts of up to five characters before normalization, and of up to six
\* before they are searched.
Texts(chars, n) == UNION {[1 .. k -> chars] : k \in 0 .. n}
Views ==
  \/ \E text \in Texts(Marks \cup {"x", "w", "r", "n", "d"}, 5) : AskView(CanonicalPieces(text))
  \/ \E text \in Texts({"x", "w", "_"}, 6) : AskView(SearchPieces(text))

\* Blocks of up to nine characters that white space may surround inside only,
\* sentences beginning behind any white space; tables of up to five rows;
\* documents of up to five lines.
Blocks ==
  \/ \E k \in 0 .. 7 : \E middle \in [1 .. k -> {"x", "_"}], n \in 0 .. 2 :
       LET text == <<"x">> \o middle \o <<"x">>
       IN  \E begins \in SUBSET {i \in 1 .. k + 1 : IsSpace(text, i - 1) /\ ~IsSpace(text, i)} :
             AskProse(text, begins, n)
  \/ \E rows \in Texts({0, 1, 2}, 5) : rows # <<>> /\ AskTable(rows)
  \/ \E lines \in Texts({"blank", "head1", "head2", "cells", "text"}, 5), n \in 1 .. 2 :
       AskDocument(lines, n)

\* Three documents: of every two keys and sizes; with a text in common or not,
\* every likeness and up to two buckets.  Four of different texts, in buckets of
\* three and four.
Buckets(docs, least) ==
  UNION {[1 .. k -> {b \in SUBSET docs : Cardinality(b) >= least}] : k \in 0 .. 2}
Exactly(exact) == [d \in DOMAIN exact |-> [exact |-> exact[d], normalized |-> <<"m", "n", "o", "p">>[d]]]
Groups ==
  \/ \E keys \in [1 .. 3 -> [exact : {"none", "k", "l"}, normalized : {"m", "n"}]], sizes \in [1 .. 3 -> {1, 2}] :
       AskGroups(keys, sizes, <<>>, [p \in PairsOf(1 .. 3) |-> "other"])
  \/ \E exact \in {e \in [1 .. 3 -> {"none", "k"}] : Cardinality({d \in 1 .. 3 : e[d] = "k"}) # 1}, sizes \in {<<2, 1, 1>>, <<1, 1, 2>>},
        buckets \in Buckets(1 .. 3, 2),
        alike \in [PairsOf(1 .. 3) -> {"duplicate", "edition", "other"}] :
       AskGroups(Exactly(exact), sizes, buckets, alike)
  \/ \E buckets \in Buckets(1 .. 4, 3), alike \in [PairsOf(1 .. 4) -> {"duplicate", "other"}] :
       AskGroups(Exactly([d \in 1 .. 4 |-> "none"]), [d \in 1 .. 4 |-> d % 2], buckets, alike)

\* Two documents of one canonical text and sketches that fall into one bucket,
\* or an empty one in place of the longer of the two; alone, the shorter one
\* cannot be cut.
CorpusDocuments == {1, 2}
CorpusTexts == <<{"short"}, {"long", "blank"}>>
TextWith(canonical, chars, bands, fits, cuts) ==
  [canonical |-> canonical, chars |-> chars, bands |-> bands, fits |-> fits, cuts |-> cuts]
CorpusViews == [short |-> TextWith("c", 1, {"b"}, TRUE, FALSE), long |-> TextWith("c", 2, {"b"}, TRUE, TRUE),
                blank |-> TextWith("d", 0, {}, FALSE, FALSE)]
CorpusLikeness ==
  [p \in (DOMAIN CorpusViews) \X (DOMAIN CorpusViews) |->
     IF p[1] = p[2] THEN "duplicate" ELSE IF "blank" \in {p[1], p[2]} THEN "other" ELSE "edition"]

\* Every way to move the files three times over four paths.
Homes == <<[id |-> "first", silo |-> "s", path |-> "a", member |-> FALSE],
           [id |-> "second", silo |-> "s", path |-> "b", member |-> FALSE]>>
After(worlds, named) ==
  UNION {{Moved(w, move, named) : move \in Moves(w, {"a", "b", "c", "d", "e"})} : w \in worlds}
Histories(named) ==
  LET one == After({NoMoves(Homes)}, named)
      two == After(one, named)
  IN  one \cup two \cup After(two, named)
Archive ==
  \E named \in BOOLEAN : \E world \in Histories(named) :
    \E k \in 1 .. Len(world.events) : AskLocate(Homes, world, k, named)

\* Forecasts of every plan over three ways to place the roots; and forecasts
\* that runs of other plans, caches, envelopes and free space come upon.
Places ==
  LET outputs(d, e) == [r \in DataRoots |-> IF r \in {"PGDATA_DIR", "TMP_DIR"} THEN d ELSE e]
      archives(d) == [r \in SiloVariables |-> d]
  IN  {outputs("d1", "d1") @@ archives("d1"),
       outputs("d2", "d2") @@ archives("d1"),
       outputs("d2", "d3") @@ archives("d1") @@ [r \in {"PG_WAL_DIR"} \cup Tablespaces |-> "d3"]}
Facts(plan, cached, amplification, bytes, comparable, place, free) ==
  [plan |-> plan, cached |-> cached, amplification |-> amplification, config |-> "v1",
   bytes |-> bytes, truncated |-> FALSE, comparable |-> comparable, sample |-> FALSE,
   gpu |-> TRUE, place |-> place, free |-> free, lost |-> {}, rotational |-> {"d2"}]
Free(n) == [d \in {"d1", "d2", "d3"} |-> n]
CachedSets == {{}, {"embed"}, {"graph", "other"}}
Forecasted ==
  \/ \E plan \in SUBSET StageNames \ {{}}, place \in Places, lost \in {{}, {"TMP_DIR"}},
        free \in [{"d1", "d2", "d3"} -> {400, 2000}], now \in {0, 2000} :
       LET then == [Facts(plan, {}, 4, 100, TRUE, place, free) EXCEPT !.lost = lost]
       IN  AskForecast(then, then) \/ AskForecast(then, [then EXCEPT !.free = Free(now)])
           \/ AskForecast(then, [then EXCEPT !.lost = {"RESULTS_DIR"}])
  \/ \E plan, later \in SUBSET (StageNames \ {"load-vector", "load-lexical"}) \ {{}}, cached, hits \in CachedSets, amplification \in {4, 5},
        bytes \in {100, 200}, comparable \in BOOLEAN, now \in {450, 700, 2000} :
       LET place == CHOOSE p \in Places : p["RESULTS_DIR"] = "d3"
       IN  AskForecast(Facts(plan, cached, 4, bytes, comparable, place, Free(2000)),
                       Facts(later, hits, amplification, bytes, comparable, place, Free(now)))

\* Datasets of up to three rows, each with at most one flaw of its own, and
\* ways to check them that differ in one respect.
DeclaredAs(type, unique, longest, accepted, references) ==
  [type |-> type, nullable |-> ~unique, unique |-> unique, longest |-> longest, accepted |-> accepted,
   references |-> references]
QualityColumns ==
  [id |-> DeclaredAs("string", TRUE, {2}, {}, "none"), paper |-> DeclaredAs("string", FALSE, {}, {}, "papers"),
   price |-> DeclaredAs("decimal", FALSE, {}, {}, "none"), currency |-> DeclaredAs("string", FALSE, {}, {"eur"}, "none")]
QualityRow(id, paper, price, currency) == [id |-> id, paper |-> paper, price |-> price, currency |-> currency]
QualityRows ==
  {QualityRow(id, "p1", "7", "eur") : id \in {"k2", "key", Null}}
  \cup {QualityRow("k2", paper, Null, Null) : paper \in {"p9", Null}}
  \cup {QualityRow("k3", "p1", price, currency) : price \in {"7", Null}, currency \in {"usd", Null}}
Dtypes == [c \in DOMAIN QualityColumns |-> QualityColumns[c].type]
Checking == [lazy |-> FALSE, source |-> "parquet", dtypes |-> Dtypes, execute |-> TRUE, minRows |-> 0,
             related |-> [papers |-> {"p1"}], attached |-> {}]
Datasets ==
  \E rows \in Texts(QualityRows, 3),
     with \in {Checking, [Checking EXCEPT !.lazy = TRUE], [Checking EXCEPT !.execute = FALSE],
              [Checking EXCEPT !.minRows = 2], [Checking EXCEPT !.related = << >>],
              [Checking EXCEPT !.dtypes.price = "float"]}
             \cup {[Checking EXCEPT !.source = s] : s \in {"frame", "json", "arrow"}}
             \cup {[Checking EXCEPT !.dtypes = Restrict(Dtypes, DOMAIN Dtypes \ {c})] : c \in DOMAIN Dtypes}
             \cup {[Checking EXCEPT !.attached = a] : a \in {{"none"}, {"some"}, {"missing"}, {"none", "some"}}} :
    AskQuality([i \in DOMAIN rows |-> Restrict(rows[i], DOMAIN with.dtypes)], with)

\* Every two endpoints whose seeds may differ, with hits that may change; and
\* every reading of the gates.
Intervals(wins, losses) ==
  {i \in {<<-2, -1>>, <<-1, -1>>, <<-2, 1>>, <<-1, 1>>, <<1, 1>>, <<1, 2>>} :
     (wins = 0 => i[2] <= 0) /\ (losses = 0 => i[1] >= 0)}
Endpoints ==
  UNION {{[wins |-> w[1], losses |-> w[2], low |-> [s \in Seeds |-> f[s][1]], high |-> [s \in Seeds |-> f[s][2]]] :
            f \in [Seeds -> Intervals(w[1], w[2])]} : w \in {<<8, 0>>, <<8, 1>>, <<1, 8>>, <<5, 0>>}}
Readings ==
  [inexact : 0 .. 1, forbidden : 0 .. 1,
   errors : [candidate : SUBSET {"q1", "q2"}, baseline : SUBSET {"q1"}],
   answered : [candidate : 0 .. 1, baseline : 0 .. 1],
   p95 : {[candidate |-> c, baseline |-> b] : c \in {10, 40, 50, 60}, b \in {5, 19, 46}}]
Fine == [inexact |-> 0, forbidden |-> 0, errors |-> [candidate |-> {}, baseline |-> {}],
         answered |-> [candidate |-> 0, baseline |-> 0], p95 |-> [candidate |-> 10, baseline |-> 10]]
Decisions ==
  \/ \E q, p \in Endpoints, u \in {{}, {"candidate"}, {"baseline", "third"}} :
       AskVerdict(Fine @@ [quality |-> q, precision |-> p, unstable |-> u])
  \/ \E r \in Readings, q \in {e \in Endpoints : e.losses <= 1 /\ \A s \in Seeds : e.low[s] = 1 /\ e.high[s] = 2} :
       AskVerdict(r @@ [quality |-> q, precision |-> q, unstable |-> {}])

\* Every change of a field, of the hints and of the version at once; and three
\* snapshots of two fields in a row.
FieldSpecs == {NoField} \cup [type : {"t1", "t2"}, required : BOOLEAN]
Versions == {<<0, 9, 9>>, <<1, 0, 5>>, <<1, 1, 0>>, <<1, 1, 1>>, <<1, 1, 2>>, <<1, 2, 0>>, <<2, 0, 0>>}
ContractSnapshot(fields, hints, version) == [fields |-> fields, version |-> version] @@ hints
Plain == [search |-> 0, dims |-> 0, vector |-> 0, graph |-> 0, semantics |-> "s0"]
Contracts ==
  \/ \E f, g \in FieldSpecs, v \in Versions,
        hints \in [search : 0 .. 1, dims : 0 .. 1, vector : 0 .. 1, graph : 0 .. 1, semantics : {"s0", "s1"}] :
       AskEvolution(ContractSnapshot([f |-> f], Plain, <<1, 1, 1>>), ContractSnapshot([f |-> g], hints, v))
  \/ \E f \in [1 .. 3 -> FieldSpecs], g \in [1 .. 3 -> {NoField, [type |-> "t1", required |-> FALSE]}],
        v \in [2 .. 3 -> {<<1, 0, 0>>, <<1, 1, 0>>, <<1, 2, 0>>, <<2, 0, 0>>}] :
       AskBaselines([i \in 1 .. 3 |-> ContractSnapshot([f |-> f[i], g |-> g[i]], Plain,
                                               IF i = 1 THEN <<1, 0, 0>> ELSE v[i])])

\* Two classes that both change, a third that is added; every two forms of a
\* predicate, what it is called and bound to included; and versions.
ClassForms(others) == [uri : {"u"}, parents : SUBSET others, disjoint : SUBSET others, status : {"active", "deprecated"}]
Gone == [status |-> "gone"]
ClassesOf(f) == [c \in {d \in DOMAIN f : f[d] # Gone} |-> f[c]]
PredicateForms ==
  {f \in [uri : {"u"}, binding : {"b"}, status : {"active", "deprecated"}, kind : {"object", "datatype"}, domains : {{}, {"A"}},
          ranges : {{}, {"B"}, {"string"}}, functional : BOOLEAN, successor : BOOLEAN] :
     (f.kind = "datatype") = (f.ranges = {"string"}) /\ (f.successor => f.status = "deprecated")}
Related == [uri |-> "u", binding |-> "b", status |-> "active", kind |-> "object", domains |-> {"A"}, ranges |-> {"B"},
            functional |-> TRUE, successor |-> FALSE]
Scored == [Related EXCEPT !.kind = "datatype", !.ranges = {"number"}]
Classified == "A" :> [uri |-> "u", parents |-> {}, disjoint |-> {}, status |-> "active"]
           @@ "B" :> [uri |-> "u", parents |-> {"A"}, disjoint |-> {}, status |-> "active"]
CatalogAt(version, classes, predicates) == [version |-> version, classes |-> classes, predicates |-> predicates]
FirstVersion == <<1, 1, 1>>
Ontologies ==
  \/ \E a \in ClassForms({"B"}), b \in {f \in ClassForms({"A"}) : f.status = "active"}, ranges \in {{}, {"B"}} :
     \E na \in ClassForms({"B"}) \cup {Gone}, nb \in ClassForms({"A"}) \cup {Gone},
        nc \in {Gone} \cup [uri : {"u"}, parents : {{}, {"A"}}, disjoint : {{}, {"B"}}, status : {"active"}] :
       LET p == "p" :> [Related EXCEPT !.ranges = ranges]
       IN  AskOntology(CatalogAt(FirstVersion, "A" :> a @@ "B" :> b, p),
                       CatalogAt(<<1, 2, 0>>, ClassesOf("A" :> na @@ "B" :> nb @@ "C" :> nc), p))
  \/ \E f \in PredicateForms, g \in PredicateForms \cup {Gone} :
       AskOntology(CatalogAt(FirstVersion, Classified, "p" :> f),
                   CatalogAt(<<1, 2, 0>>, Classified, ClassesOf("p" :> g)))
  \/ \E changed \in {Related, [Related EXCEPT !.uri = "v"], [Related EXCEPT !.binding = "c"],
                     [Related EXCEPT !.status = "deprecated", !.successor = TRUE]},
        uri \in {"u", "v"}, more \in BOOLEAN, version \in Versions :
       AskOntology(CatalogAt(FirstVersion, Classified, "p" :> Related @@ "confidence-score" :> Scored),
                   CatalogAt(version, [Classified EXCEPT !["B"].uri = uri],
                             "p" :> changed @@ "confidence-score" :> Scored @@ IF more THEN "q" :> Related ELSE << >>))

\* Two assertions of one subject, written alike or not; up to nine lines of an
\* assembly, three alternatives, a row of an allocation or of the registry.
Spelt(terms) == [term : terms, as : {"term", "uri", "foreign"}]
Domain == CatalogAt(FirstVersion, Classified,
            [t \in {"part-of", "references", "supersedes", "same-name-as", "alias-of"} |->
               [Related EXCEPT !.functional = t = "supersedes"]])
NoBatch == [assertions |-> <<>>, lines |-> <<>>, allocations |-> {}, registry |-> {}]
DomainFacts ==
  [who : {"x"}, whom : {"y", "z"}, predicate : Spelt(DOMAIN Domain.predicates), subject : {{"A"}}, object : {{"B"}},
   value : {{}, {"object"}}, datatype : {"none"}, text : {"none"}]
Part(pair) == [child |-> pair[1], parent |-> pair[2], group |-> "none", mandatory |-> TRUE, quantity |-> 1,
               predicate |-> [term |-> "part-of", as |-> IF pair[1] = 1 THEN "uri" ELSE "term"]]
PartsIn(pairs) ==
  LET listed == SelectSeq([k \in 1 .. 9 |-> <<(k + 2) \div 3, 1 + (k % 3)>>], LAMBDA q : q \in pairs)
  IN  [i \in DOMAIN listed |-> Part(listed[i])]
Mention(pair) == [Part(pair) EXCEPT !.predicate.term = "references"]
DomainBatches ==
  \/ \E a, b \in DomainFacts : AskDomain(Domain, [NoBatch EXCEPT !.assertions = <<a, b>>])
  \/ \E pairs \in SUBSET ((1 .. 3) \X (1 .. 3)), other \in {<<1, 2>>, <<2, 1>>, <<3, 3>>} :
       AskDomain(Domain, [NoBatch EXCEPT !.lines = Append(PartsIn(pairs), Mention(other))])
  \/ \E groups \in [1 .. 3 -> {"none", "g", "h"}], mandatory \in [1 .. 3 -> BOOLEAN], unknown \in SUBSET (1 .. 3) :
       AskDomain(Domain, [NoBatch EXCEPT !.lines = [i \in 1 .. 3 |->
         [Part(<<i, 9>>) EXCEPT !.group = groups[i], !.mandatory = mandatory[i], !.quantity = IF i \in unknown THEN Unsaid ELSE i]]])
  \/ \E row \in [state : {"matched", "candidate", "paid"}, invoice : {"e"}, payment : {"e", "u"}, amount : {Unsaid, 1},
                  allocated : {Unsaid, 1, 2}, predicate : Spelt({"allocates-to", "amount-date-similar-to", "references"})] :
       AskDomain(Domain, [NoBatch EXCEPT !.allocations = {row}])
  \/ \E row \in [status : {"produced", "empty", "failed", "lost"}, reason : BOOLEAN] :
       AskDomain(Domain, [NoBatch EXCEPT !.registry = {row}])

\* Roots of which up to two overlap others, or one is on storage unfit for it;
\* sites without a root, a password or the gate; directories that lead elsewhere.
SoundRoots == [ARCHIVE_DIR |-> <<"a">>, ARCHIVE_SILO |-> Unset, RESULTS_DIR |-> <<"r">>, PGDATA_DIR |-> <<"d">>,
          PG_WAL_DIR |-> Unset, PG_TABLESPACE |-> <<"t">>, RUNS_DIR |-> Unset, SERVICE_STATE_DIR |-> Unset,
          MODEL_CACHE_DIR |-> <<"l">>, TMP_DIR |-> Unset]
Doubtful == {<<"ARCHIVE_DIR", <<"r", "m">>>>, <<"ARCHIVE_SILO", <<"l", "s">>>>, <<"RESULTS_DIR", <<"a", "r">>>>,
             <<"PGDATA_DIR", <<"r", "d">>>>, <<"PGDATA_DIR", <<"p">>>>, <<"PG_WAL_DIR", <<"d", "w">>>>,
             <<"PG_WAL_DIR", <<"w">>>>, <<"RUNS_DIR", <<"r", "m", "n">>>>, <<"SERVICE_STATE_DIR", <<"d">>>>,
             <<"MODEL_CACHE_DIR", Unset>>, <<"MODEL_CACHE_DIR", <<"r", "m">>>>, <<"TMP_DIR", <<"l", "x">>>>}
Site(placed, flaws) == [placed |-> placed, flaws |-> flaws, password |-> "secret", gate |-> TRUE]
Unfit == ({"PGDATA_DIR"} \X StorageFlaw) \cup {<<"ARCHIVE_DIR", "unreadable">>, <<"SERVICE_STATE_DIR", "network">>,
          <<"MODEL_CACHE_DIR", "file">>, <<"RESULTS_DIR", "readonly">>, <<"REPORT", "file">>}
Clashes == {<<x, x>> : x \in Doubtful} \cup {<<x, y>> \in Doubtful \X Doubtful : x[1] = "RUNS_DIR" /\ y[2] = <<"r", "m">>}
Sites ==
  {Site([SoundRoots EXCEPT ![c[1][1]] = c[1][2], ![c[2][1]] = c[2][2]], {}) : c \in Clashes}
  \cup {Site(SoundRoots, flaws) : flaws \in {{}} \cup {{u} : u \in Unfit}}
  \cup {[Site(SoundRoots, {}) EXCEPT !.password = p, !.gate = p = "none"] : p \in {"none", "placeholder"}}
  \cup {Site([SoundRoots EXCEPT !["ARCHIVE_DIR"] = Unset], {})}
Requests ==
  IF roots.site = <<>> \/ ~roots.site.gate THEN {{"graph"}, {}}
  ELSE IF roots.site.placed = SoundRoots THEN {{"vllm"}, {}} ELSE {{}}
Reports == {Unset, NoReport, <<"r", "j", "k">>}
Links ==
  IF roots.site = <<>> \/ roots.site # Site(roots.site.placed, {}) THEN {}
  ELSE {[at |-> at, to |-> <<"a">>] : at \in {<<"l">>} \cup IF roots.site.placed = SoundRoots THEN {<<"r", "j">>, <<"r", "normalized">>} ELSE {}}
       \cup IF roots.site.placed = SoundRoots THEN {[at |-> <<"r", "j">>, to |-> <<"r">>]} ELSE {}

\* Snapshots of one or two documents, and batches of chunks, facts and embeddings.
KeyedRow(id, to) == [id |-> id, to |-> to]
Snapshots ==
  {[documents |-> <<KeyedRow(1, 0)>>, chunks |-> c] : c \in {<<>>, <<KeyedRow(1, 1)>>}}
  \cup {[documents |-> <<KeyedRow(1, 0), KeyedRow(2, 0)>>, chunks |-> c] :
          c \in {<<KeyedRow(2, 2)>>, <<KeyedRow(1, 1), KeyedRow(2, 1)>>}}
Batches ==
  {[table |-> "chunks", batch |-> <<KeyedRow(k, 1)>>] : k \in 1 .. 2}
  \cup {[table |-> "facts", batch |-> b] : b \in {<<KeyedRow(1, 1)>>, <<KeyedRow(1, 2)>>, <<KeyedRow(2, 1), KeyedRow(1, 2)>>}}
  \cup {[table |-> "embeddings", batch |-> b] :
          b \in {<<KeyedRow(1, 1)>>, <<KeyedRow(2, 1)>>, <<KeyedRow(1, 2), KeyedRow(2, 1)>>, <<KeyedRow(1, 1), KeyedRow(2, 1)>>}}

\* Hosts with trouble in up to two parts.
Hosts == {{}} \cup {{x[1], x[2]} : x \in {y \in Trouble \X Trouble : y[1] = y[2] \/ y[1][1] # y[2][1]}}

\* Queries that are written in up to two ways too many, over three chunks that
\* kinds of variants match; and tokens of up to four characters.
Queries ==
  {PlainQuery} \cup {[PlainQuery EXCEPT !.alias = a, !.layout = l, !.translit = l] : a \in {<<>>, <<1, 2, 3, 4, 5>>}, l \in {<<>>, <<1>>}}
  \cup {[PlainQuery EXCEPT !.alias = <<1, 1>>, !.layout = <<1>>, !.syntax = TRUE, !.words = w] : w \in {{}, {"base", "alias"}}}
Found(chunks, base, alias, layout, fuzzy) ==
  [chunks |-> chunks, language |-> [c \in chunks |-> IF c = 2 THEN "en" ELSE "ru"],
   words |-> [k \in {"base", "alias", "glyph", "stem", "layout", "translit"} |->
                CASE k = "base" -> base [] k = "alias" -> alias [] k = "layout" -> layout [] OTHER -> {}],
   fuzzy |-> [k \in {"base", "alias", "glyph", "stem", "layout", "translit"} |-> IF k = "base" THEN fuzzy ELSE {}]]
Searches ==
  \/ \E query \in Queries, profile \in QueryProfiles, base \in SUBSET (1 .. 3), alias \in {{}, {1}, {2, 3}}, layout \in {{}, {1, 2, 3}},
        fuzzy \in {{}, {1, 3}}, limit \in 1 .. 2 :
       AskSearch(query, profile, Found(1 .. 3, base, alias, layout, fuzzy), [limit |-> limit, filter |-> IF limit = 1 THEN "any" ELSE "ru"])
  \/ \E token \in Texts(Latin \cup Cyrillic \cup {"1"}, 4) : token # <<>> /\ AskRepair(token)

\* Two retrieved chunks and where else they were, over a document of three
\* characters; and rankings of two judged chunks and one that is not.
Ranges(document) == {Span(document, s, e) : s \in 0 .. 2, e \in 1 .. 3} \ {Span(document, 1, 1), Span(document, 2, 1), Span(document, 2, 2)}
Retrieved == {[at |-> at, occurrences |-> o] : at \in Ranges(1), o \in {{}} \cup {{l} : l \in Ranges(1)} \cup {{Span(2, 0, 2)}}}
Rankings ==
  \/ \E chunks \in [1 .. 2 -> Retrieved], spans \in {{Span(1, 0, 3)}, {Span(1, 1, 2), Span(2, 1, 3)}}, k \in 1 .. 2 :
       AskMetrics(chunks, spans, k)
  \/ \E at \in Ranges(1), other \in Ranges(1) \cup {Span(2, 0, 2)}, hits \in {h \in Texts({"c1", "c2", "filler"}, 3) : IsInjective(h)},
        relevant \in SUBSET {"c1", "c2"}, error \in BOOLEAN, kQuality, kPrecision \in 1 .. 2 :
       /\ error => hits = <<>>
       /\ LET left == {"c1", "c2"} \ relevant
          IN  AskScore([relevant |-> relevant, hard |-> left \cap {"c1"}, forbidden |-> left \cap {"c2"}],
                       [c1 |-> at, c2 |-> other], hits, error, kQuality, kPrecision)

\* Devices of up to four GiB on which one or two models are resident, and
\* sessions of three needs; what Ollama fails to do.
Footprint(weights) == [weights |-> weights, kvPer1k |-> 1, overhead |-> 1, offload |-> 0, ram |-> 4]
Residents == {<< >>, "m" :> 5, "n" :> 5, "m" :> 4 @@ "n" :> 3, "n" :> 3 @@ "o" :> 6}
PlacementHosts ==
  [total : {0, 12, 16}, resident : Residents, vllm : {0, 2}, others : {0, 1}, ram : {18, 30},
   failing : {{}, {"list"}, {"m"}, {"n"}}]
Placing ==
  \E host \in {h \in PlacementHosts : h.total = 0 => h.resident = << >> /\ h.vllm = 0 /\ h.others = 0},
     weights \in {2, 6, 11}, backend \in {"ollama", "vllm"}, batch \in 1 .. 2, offload \in {0, 3}, declared \in {0, 6},
     allowCpu, unload, control, release \in BOOLEAN :
    /\ host.total = 0 \/ FreeVram(host) >= 0
    /\ offload = 0 \/ backend = "vllm"
    /\ batch = 1 \/ weights = 6
    /\ declared = 0 \/ weights = 11
    /\ AskPlacement(host, [model |-> "m", backend |-> backend, context |-> 1, batch |-> batch, allowCpu |-> allowCpu,
                           unload |-> unload, control |-> control, release |-> release, gpu |-> declared, ram |-> declared,
                           footprint |-> FootprintOf(Footprint(weights), backend, offload)])

\* Answers of one or two spans with a flaw anywhere, and refusals.
Scalars == {String(""), String("a"), String("refused"), Integer(0), Integer(-1), Integer(2), Value("number", 2), Bool(TRUE), Value("null", 0)}
Members(names, values) == UNION {[n -> values] : n \in SUBSET names}
Span3 == [quote |-> String("a"), start |-> Integer(0), end |-> Integer(2)]
SpanValues ==
  {Object(Span3), String("a"), Object(Span3 @@ [more |-> Integer(0)])}
  \cup {Object(m) : m \in Members({"quote", "start", "end"}, Scalars)}
Answers ==
  {Value("text", 0), Integer(1), Array(<< >>)} \cup {Object(m) : m \in Members({"status", "reason"}, Scalars)}
  \cup {Object([value |-> v, evidence |-> Array(<<s>>)]) : v \in {String(""), String("a")}, s \in SpanValues}
  \cup {Object([value |-> v, evidence |-> Array(<<Object(Span3)>>)]) : v \in Scalars}
  \cup {Object([value |-> String("a"), evidence |-> e]) : e \in Scalars \cup {Array(<< >>), Object(Span3), Array(<<Object(Span3), String("a")>>)}}
  \cup {Object(m) : m \in Members({"value", "evidence", "status", "reason"}, {String("a"), String("refused")})}

\* Rows with up to three cells that are not as they should be; documents with
\* two or three occurrences in two silos, one or two events, and anything at a
\* place.
RowCells == {"absent", "null", "blank", "nested", "nul", "outside", "copy", "word"}
SoundRow == [c \in Required |-> IF c = "kind" THEN "rename" ELSE "word"]
RowsWith(flaws) ==
  LET row == [c \in Required \cup DOMAIN flaws |-> IF c \in DOMAIN flaws THEN flaws[c] ELSE SoundRow[c]]
  IN  [c \in {d \in DOMAIN row : row[d] # "absent"} |-> row[c]]
FlawedColumns == {"event_id", "event_time", "relative_path", "kind", "previous_relative_path", "occurrence_id", "generation_id", "bucket", "other"}
Portable == {RowsWith(f) : f \in UNION {[cs -> RowCells] : cs \in {c \in SUBSET FlawedColumns : Cardinality(c) <= 3}}}
OccursAt(id, silo, path, content) ==
  [id |-> id, silo |-> silo, path |-> path, member |-> FALSE, container |-> "none", content |-> content]
MemberAt(id, silo, path, container, content) ==
  [id |-> id, silo |-> silo, path |-> path, member |-> TRUE, container |-> container, content |-> content]
OccurrenceLists ==
  {<<OccursAt("o1", "s", "p", "h1"), OccursAt("o2", "t", "p", "h1")>>,
   <<OccursAt("o1", "s", "p", "h1"), OccursAt("o2", "s", "q", "h1"), OccursAt("o3", "s", "r", "h2")>>,
   <<MemberAt("o1", "s", "p", "r", "h1"), MemberAt("o2", "s", "q", "none", "h1")>>}
Cited(kind, id, about, document) == [kind |-> kind, id |-> id, about |-> about, document |-> document]
CitationLists ==
  {<<Cited("fact", "f", "f1", "d1"), Cited("fact", "g", about, d), Cited("content", "c", "none", "d2"), Cited("report", "f", "r", "d2")>> :
     d \in {"d1", "d2", "d3"}, about \in {"f", "g1"}}
PathEvent(kind, silo, document, occurrence, previous, path) ==
  [id |-> 5, time |-> 1, kind |-> kind, silo |-> silo, document |-> document, occurrence |-> occurrence, previous |-> previous, path |-> path]
PathEvents ==
  {PathEvent(kind, silo, document, occurrence, previous, path) :
     kind \in EventKinds, silo \in {"s", "t"}, document \in {"d1", "d2"}, occurrence \in {"none", "o1"},
     previous \in {"none", "p", "q"}, path \in {"q", "r"}}
EventLists ==
  {<<e>> : e \in PathEvents}
  \cup {<<[e EXCEPT !.id = 4, !.time = time], PathEvent("rename", "s", "d1", "none", "p", "q")>> :
          e \in {f \in PathEvents : f.silo = "s" /\ f.document = "d1"}, time \in {0, 1, 2}}
Whole == [link |-> FALSE, inside |-> TRUE, what |-> "h1"]
PlacesAt(entry, path) ==
  [x \in {"s", "t"} |-> [p \in {"p", "q", "r"} |-> IF p = path /\ x = "s" THEN entry ELSE Whole]]
CatalogOf(citations, occurrences, events) ==
  [documents |-> [d1 |-> "h1", d2 |-> "h2"], citations |-> citations, occurrences |-> occurrences, events |-> events]
Citing ==
  \/ \E raw \in Portable : AskRow(raw)
  \/ \E occurrences \in OccurrenceLists, events \in EventLists, entry \in Entries, path \in {"p", "q", "r"} :
       \E given \in IF entry = Whole THEN {{"s"}, {"s", "t"}} ELSE {{"s"}} :
         AskResolve(CatalogOf(<< >>, occurrences, events), "d1", "content",
                    [roots |-> given, disk |-> PlacesAt(entry, path)])
  \/ \E citations \in CitationLists, token \in {"c", "d1", "d4", "f", "f1", "g", "r"}, kind \in {"content", "fact", "report"} :
       AskResolve(CatalogOf(citations, <<OccursAt("o1", "s", "p", "h1"), OccursAt("o3", "s", "r", "h2")>>, << >>),
                  token, kind, [roots |-> {"s"}, disk |-> PlacesAt(Whole, "p")])

\* Three tasks with every prerequisite among them; two, with what records carry
\* or lack; lanes in any order; and tasks of up to five lines.
Need(id, kind, conditional) == [id |-> id, kind |-> kind, conditional |-> conditional]
OpenTask(id, needs) == [id |-> id, lane |-> "agent", group |-> "g1", optional |-> FALSE, checkpoint |-> FALSE,
                        needs |-> needs, review |-> "none", claims |-> {}]
ThreeIds == <<"t1", "t2", "t3">>
Capabilities == <<[id |-> "g1", status |-> "planned"], [id |-> "g2", status |-> "shipped"]>>
Note(resolved, owned) == [resolved |-> resolved, owned |-> owned]
SoundRecord == [accepted |-> TRUE, snapshot |-> "task", evidence |-> 1, indexed |-> TRUE, verdicts |-> FALSE,
                declaresNone |-> TRUE, notes |-> << >>]
PlanRecords ==
  {[SoundRecord EXCEPT !.accepted = a, !.snapshot = s, !.evidence = e, !.verdicts = v] :
     a, v \in BOOLEAN, s \in {"task", "checkpoint", "foreign", "unavailable", "missing"}, e \in 0 .. 1}
  \cup {[SoundRecord EXCEPT !.declaresNone = d, !.indexed = i, !.notes = [n |-> n]] :
          d, i \in BOOLEAN, n \in {Note(r, o) : r, o \in BOOLEAN}}
Planned ==
  \/ \E needs \in [1 .. 3 -> SUBSET {Need(i, "task", FALSE) : i \in ToSet(ThreeIds)}], c \in SUBSET {1, 2} :
       AskPlanIntegrity(Capabilities, [k \in 1 .. 3 |-> OpenTask(ThreeIds[k], {[n EXCEPT !.conditional = k \in c] : n \in needs[k]})], << >>)
  \/ \E r \in PlanRecords, kind \in {"task", "record"}, conditional, checkpoint \in BOOLEAN, id, review \in {"a", "r", "s"},
        claims \in {{}, {<<"r", "n">>}, {<<"r", "m">>}} :
       AskPlanIntegrity(Capabilities,
                        <<[OpenTask("a", {}) EXCEPT !.checkpoint = checkpoint],
                          [OpenTask("b", {Need(id, kind, conditional)}) EXCEPT !.review = review, !.claims = claims]>>,
                        [r |-> r])
  \/ \E n \in 0 .. 3 : \E kinds \in [1 .. n -> [lane : PlanLanes, group : {"g1", "g2", "g3"}, optional : BOOLEAN]] :
       AskPlanIntegrity(Capabilities, [k \in 1 .. n |-> kinds[k] @@ OpenTask(ThreeIds[k], {})], << >>)
  \/ \E kinds \in Texts({"a", "b", "text", "blank", "heading"}, 5) :
       AskFields([n \in DOMAIN kinds |-> [n |-> n, key |-> kinds[n], kind |-> IF kinds[n] \in {"a", "b"} THEN "field" ELSE kinds[n]]])

\* Archives of up to three entries, and archives in them to depth 3.
NoArchive == [kind |-> "none", entries |-> << >>, breaks |-> FALSE]
Packing(is, declared, actual, inside) == [is |-> is, declared |-> declared, actual |-> actual, inside |-> inside]
Bodies == {Packing("file", 1, 1, NoArchive), Packing("file", 2, 2, NoArchive), Packing("file", 2, 1, NoArchive),
          Packing("file", 3, 3, NoArchive), Packing("dir", 0, 0, NoArchive), Packing("refused", 2, 0, NoArchive)}
Containers(items, n) ==
  [kind : {"zip", "tar"}, entries : UNION {[1 .. k -> items] : k \in 0 .. n}, breaks : BOOLEAN]
Inner == {Packing("file", 1, 1, c) : c \in
            {d \in Containers({Packing("file", 1, 1, NoArchive), Packing("file", 2, 1, NoArchive), Packing("refused", 2, 0, NoArchive)}, 2) :
               d.kind = "tar"}}
Deep == {Packing("file", 1, 1, [kind |-> "tar", entries |-> <<i>>, breaks |-> FALSE]) : i \in {j \in Inner : Len(j.inside.entries) = 1}}
Packed ==
  \/ \E c \in Containers(Bodies, 3) : AskMembers(c)
  \/ \E i \in Inner \cup Deep, j \in Inner \cup {Packing("file", 2, 2, NoArchive)}, breaks \in BOOLEAN, k \in Bodies \cup {NoArchive} :
       AskMembers([kind |-> "zip", entries |-> IF k = NoArchive THEN <<i, j>> ELSE <<k, i, j>>, breaks |-> breaks])

\* Three contracts, two of them with something else than a sound one has; trees
\* of two contracts, generated twice and checked.
Property(name, key) == [name |-> name, type |-> "string", key |-> key, position |-> IF key THEN 1 ELSE 0,
                        required |-> key, bound |-> TRUE, refs |-> << >>]
Relation(schema, field) == [schema |-> schema, field |-> field]
SoundDoc(n) == [id |-> "d" \o n, versioned |-> TRUE, schema |-> "s" \o n, table |-> "t" \o n, partition |-> "none",
                fields |-> <<Property("id", TRUE), Property("x" \o n, FALSE)>>]
SoundEntry(n) == [id |-> n, entity |-> "e" \o n, loads |-> TRUE, doc |-> SoundDoc(n),
                  mapping |-> [reviewed |-> TRUE, fields |-> <<[source |-> "id", binding |-> "b" \o n]>>]]
Documents(n) ==
  LET d == SoundDoc(n)
  IN  {d, [d EXCEPT !.id = "d2"], [d EXCEPT !.id = "none"], [d EXCEPT !.versioned = FALSE], [d EXCEPT !.schema = "s2"],
       [d EXCEPT !.table = "t2"], [d EXCEPT !.table = "none"], [d EXCEPT !.partition = "p"], [d EXCEPT !.schema = "s2", !.table = "none"],
       [d EXCEPT !.fields = Tail(@)], [d EXCEPT !.fields = Append(@, Property("id", TRUE))], [d EXCEPT !.fields = << >>]}
      \cup {[d EXCEPT !.fields[1] = p] : p \in
             {[Property("id", TRUE) EXCEPT !.required = FALSE], [Property("id", TRUE) EXCEPT !.position = 0],
              [Property("id", TRUE) EXCEPT !.type = "unsupported"], [Property("id", TRUE) EXCEPT !.bound = FALSE]}}
      \cup {[d EXCEPT !.fields[2].refs = r] : r \in
             {<<Relation(s, f)>> : s \in {"s1", "s2", "s3", "s4"}, f \in {"id", "x1", "p"}}
             \cup {<<Relation("s1", "id"), Relation("s2", "id")>>}}
      \cup {[d EXCEPT !.schema = "s2", !.fields[2].refs = <<Relation("s2", "id")>>], [d EXCEPT !.fields[2].key = TRUE, !.fields[2].position = 2],
            [d EXCEPT !.fields[2].key = TRUE, !.fields[2].position = 1, !.fields[2].required = TRUE]}
RegistryEntries(n) ==
  LET e == SoundEntry(n)
  IN  {[e EXCEPT !.doc = d] : d \in Documents(n)}
      \cup {[e EXCEPT !.entity = "e2"], [e EXCEPT !.entity = "none"], [e EXCEPT !.loads = FALSE], [e EXCEPT !.mapping.reviewed = FALSE],
            [e EXCEPT !.mapping.fields[1].binding = "b1"], [e EXCEPT !.mapping.fields[1].binding = "b2"],
            [e EXCEPT !.mapping.fields[1].source = "y"],
            [e EXCEPT !.mapping.fields = Append(@, [source |-> "id", binding |-> "b0"])],
            [e EXCEPT !.mapping.fields = Append(@, [source |-> "x1", binding |-> "b0"])]}
ModelField(n) == [entity |-> "e" \o n, name |-> "id", binding |-> "b" \o n, required |-> TRUE]
SoundModel == [loads |-> TRUE, fields |-> <<ModelField("1"), ModelField("2"), ModelField("3")>>]
CanonicalModels ==
  {SoundModel, [SoundModel EXCEPT !.loads = FALSE], [SoundModel EXCEPT !.fields = Tail(@)],
   [SoundModel EXCEPT !.fields[1].required = FALSE], [SoundModel EXCEPT !.fields[3].binding = "b2"],
   [SoundModel EXCEPT !.fields = Append(@, [ModelField("1") EXCEPT !.binding = "b0", !.name = "x", !.required = FALSE])]}
Contracted(n, hints, content) == [id |-> n, hints |-> hints, content |-> content, refused |-> content = 0]
Generations ==
  {{c, d} \ {Contracted("none", {}, 1)} : c \in {Contracted("1", h, n) : h \in {{}, {"search"}, {"vector", "graph"}}, n \in {1, 2}},
                                         d \in {Contracted("2", {"graph"}, n) : n \in 0 .. 2} \cup {Contracted("none", {}, 1)}}
Catalogued ==
  \/ \E a \in RegistryEntries("1"), c \in RegistryEntries("3"), canonical \in CanonicalModels :
       AskCatalog(<<a, SoundEntry("2"), c>>, canonical)
  \/ \E first, then, checked \in Generations : AskGeneration(first, then, checked)

\* A stage of up to two validators and what it and the boundary bring; checks
\* of every kind, two at a time.
Validation(contract, generation, publishable) ==
  [contract |-> contract, generation |-> generation, publishable |-> publishable]
Transformation(generation, answer, activatable) ==
  [generation |-> generation, status |-> answer, activatable |-> activatable]
GateCheck(answer, scope, required) == [status |-> answer, scope |-> scope, required |-> required]
PassingCheck == GateCheck("pass", "global", TRUE)
Evidenced == {Validation(c, g, p) : c \in {"d", "e"}, g \in {"g1", "g2"}, p \in BOOLEAN}
Answered(d) == {Validation(d, "g1", TRUE), Validation(d, "g1", FALSE), Validation(d, "g2", TRUE), Validation("f", "g1", TRUE)}
Built == {Transformation("g1", "ok", TRUE), Transformation("g2", "ok", TRUE), Transformation("g1", "failed", TRUE),
          Transformation("g1", "ok", FALSE)}
Gated ==
  \/ \E validators \in {<< >>, <<"d">>, <<"d", "e">>}, own \in Texts(Evidenced, 2), d \in Answered("d"), e \in Answered("e") :
       AskBoundary([validators |-> validators, select |-> FALSE], [validations |-> own, transformations |-> << >>],
                   [validate |-> [d |-> d, e |-> e], transform |-> CHOOSE t \in Built : TRUE, checks |-> <<PassingCheck>>])
  \/ \E select \in BOOLEAN, own \in Texts(Built, 1), t \in Built,
        checks \in Texts({GateCheck(s, w, r) : s \in {"pass", "warning", "fail", "not-run"}, w \in {"global", "shard"}, r \in BOOLEAN}, 2) :
       AskBoundary([validators |-> << >>, select |-> select], [validations |-> << >>, transformations |-> own],
                   [validate |-> << >>, transform |-> t, checks |-> checks])

\* Up to two stale attempts of two runs; one mark at a time, of which the place
\* is the attempt, in it or around it, before and after.  No two attempts are the
\* same directory under two names.
StaleEntries ==
  {[named |-> n, at |-> a, links |-> FALSE] : n \in {<<"r1", "a">>, <<"r2", "a">>}, a \in {<<"r2", "a">>, <<"r2", "b">>}}
  \cup {[named |-> <<"r1", "a">>, at |-> <<"r1", "a">>, links |-> TRUE], [named |-> <<"r1", "a">>, at |-> <<"r1", "a">>, links |-> FALSE],
        [named |-> <<"r1", "b">>, at |-> <<"outside", "b">>, links |-> FALSE]}
NoMarks == [active |-> "none", pinned |-> {}, reviewed |-> {}, rollback |-> {}, ledgers |-> {}, backups |-> {}, live |-> TRUE]
MarkPlaces == {{<<"r2", "a">>}, {<<"r2", "a", "x">>}, {<<"r2">>}, {<<"r1", "b">>}}
Marked ==
  {NoMarks, [NoMarks EXCEPT !.active = "r1"], [NoMarks EXCEPT !.active = "r2"], [NoMarks EXCEPT !.live = FALSE]}
  \cup {[NoMarks EXCEPT !.pinned = p] : p \in MarkPlaces} \cup {[NoMarks EXCEPT !.reviewed = p] : p \in MarkPlaces}
  \cup {[NoMarks EXCEPT !.rollback = p] : p \in MarkPlaces} \cup {[NoMarks EXCEPT !.ledgers = p] : p \in MarkPlaces}
  \cup {[NoMarks EXCEPT !.backups = p] : p \in MarkPlaces}
Protecting ==
  \E entries \in {s \in SUBSET StaleEntries : /\ Cardinality(s) \in 1 .. 2
                                             /\ \A e, f \in s : e.at = f.at => e.named = f.named}, before, after \in Marked :
    AskPrune(entries, before, after)

\* Ids are primary keys of canonical tables; graphs of up to four vertices and two edges,
\* some of which lead to something that is no vertex.
EdgeEnds == [id : {1}, from : 1 .. 4, to : 1 .. 4]
Building ==
  \/ \E input \in Texts([id : 1 .. 3], 3) : AskBuild("lexical", input, << >>, FALSE)
  \/ \E input \in Texts([id : 1 .. 2, vector : {0, 2, 3}, dims : {0, 2, 3}], 2) : AskBuild("vector", input, << >>, FALSE)
  \/ \E input \in {[k \in 1 .. n |-> [id |-> k]] : n \in 0 .. 4} \cup {<<[id |-> 1], [id |-> 1]>>},
        edges \in Texts(EdgeEnds, 2), age, same \in BOOLEAN :
       AskBuild("graph", input, [k \in DOMAIN edges |-> [edges[k] EXCEPT !.id = IF same THEN 1 ELSE k]], age)

\* Up to two artifacts, however their names are written, and up to two changes.
ArtifactName(path, plain, ok) == [path |-> path, plain |-> plain, ok |-> ok]
ArtifactNames ==
  {ArtifactName(<<"a">>, TRUE, TRUE), ArtifactName(<<"a">>, FALSE, TRUE), ArtifactName(<<"a", "b">>, TRUE, TRUE),
   ArtifactName(<<"..", "x">>, TRUE, FALSE), ArtifactName(ManifestPath, TRUE, TRUE), ArtifactName(ScoresPath, TRUE, TRUE),
   ArtifactName(Append(ScoresPath, "x"), TRUE, TRUE)}
Artifacts == [name : ArtifactNames, content : {FileBody("one", {}), FileBody("two", {})}]
Tampering(path, what, put) == [path |-> path, what |-> what, put |-> put]
TamperPaths == {<<"a">>, <<"a", "b">>, <<"x">>, <<"d", "x">>, ManifestPath, ScoresPath}
OtherManifest == {[name |-> ArtifactName(ScoresPath, TRUE, TRUE), content |-> FileBody("scores", {})]}
Changes ==
  {Tampering(p, "put", n) : p \in TamperPaths, n \in {FileOf(FileBody("one", {})), FileOf(FileBody("two", {})), Folder, Link}}
  \cup {Tampering(p, "gone", Folder) : p \in TamperPaths}
  \cup {Tampering(ManifestPath, "put", FileOf(FileBody(form, OtherManifest))) : form \in {"canonical", "loose"}}
Bundling ==
  \/ \E artifacts \in Texts(Artifacts, 2), changes \in Texts(Changes, 1) : AskVerify(artifacts, changes)
  \/ \E artifacts \in {t \in Texts({a \in Artifacts : a.content.form = "one"}, 1) : t = << >> \/ t[1].name.ok}, changes \in Texts(Changes, 2) :
       AskVerify(artifacts, changes)

\* Three pairs twice, two pairs three times.
Orders(n) == {o \in [1 .. n -> 1 .. n] : \A p \in 1 .. n : \E k \in 1 .. n : o[k] = p}
Answering == {[error |-> FALSE, what |-> <<"h1">>, stage |-> "phrase", elapsed |-> 1], [error |-> FALSE, what |-> <<"h2">>, stage |-> "terms", elapsed |-> 2],
              [error |-> TRUE, what |-> "syntax", stage |-> "none", elapsed |-> 3]}
Querying ==
  \E n \in {2, 3} : \E orders \in [1 .. 5 - n -> Orders(n)], answers \in [1 .. 5 - n -> [1 .. n -> Answering]] :
    (n = 3 => orders[1] = <<1, 2, 3>>) /\ AskQueries(n, orders, answers)

PartsInit ==
  /\ focus \in Asked /\ call = Ready /\ TransformsInit /\ SourceInit /\ ExtractInit /\ SchemaInit /\ BundleInit
  /\ ChainInit /\ RootsInit /\ StoreInit
Asks ==
  \/ focus = "updates" /\ Updates
  \/ focus = "graphs" /\ Graphs
  \/ focus = "cuts" /\ Cuts
  \/ focus = "views" /\ Views
  \/ focus = "chunks" /\ Blocks
  \/ focus = "groups" /\ Groups
  \/ focus = "archive" /\ Archive
  \/ focus = "forecasts" /\ Forecasted
  \/ focus = "quality" /\ Datasets
  \/ focus = "contracts" /\ Contracts
  \/ focus = "ontology" /\ (Ontologies \/ DomainBatches)
  \/ focus = "verdicts" /\ Decisions
  \/ focus = "readiness" /\ \E requested \in {r \in SUBSET (DOMAIN ProfileServices \cup {"pipeline"}) : Cardinality(r) <= 2}, d \in Hosts :
       AskReadinessOf(requested, d)
  \/ focus = "search" /\ Searches
  \/ focus = "scores" /\ Rankings
  \/ focus = "placement" /\ Placing
  \/ focus = "answers" /\ \E answer \in Answers : AskStructured(answer)
  \/ focus = "citations" /\ Citing
  \/ focus = "plan" /\ Planned
  \/ focus = "archives" /\ Packed
  \/ focus = "catalog" /\ Catalogued
  \/ focus = "gate" /\ Gated
  \/ focus = "protect" /\ Protecting
  \/ focus = "builds" /\ Building
  \/ focus = "bundles" /\ Bundling
  \/ focus = "queries" /\ Querying
  \/ focus = "routes" /\ \E kind \in Kinds, made \in [Lanes -> Makes] : AskRoute(kind, made)
Parts ==
  \/ call = Ready /\ Asks /\ UNCHANGED machines
  \/ call.op \notin {"transform", "inventory", "extract", "schema", "bundle", "chain", "roots", "tables"} /\ Return /\ UNCHANGED machines
  \/ focus = "transform" /\ TransformsNext /\ UNCHANGED <<source, extract, schemas, evaluations, corpus, roots, store>>
  \/ focus = "inventory" /\ SourceNext /\ UNCHANGED <<transforms, extract, schemas, evaluations, corpus, roots, store>>
  \/ focus = "extract" /\ ExtractNext /\ UNCHANGED <<transforms, source, schemas, evaluations, corpus, roots, store>>
  \/ focus = "schema" /\ SchemaNext /\ UNCHANGED <<transforms, source, extract, evaluations, corpus, roots, store>>
  \/ focus = "bundle" /\ BundleNext /\ UNCHANGED <<transforms, source, extract, schemas, corpus, roots, store>>
  \/ focus = "chain" /\ ChainNext /\ UNCHANGED <<transforms, source, extract, schemas, evaluations, roots, store>>
  \/ focus = "roots" /\ RootsNext(Sites, Requests, Reports, Links)
     /\ UNCHANGED <<transforms, source, extract, schemas, evaluations, corpus, store>>
  \/ focus = "tables" /\ TablesNext(Snapshots, Batches)
     /\ UNCHANGED <<transforms, source, extract, schemas, evaluations, corpus, roots>>
PartsNext == Parts /\ UNCHANGED focus
PartsSpec == PartsInit /\ [][PartsNext]_all

\* Stages are ordered with what each needs before it; a range is what lies
\* between its ends; a resumed plan keeps the inputs of every stage, and one cut
\* by --from loses only those that lie beside the cut (that it loses any is
\* FromExcusesNothing).  A plan of the project can be worked off as it is told.
PlansHold ==
  /\ OrderIsStable
  /\ RangeIsBetween
  /\ ResumeKeepsInputs
  /\ CutLosesStrangers
  /\ PlanIsWorkable
  /\ CyclesAreReal
  /\ LinesStayInField

\* Whatever changes, fails or dies while sources are scanned, unpacked and
\* extracted: each is accounted for once, nothing that was read is lost, and
\* what was published is whole.
SourcesHold ==
  /\ PublishedIsFrozen
  /\ FailuresAreRetried
  /\ ExpansionIsBounded
  /\ EveryEntryIsTold
  /\ TextIsKept
  /\ SealedIsWhole
  /\ EveryItemAccounted

\* Over every history of accepted changes the contracts fit each other, old
\* data stay valid, and the revisions of the store lead to what the contracts
\* say.
ContractsHold ==
  /\ RelationsHold
  /\ BindingsAreOwned
  /\ NothingLeftOver
  /\ StrictestBump
  /\ SameMajorReads
  /\ AssertionsSurvive
  /\ CyclesAreTold
  /\ DistinctionsKept
  /\ RevisionsLeadToContracts
  /\ StampMeansSchema

\* From the query to the verdict: pages, scores, repetitions and files say the
\* same of a ranking, and the declared rules decide, whoever is the better
\* one.
RetrievalHolds ==
  /\ PagesJoin
  /\ LiteralIsKept
  /\ CodesMeet
  /\ CoverageIsExact
  /\ ScoresAgree
  /\ RulesDecide
  /\ OnlyOneWins
  /\ RowsSpeakForTheirPair
  /\ FingerprintIsWhole
=============================================================================
