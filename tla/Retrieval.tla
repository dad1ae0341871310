----------------------------- MODULE Retrieval ------------------------------
(***************************************************************************)
(* Retrieval and its evaluation (retrieval/).  Lexical search: the         *)
(* variants of a query that a profile plans, the stages that are tried in  *)
(* turn, and the pages of the answer; what a query is written like is the  *)
(* variants it has, what is indexed is the chunks that each kind of        *)
(* variant matches.  The comparison of two rankings: the queries that are  *)
(* repeated, the scores of a ranking, and the decision over all pairs.     *)
(***************************************************************************)
EXTENDS Calls, Integers, FiniteSets, SequencesExt, Combinatorics

CONSTANT MaxQueryVariants

\* A query that uses no syntax, in which nothing can be replaced.
PlainQuery == [syntax |-> FALSE, alias |-> <<>>, glyph |-> <<>>, stem |-> <<>>,
          layout |-> <<>>, translit |-> <<>>, words |-> {"base"}]
Base == [kind |-> "base", n |-> 1]
Variants(query, kind) == [n \in DOMAIN query[kind] |-> [kind |-> kind, n |-> query[kind][n]]]

\* The switches of a QueryProfile; the base of every declared profile is normalized.
Literal == [rules |-> {}, fallback |-> FALSE, fuzzy |-> FALSE, guard |-> FALSE]
SafeV1 == [Literal EXCEPT !.rules = {"alias", "glyph", "layout", "translit"}]
GuardedV2 ==
  [rules |-> {"alias", "glyph", "stem", "layout", "translit"}, fallback |-> TRUE, fuzzy |-> TRUE, guard |-> TRUE]
QueryProfiles ==
  {Literal, SafeV1, GuardedV2}
  \cup {[Literal EXCEPT !.rules = {r}] : r \in SafeV1.rules}
  \cup {[GuardedV2 EXCEPT !.rules = @ \ {r}] : r \in {"alias", "glyph", "stem"}}
  \cup {[GuardedV2 EXCEPT !.fallback = FALSE], [GuardedV2 EXCEPT !.fuzzy = FALSE], [GuardedV2 EXCEPT !.guard = FALSE]}

\* _bounded: every value once, where it comes first, and no more than the bound.
Once(values) == FoldLeft(LAMBDA kept, v : IF Contains(kept, v) THEN kept ELSE Append(kept, v), <<>>, values)
BoundedVariants(values) ==
  LET all == Once(values) IN SubSeq(all, 1, IF Len(all) < MaxQueryVariants THEN Len(all) ELSE MaxQueryVariants)

\* query_plan; the words of a variant that are long enough are searched fuzzily.
QueryPlan(query, profile) ==
  LET of(kind) == IF kind \in profile.rules THEN Variants(query, kind) ELSE <<>>
      mechanical == of("layout") \o of("translit")
      primary == <<Base>> \o of("alias") \o of("glyph") \o of("stem")
      bounded == BoundedVariants(IF profile.fallback THEN primary ELSE primary \o mechanical)
      later == IF profile.fallback THEN BoundedVariants(mechanical) ELSE <<>>
      long == SelectSeq(bounded, LAMBDA v : v.kind \in query.words)
  IN  IF profile.guard /\ query.syntax
      THEN [primary |-> <<Base>>, fallback |-> <<>>, fuzzy |-> <<>>]
      ELSE [primary |-> bounded, fuzzy |-> IF profile.fuzzy THEN long ELSE <<>>,
            fallback |-> SelectSeq(later, LAMBDA v : ~Contains(bounded, v))]

-----------------------------------------------------------------------------
(* The index of the active projection: the chunks in which a kind of       *)
(* variant is found, word for word and fuzzily.                            *)

SearchStage(name, variants) == [name |-> name, variants |-> variants]
StagesOf(plan) ==
  <<SearchStage("primary", plan.primary)>>
  \o (IF plan.fallback # <<>> THEN <<SearchStage("fallback", Once(plan.primary \o plan.fallback))>> ELSE <<>>)
  \o (IF plan.fuzzy # <<>> THEN <<SearchStage("fuzzy", plan.fuzzy)>> ELSE <<>>)

\* match_query and fuzzy_query: any variant, and the filter.
Finds(index, stage, chunk) ==
  {v \in ToSet(stage.variants) :
     chunk \in (IF stage.name = "fuzzy" THEN index.fuzzy ELSE index.words)[v.kind]}
Matched(index, stage, filter) ==
  {c \in index.chunks : Finds(index, stage, c) # {} /\ (filter = "any" \/ index.language[c] = filter)}
\* Score first, then the chunk's name.
Ranked(index, stage, filter) ==
  LET score(c) == Cardinality(Finds(index, stage, c))
  IN  SetToSortSeq(Matched(index, stage, filter), LAMBDA a, b : score(a) > score(b) \/ (score(a) = score(b) /\ a < b))
PageOf(ranking, limit, offset) ==
  SubSeq(ranking, offset + 1, IF offset + limit < Len(ranking) THEN offset + limit ELSE Len(ranking))

\* _total: a first page that is not full is all there is.
TotalOf(ranking, page, limit, offset) ==
  IF offset = 0 /\ Len(page) < limit THEN Len(page) ELSE Len(ranking)

\* search: the stages in turn until one matches something; the facets of the
\* last one that was tried.
Search(index, plan, request, offset) ==
  LET stages == StagesOf(plan)
      ranking(k) == Ranked(index, stages[k], request.filter)
      page(k) == PageOf(ranking(k), request.limit, offset)
      total(k) == TotalOf(ranking(k), page(k), request.limit, offset)
      matching == {k \in DOMAIN stages : total(k) > 0}
      last == IF matching = {} THEN Len(stages) ELSE CHOOSE k \in matching : \A j \in matching : k <= j
  IN  [hits |-> page(last), total |-> total(last), stage |-> stages[last].name,
       facets |-> [l \in {"ru", "en"} |->
                     Cardinality({c \in Matched(index, stages[last], request.filter) : index.language[c] = l})]]

\* All the pages of a query, one request after the other, to the first empty one.
Offsets(index, limit) == {k * limit : k \in 0 .. Cardinality(index.chunks)}
Pages(index, plan, request) ==
  [offset \in Offsets(index, request.limit) |-> Search(index, plan, request, offset)]

AskSearch(query, profile, index, request) ==
  LET plan == QueryPlan(query, profile)
  IN  Ask([op |-> "search", query |-> query, profile |-> profile, index |-> index, request |-> request,
           plan |-> plan, pages |-> Pages(index, plan, request)])

-----------------------------------------------------------------------------
(* homoglyph_tokens, on one token.  "L" and "C" are a Latin and a Cyrillic *)
(* capital that look alike, "l" and "c" small ones, "D" and "J" capitals,  *)
(* "d" and "j" small ones of each that look like nothing else, "1" a digit.*)

Latin == {"L", "l", "D", "d"}
Cyrillic == {"C", "c", "J", "j"}
Capital == {"L", "D", "C", "J"}
ToCyrillic(char) == CASE char = "L" -> "C" [] char = "l" -> "c" [] OTHER -> char
ToLatin(char) == CASE char = "C" -> "L" [] char = "c" -> "l" [] OTHER -> char
Translate(token, Into(_)) == [k \in DOMAIN token |-> Into(token[k])]

LettersOf(token) == ToSet(token) \ {"1"}
Count(token, script) == Cardinality({k \in DOMAIN token : token[k] \in script})
IsCode(token) == "1" \in ToSet(token) /\ LettersOf(token) # {} /\ LettersOf(token) \subseteq Capital
CrossCode(token) ==
  IF LettersOf(token) = {"L"} THEN Translate(token, ToCyrillic)
  ELSE IF LettersOf(token) = {"C"} THEN Translate(token, ToLatin) ELSE token
RepairToken(token) ==
  LET cyrillic == Count(token, Cyrillic)
      latin == Count(token, Latin)
  IN  IF cyrillic > 0 /\ latin > 0
      THEN IF cyrillic >= latin THEN Translate(token, ToCyrillic) ELSE Translate(token, ToLatin)
      ELSE IF IsCode(token) THEN CrossCode(token) ELSE token

AskRepair(token) == Ask([op |-> "repair", token |-> token, repaired |-> RepairToken(token)])

-----------------------------------------------------------------------------
(* However a query is paged, its pages are one ranking: every page is of   *)
(* the same stage with the same total, together they hold each chunk that  *)
(* this stage finds once, and no earlier stage would have found anything.  *)
PagesJoin ==
  call.op = "search" =>
    LET first == call.pages[0]
        offsets == SetToSortSeq(DOMAIN call.pages, LAMBDA a, b : a < b)
        joined == FlattenSeq([k \in DOMAIN offsets |-> call.pages[offsets[k]].hits])
        stages == StagesOf(call.plan)
        all(s) == Matched(call.index, s, call.request.filter)
        used == CHOOSE s \in ToSet(stages) : s.name = first.stage
    IN  /\ \A o \in DOMAIN call.pages : [call.pages[o] EXCEPT !.hits = <<>>] = [first EXCEPT !.hits = <<>>]
        /\ IsInjective(joined) /\ ToSet(joined) = all(used) /\ first.total = Cardinality(all(used))
        /\ first.facets["ru"] + first.facets["en"] = first.total
        /\ \A k \in DOMAIN stages : stages[k] # used => (all(stages[k]) = {} \/ IndexFirstSubSeq(<<used>>, stages) < k)

(* Normalizing a query never loses what it finds as it was typed: whatever *)
(* the literal profile finds, every profile finds.                         *)
LiteralIsKept ==
  call.op = "search" =>
    LET literal == Matched(call.index, SearchStage("primary", QueryPlan(call.query, Literal).primary), call.request.filter)
        found == UNION {ToSet(call.pages[o].hits) : o \in DOMAIN call.pages}
    IN  literal \subseteq found

(* A code of letters that look alike is found in whichever script it was   *)
(* stored and typed, or of one script if it was typed in both; words that  *)
(* are written in one script are left alone.                               *)
CodesMeet ==
  call.op = "repair" =>
    LET token == call.token
        alike == LettersOf(token) \subseteq {"L", "C"} /\ "1" \in ToSet(token) /\ LettersOf(token) # {}
        searched == {token, call.repaired}
    IN  /\ alike /\ Cardinality(LettersOf(token)) = 1 =>
             searched = {Translate(token, ToLatin), Translate(token, ToCyrillic)}
        /\ alike => searched \cap {Translate(token, ToLatin), Translate(token, ToCyrillic)} # {}
        /\ "1" \notin ToSet(token) /\ (Count(token, Latin) = 0 \/ Count(token, Cyrillic) = 0) =>
             call.repaired = token

-----------------------------------------------------------------------------
(***************************************************************************)
(* The queries of an evaluation (retrieval/second_opinion/database): every *)
(* pair of an arm and a case is asked several times, each time all pairs   *)
(* in another order, and one row per pair is kept.  An order is a          *)
(* permutation of the pairs; what the database answers, and when it        *)
(* refuses a query, is given.                                              *)
(***************************************************************************)

\* _observe: a refused query is rolled back to its savepoint and the next one
\* goes on; what it took does not count.
Observe(answer) ==
  IF answer.error THEN [hits |-> << >>, stage |-> "error", error |-> answer.what, elapsed |-> 0]
  ELSE [hits |-> answer.what, stage |-> answer.stage, error |-> "", elapsed |-> answer.elapsed]

TurnOf(order, position) == CHOOSE turn \in DOMAIN order : order[turn] = position
ObservedOf(orders, answers, position) ==
  [repetition \in DOMAIN orders |-> Observe(answers[repetition][TurnOf(orders[repetition], position)])]

\* _case_run.
Answer(observation) == <<observation.hits, observation.stage, observation.error>>
CaseRunOf(observed) ==
  [hits |-> observed[1].hits, stage |-> observed[1].stage, error |-> observed[1].error,
   latencies |-> LET counted == SelectSeq(observed, LAMBDA o : o.error = "")
                 IN  [k \in DOMAIN counted |-> counted[k].elapsed],
   stable |-> \A k \in DOMAIN observed : Answer(observed[k]) = Answer(observed[1])]
RunQueries(pairs, orders, answers) == [p \in 1 .. pairs |-> CaseRunOf(ObservedOf(orders, answers, p))]

AskQueries(pairs, orders, answers) ==
  Ask([op |-> "queries", pairs |-> pairs, orders |-> orders, answers |-> answers,
       runs |-> RunQueries(pairs, orders, answers)])

-----------------------------------------------------------------------------
(* A row speaks for every time its pair was asked and for no other: it is  *)
(* called stable if, and only if, all of those were answered as it says,   *)
(* and it has the time of each that was answered, and of no refusal.       *)
RowsSpeakForTheirPair ==
  call.op = "queries" =>
    \A p \in 1 .. call.pairs :
      LET asked == {<<r, t>> \in (DOMAIN call.orders) \X (1 .. call.pairs) : call.orders[r][t] = p}
          answer(a) == call.answers[a[1]][a[2]]
          row == call.runs[p]
          told(a) == IF answer(a).error THEN row.error = answer(a).what
                     ELSE row.error = "" /\ row.hits = answer(a).what /\ row.stage = answer(a).stage
      IN  /\ Cardinality(asked) = Len(call.orders)
          /\ row.stable <=> \A a \in asked : told(a)
          /\ \E a \in asked : told(a)
          /\ Len(row.latencies) = Cardinality({a \in asked : ~answer(a).error})
          /\ \A n \in ToSet(row.latencies) : \E a \in asked : ~answer(a).error /\ answer(a).elapsed = n

-----------------------------------------------------------------------------
(***************************************************************************)
(* How a ranking is scored: by the source spans it covers                  *)
(* (retrieval/metrics.py) and by the chunks it names (second_opinion/      *)
(* scoring.py).  Ratios are kept as what is counted.                       *)
(***************************************************************************)

Span(document, start, end) == [document |-> document, start |-> start, end |-> end]
\* A retrieved chunk is where it was kept, and the places it stands for.
Locations(chunk) == {chunk.at} \cup chunk.occurrences
SpansOverlap(a, b) == a.document = b.document /\ a.start < b.end /\ b.start < a.end
HitsSpan(chunk, span) == \E l \in Locations(chunk) : SpansOverlap(l, span)

Top(sequence, k) == SubSeq(sequence, 1, IF k < Len(sequence) THEN k ELSE Len(sequence))
\* first_hit_rank, 0 if there is none.
FirstHit(chunks, spans) ==
  LET hits == {r \in DOMAIN chunks : \E s \in spans : HitsSpan(chunks[r], s)}
  IN  IF hits = {} THEN 0 ELSE CHOOSE r \in hits : \A q \in hits : r <= q

Larger(a, b) == IF a > b THEN a ELSE b
Smaller(a, b) == IF a < b THEN a ELSE b
\* _overlap_ranges: every location of every chunk, sorted.
OverlapRanges(chunks, span) ==
  LET cut(l) == [start |-> Larger(l.start, span.start), end |-> Smaller(l.end, span.end)]
      all == {<<r, l>> \in UNION {{r} \X Locations(chunks[r]) : r \in DOMAIN chunks} : SpansOverlap(l, span)}
  IN  SetToSortSeq(all, LAMBDA a, b : LET x == cut(a[2])
                                          y == cut(b[2])
                                      IN  x.start < y.start \/ (x.start = y.start /\ x.end < y.end))

\* _union_length: each range from where those before it reached.
UnionLength(sorted, span) ==
  FoldLeft(LAMBDA acc, p :
             LET end == Smaller(p[2].end, span.end)
                 lower == Larger(Larger(p[2].start, span.start), acc.reach)
             IN  [total |-> acc.total + (IF end > lower THEN end - lower ELSE 0),
                  reach |-> Larger(acc.reach, end)],
           [total |-> 0, reach |-> 0], sorted).total
Covered(chunks, span) == UnionLength(OverlapRanges(chunks, span), span)
IsIntact(chunks, span) ==
  /\ span.start < span.end
  /\ \E r \in DOMAIN chunks : \E l \in Locations(chunks[r]) :
       l.document = span.document /\ l.start <= span.start /\ span.end <= l.end

\* _case_metrics.
CaseMetrics(chunks, spans, k) ==
  [recalled |-> FirstHit(Top(chunks, k), spans) # 0, rank |-> FirstHit(chunks, spans),
   covered |-> [s \in spans |-> Covered(Top(chunks, k), s)],
   intact |-> {s \in spans : IsIntact(Top(chunks, k), s)}]

AskMetrics(chunks, spans, k) ==
  Ask([op |-> "metrics", chunks |-> chunks, spans |-> spans, k |-> k, reading |-> CaseMetrics(chunks, spans, k)])

-----------------------------------------------------------------------------
(* score_case.  The names of the judged chunks are those of their spans;   *)
(* "filler" was not judged and is where no judged chunk is.                *)

\* 100 / log2(rank + 1).
Gain(rank) == CASE rank = 1 -> 100 [] rank = 2 -> 63 [] OTHER -> 50
GainOf(ranks) == FoldLeft(LAMBDA sum, r : sum + Gain(r), 0, SetToSeq(ranks))
Ndcg(ranked, relevant, k) ==
  IF relevant = {} THEN [gain |-> IF ranked = <<>> THEN 1 ELSE 0, ideal |-> 1]
  ELSE [gain |-> GainOf({r \in DOMAIN ranked : r <= k /\ ranked[r] \in relevant}),
        ideal |-> GainOf(1 .. Smaller(Cardinality(relevant), k))]

\* The chunk of that name, as it was split from its document.
ChunkAt(spans, name) == [at |-> spans[name], occurrences |-> {}]
IntactOf(judged, spans, ranked, k) ==
  LET known == SelectSeq(ranked, LAMBDA name : name \in DOMAIN spans)
      retrieved == [r \in DOMAIN known |-> ChunkAt(spans, known[r])]
  IN  {name \in judged.relevant : IsIntact(Top(retrieved, k), spans[name])}

FoundIn(hits, judged, k) == {c \in ToSet(Top(hits, k)) : c \in judged.relevant}
ScoreCase(judged, spans, hits, error, kQuality, kPrecision) ==
  LET quality == Top(hits, kQuality)
      precision == Top(hits, kPrecision)
  IN  [ndcg |-> Ndcg(quality, judged.relevant, kQuality),
       recalled |-> judged.relevant \cap ToSet(quality),
       rank |-> LET ranks == {r \in DOMAIN hits : hits[r] \in judged.relevant}
                IN  IF ranks = {} THEN 0 ELSE CHOOSE r \in ranks : \A q \in ranks : r <= q,
       found |-> Cardinality(FoundIn(hits, judged, kPrecision)), served |-> Len(precision),
       intact |-> IntactOf(judged, spans, quality, kQuality),
       falsePositive |-> judged.relevant = {} /\ precision # <<>>,
       forbidden |-> Cardinality(ToSet(hits) \cap judged.forbidden),
       unjudged |-> Cardinality(ToSet(precision) \ (judged.relevant \cup judged.hard \cup judged.forbidden)),
       hard |-> Cardinality(ToSet(precision) \cap judged.hard),
       exact |-> ToSet(hits) = judged.relevant /\ ~error]

AskScore(judged, spans, hits, error, kQuality, kPrecision) ==
  Ask([op |-> "score", judged |-> judged, spans |-> spans, hits |-> hits, k |-> kQuality,
       score |-> ScoreCase(judged, spans, hits, error, kQuality, kPrecision)])

-----------------------------------------------------------------------------
(* The readings of a ranking agree: a character is covered once however    *)
(* many chunks hold it, a span that is intact is covered whole, and one of *)
(* the first k chunks hits if and only if a character is covered.          *)
CoverageIsExact ==
  call.op = "metrics" =>
    LET m == call.reading
        characters(span) == {i \in span.start .. span.end - 1 :
             \E r \in 1 .. Smaller(call.k, Len(call.chunks)) : \E l \in Locations(call.chunks[r]) :
               l.document = span.document /\ l.start <= i /\ i < l.end}
    IN  /\ \A s \in call.spans : m.covered[s] = Cardinality(characters(s))
        /\ \A s \in m.intact : m.covered[s] = s.end - s.start
        /\ m.recalled <=> \E s \in call.spans : m.covered[s] > 0
        /\ m.recalled <=> m.rank \in 1 .. call.k

(* Judged by chunks and by spans a ranking is as good: every relevant      *)
(* chunk that is recalled is intact, only a perfect ranking has the ideal  *)
(* gain, what is served is relevant, a hard negative, forbidden or         *)
(* unjudged, and an exact answer has no fault in any other reading.        *)
ScoresAgree ==
  call.op = "score" =>
    LET s == call.score
        j == call.judged
        first == {r \in DOMAIN call.hits : call.hits[r] \in j.relevant}
    IN  /\ s.recalled \subseteq s.intact
        /\ j.relevant # {} =>
             (s.ndcg.gain = s.ndcg.ideal <=> 1 .. Smaller(Cardinality(j.relevant), call.k) \subseteq first)
        /\ s.served = s.found + s.hard + s.unjudged
                      + Cardinality({r \in 1 .. s.served : call.hits[r] \in j.forbidden})
        /\ s.exact => s.found = s.served /\ s.forbidden = 0 /\ s.hard = 0 /\ ~s.falsePositive
                      /\ s.ndcg.gain = s.ndcg.ideal

-----------------------------------------------------------------------------
(***************************************************************************)
(* The decision of the lexical second opinion (retrieval/second_opinion/   *)
(* decision.py) over paired comparisons (evaluation/scoring/paired.py): is *)
(* the candidate adopted, the baseline retained, or neither.               *)
(***************************************************************************)

CONSTANTS
  MinDecidedPairs,  \* decided pairs an improvement needs
  P95Max,           \* latency_p95_ms_max
  P95IncreaseMax    \* latency_p95_increase_ms_max; the ratio is two

\* The primary seed is one of the sensitivity seeds (protocol._validate).
Seeds == {"primary", "other"}

-----------------------------------------------------------------------------
(* An endpoint: pairs won and lost, and the interval of the mean           *)
(* difference that each seed draws, in units of the margin.                *)

\* _sign_test_p > alpha, for a confidence of 95%: twice the tail of a fair
\* coin over the decided pairs is above one in twenty.
Undecided(wins, losses) ==
  LET decided == wins + losses
      extreme == IF wins < losses THEN wins ELSE losses
      tail[i \in 0 .. extreme] == choose(decided, i) + IF i = 0 THEN 0 ELSE tail[i - 1]
  IN  40 * tail[extreme] > 2 ^ decided

\* paired_verdict
PairedVerdict(endpoint, seed) ==
  CASE Undecided(endpoint.wins, endpoint.losses) -> "inconclusive"
    [] ~Undecided(endpoint.wins, endpoint.losses) /\ endpoint.low[seed] > 0 -> "adopt"
    [] ~Undecided(endpoint.wins, endpoint.losses) /\ endpoint.high[seed] < 0 -> "retain baseline"
    [] OTHER -> "inconclusive"

Decided(endpoint) == endpoint.wins + endpoint.losses
NonInferior(endpoint, seed) == endpoint.low[seed] >= -1

-----------------------------------------------------------------------------
(* gates: the mandatory ones, of the candidate.                            *)
LatencyGate(p95) ==
  /\ p95.candidate <= P95Max
  /\ p95.candidate <= 2 * p95.baseline \/ p95.candidate - p95.baseline <= P95IncreaseMax
Gates(r) ==
  [identifier_exactness |-> r.inexact = 0, latency_p95 |-> LatencyGate(r.p95),
   no_answer_false_positives |-> r.answered.candidate - r.answered.baseline <= 0,
   syntax_forbidden_hits |-> r.forbidden <= 0,
   \* a syntax case counts when the candidate fails it and the baseline does not
   syntax_new_errors |-> Cardinality(r.errors.candidate \ r.errors.baseline) <= 0]

\* verdict_for: the endpoint that improved is looked for in order.
VerdictFor(quality, precision, seed, gates) ==
  LET improves(a, b) == PairedVerdict(a, seed) = "adopt" /\ NonInferior(b, seed)
      enough(a) == IF Decided(a) >= MinDecidedPairs THEN "adopt" ELSE "inconclusive"
  IN  CASE \E g \in DOMAIN gates : ~gates[g] -> "retain baseline"
        [] (\A g \in DOMAIN gates : gates[g])
             /\ \E e \in {quality, precision} : PairedVerdict(e, seed) = "retain baseline" -> "retain baseline"
        [] OTHER -> IF improves(quality, precision) THEN enough(quality)
                    ELSE IF improves(precision, quality) THEN enough(precision)
                    ELSE "inconclusive"

\* decide: the verdict of the primary seed, unless seeds or repetitions differ.
PrimaryVerdict(r) == VerdictFor(r.quality, r.precision, "primary", Gates(r))
DecideOnce(r) ==
  IF r.unstable \cap {"candidate", "baseline"} # {} THEN "inconclusive" ELSE PrimaryVerdict(r)
Decide(r) ==
  IF \/ \E s \in Seeds : VerdictFor(r.quality, r.precision, s, Gates(r)) # PrimaryVerdict(r)
     \/ r.unstable \cap {"candidate", "baseline"} # {}
  THEN "inconclusive" ELSE PrimaryVerdict(r)

AskVerdict(r) == Ask([op |-> "verdict", readings |-> r, verdict |-> Decide(r)])

-----------------------------------------------------------------------------
(* What the protocol preregisters, seed by seed.                           *)
PassesGates(r) ==
  /\ r.inexact = 0 /\ r.forbidden = 0 /\ r.errors.candidate \subseteq r.errors.baseline
  /\ r.answered.candidate <= r.answered.baseline
  /\ r.p95.candidate <= P95Max
  /\ r.p95.candidate > P95IncreaseMax + r.p95.baseline => r.p95.candidate <= 2 * r.p95.baseline
Worse(r, s) == \E e \in {r.quality, r.precision} : PairedVerdict(e, s) = "retain baseline"
Better(a, b, s) == PairedVerdict(a, s) = "adopt" /\ Decided(a) >= MinDecidedPairs /\ b.low[s] + 1 >= 0

(* The decision follows the rules the protocol preregisters: a candidate   *)
(* is adopted only if it passes every gate and under every seed nothing    *)
(* regressed and one endpoint improved on enough pairs while the other is  *)
(* not inferior, with hits that no repetition changed; and it is adopted   *)
(* if all that holds and no endpoint improved on too few pairs.  The       *)
(* baseline is retained for a failed gate or for a regression that every   *)
(* seed sees.                                                              *)
RulesDecide ==
  call.op = "verdict" =>
    LET r == call.readings
        steady == r.unstable \subseteq {"third"}
        improved(s) == Better(r.quality, r.precision, s) \/ Better(r.precision, r.quality, s)
        sparse(s) == PairedVerdict(r.quality, s) = "adopt" /\ Decided(r.quality) < MinDecidedPairs
        earned == steady /\ PassesGates(r) /\ \A s \in Seeds : ~Worse(r, s) /\ improved(s)
        refused == steady /\ (~PassesGates(r) \/ \A s \in Seeds : Worse(r, s))
    IN  /\ call.verdict = "adopt" => earned
        /\ (earned /\ \A s \in Seeds : ~sparse(s)) => call.verdict = "adopt"
        /\ (call.verdict = "retain baseline") <=> refused

(* Two arms never beat each other: where one is adopted over the other,    *)
(* the comparison the other way round does not adopt the other.            *)
Reversed(e) == [wins |-> e.losses, losses |-> e.wins,
                low |-> [s \in Seeds |-> -e.high[s]], high |-> [s \in Seeds |-> -e.low[s]]]
OnlyOneWins ==
  call.op = "verdict" =>
    LET r == call.readings
        back == [r EXCEPT !.quality = Reversed(@), !.precision = Reversed(@),
                          !.p95 = [candidate |-> @.baseline, baseline |-> @.candidate]]
    IN  ~(call.verdict = "adopt" /\ Decide(back) = "adopt")
=============================================================================
