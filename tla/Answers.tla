------------------------------- MODULE Answers ------------------------------
(***************************************************************************)
(* Answers and what they rest on (query/evidence,                          *)
(* inference/policy/schema): the places of a source after files were       *)
(* moved, the citations that lead there, and the answers that a model      *)
(* gives in JSON.                                                          *)
(***************************************************************************)
EXTENDS Calls, Integers, FiniteSets, SequencesExt, TLC

-----------------------------------------------------------------------------
(***************************************************************************)
(* Where the sources of documents are (query/evidence).  Whoever moves     *)
(* files writes down events; ledgers of events are imported, in pieces and *)
(* more than once; the events are laid over the occurrences that a scan    *)
(* has sealed, and a citation is followed to every place of its document.  *)
(***************************************************************************)

-----------------------------------------------------------------------------
(* import_ledger: what is written is `merged', the counts are reported.    *)

NoImport(stored) == [merged |-> stored, seen |-> {}, inserted |-> 0, skipped |-> 0, refused |-> 0]

ImportEvent(report, e) ==
  LET current == {k \in DOMAIN report.merged : report.merged[k].id = e.id}
      read == [report EXCEPT !.seen = @ \cup {e}]
  IN  IF \E s \in report.seen : s.id = e.id /\ s # e THEN [report EXCEPT !.refused = @ + 1]
      ELSE IF current = {} THEN [read EXCEPT !.merged = Append(@, e), !.inserted = @ + 1]
      ELSE IF \E k \in current : report.merged[k] # e THEN [read EXCEPT !.refused = @ + 1]
      ELSE [read EXCEPT !.skipped = @ + 1]

ImportLedger(stored, incoming) == FoldLeft(ImportEvent, NoImport(stored), incoming)

-----------------------------------------------------------------------------
(* overlay_events.  An occurrence is known by its id, lies at a path in a  *)
(* silo, or is a member of a container there, and has a content.           *)

\* Mutant: events take their turn by id.
ById(e, f) == e.id < f.id

EventOrder(e, f) == e.time < f.time \/ (e.time = f.time /\ e.id < f.id)

RenameMatches(track, event) ==
  IF event.previous = "none" THEN event.kind = "import"
  ELSE event.previous \in {track.current, track.original, track.occurrence.path}

ApplyEvent(track, event) ==
  IF \/ event.silo # track.occurrence.silo
     \/ event.occurrence \notin {"none", track.occurrence.id}
  THEN track
  ELSE IF event.kind = "initial"
  THEN [track EXCEPT !.original = event.path, !.current = event.path]
  ELSE IF event.kind \in {"rename", "import"} /\ RenameMatches(track, event)
  THEN [track EXCEPT !.current = event.path]
  ELSE IF event.kind = "copy" /\ event.path \notin track.copies \cup {track.current}
  THEN [track EXCEPT !.copies = @ \cup {event.path}]
  ELSE track

Track(occurrence) ==
  [occurrence |-> occurrence, original |-> occurrence.path, current |-> occurrence.path, copies |-> {}]

Overlay(occurrences, events, document) ==
  LET ordered == SortSeq(SelectSeq(events, LAMBDA e : e.document = document), EventOrder)
  IN  [k \in DOMAIN occurrences |-> FoldLeft(ApplyEvent, Track(occurrences[k]), ordered)]

-----------------------------------------------------------------------------
(* resolve_citation, with what is at each path under the roots of silos:   *)
(* whether the path is a link, where it leads in the end, what is there.   *)

Entries == [link : BOOLEAN, inside : BOOLEAN, what : {"nothing", "directory", "h1", "h2"}]

LeadsOut(entry) == ~entry.inside /\ (entry.link \/ entry.what # "nothing")

LocationStatus(given, entry, expected) ==
  CASE ~given -> "unchecked"
    [] given /\ LeadsOut(entry) -> "escaped"
    [] given /\ ~LeadsOut(entry) /\ entry.what \in {"nothing", "directory"} -> "missing"
    [] OTHER -> IF entry.what = expected THEN "matching" ELSE "changed"

\* occurrence_physical_path: a member is where its container is, if it has one.
PhysicalPath(track, path, role) ==
  LET occurrence == track.occurrence
  IN  IF role = "copy" \/ ~occurrence.member THEN path
      ELSE IF occurrence.container # "none" THEN occurrence.container ELSE occurrence.path

LocationOf(track, path, role, world) ==
  LET silo == track.occurrence.silo
      physical == PhysicalPath(track, path, role)
  IN  [silo |-> silo, original |-> track.original, path |-> path, physical |-> physical, role |-> role,
       occurrence |-> track.occurrence.id,
       status |-> LocationStatus(silo \in world.roots, world.disk[silo][physical], track.occurrence.content)]

ExpandTrack(track, world) ==
  {LocationOf(track, track.current, "source", world)}
  \cup {LocationOf(track, path, "copy", world) : path \in track.copies}

\* _select_citation: content is asked for by its document, a fact or a report
\* by the id of a citation or by its own.
CitationsOf(catalog, token, kind) ==
  SelectSeq(catalog.citations,
            LAMBDA c : c.kind = kind /\ token \in IF kind = "content" THEN {c.document} ELSE {c.id, c.about})
SelectCitation(catalog, token, kind) ==
  LET found == CitationsOf(catalog, token, kind)
  IN  IF kind = "content" THEN [error |-> FALSE, document |-> token, several |-> FALSE]
      ELSE IF found = << >> THEN [error |-> TRUE]
      ELSE [error |-> FALSE, document |-> found[1].document,
            several |-> Cardinality({c.document : c \in ToSet(found)}) > 1]

\* _colliding_currents: two files, not members, at one place.
Colliding(tracks) ==
  \E i, j \in DOMAIN tracks :
    /\ i # j /\ tracks[i].current = tracks[j].current
    /\ tracks[i].occurrence.silo = tracks[j].occurrence.silo
    /\ \A k \in {i, j} : ~tracks[k].occurrence.member

ResolveCitation(catalog, token, kind, world) ==
  LET chosen == SelectCitation(catalog, token, kind)
      content == catalog.documents[chosen.document]
      own == SelectSeq(catalog.occurrences, LAMBDA o : o.content = content)
      tracks == Overlay(own, catalog.events, chosen.document)
  IN  IF chosen.error THEN [error |-> TRUE]
      ELSE IF chosen.document \notin DOMAIN catalog.documents
      THEN [error |-> FALSE, known |-> FALSE, document |-> chosen.document, locations |-> {}, ambiguous |-> chosen.several]
      ELSE [error |-> FALSE, known |-> TRUE, document |-> chosen.document,
            locations |-> UNION {ExpandTrack(t, world) : t \in ToSet(tracks)},
            ambiguous |-> chosen.several \/ Colliding(tracks)]

AskResolve(catalog, token, kind, world) ==
  Ask([op |-> "resolve", catalog |-> catalog, token |-> token, kind |-> kind, world |-> world,
       answer |-> ResolveCitation(catalog, token, kind, world)])

-----------------------------------------------------------------------------
(* Moves of two copies of one document, and the events they leave: named   *)
(* or not by the occurrence that moves.                                    *)

NoMoves(occurrences) ==
  [at |-> [id \in {o.id : o \in ToSet(occurrences)} |-> (CHOOSE o \in ToSet(occurrences) : o.id = id).path],
   used |-> {o.path : o \in ToSet(occurrences)},
   copies |-> [id \in {o.id : o \in ToSet(occurrences)} |-> {}], events |-> << >>]

Moves(world, paths) ==
  LET taken == {world.at[o] : o \in DOMAIN world.at} \cup UNION {world.copies[o] : o \in DOMAIN world.at}
  IN  [of : DOMAIN world.at, kind : {"rename", "copy"}, to : paths \ taken]

\* The ids are not in the order of the moves.
Moved(world, move, named) ==
  LET n == Len(world.events) + 1
      event == [id |-> 10 - n, time |-> n, document |-> "d", silo |-> "s", kind |-> move.kind,
                occurrence |-> IF named THEN move.of ELSE "none",
                previous |-> world.at[move.of], path |-> move.to]
  IN  [at |-> IF move.kind = "rename" THEN [world.at EXCEPT ![move.of] = move.to] ELSE world.at,
       used |-> world.used \cup {move.to},
       copies |-> IF move.kind = "copy" THEN [world.copies EXCEPT ![move.of] = @ \cup {move.to}]
                  ELSE world.copies,
       events |-> Append(world.events, event)]

\* A first ledger of the events from k on, one of them all, and one with an
\* event that has the id of another.
AskLocate(occurrences, world, k, named) ==
  LET events == world.events
      first == ImportLedger(<< >>, SubSeq(events, k, Len(events)))
      second == ImportLedger(first.merged, events)
      forged == ImportLedger(second.merged, <<[events[k] EXCEPT !.path = "elsewhere"], events[k]>>)
  IN  Ask([op |-> "locate", world |-> world, named |-> named, first |-> first, second |-> second,
           forged |-> forged, tracks |-> Overlay(occurrences, forged.merged, "d")])

-----------------------------------------------------------------------------
(* Rows of the path-event contract.  A cell of the JSON object is absent,  *)
(* null, blank, nested, or holds a text: one with a null byte, one that    *)
(* leads out of the silo, a kind of event, or any other word.              *)

Required == {"event_id", "document_id", "silo_id", "kind", "relative_path", "content_hash", "event_time",
             "generation_id", "contract_version"}
OptionalColumns == {"occurrence_id", "previous_relative_path", "ledger_id"}
\* The declared partition key, which the contract has no property of.
PartitionKeys == {"bucket"}
Columns == Required \cup OptionalColumns \cup PartitionKeys

\* _column_text of a cell that is not nested.
CellText(raw, column) ==
  IF column \notin DOMAIN raw \/ raw[column] \in {"null", "blank"} THEN "" ELSE raw[column]

EventKinds == {"initial", "rename", "copy", "import"}
IsToken(text) == text \notin {"", "nul"}
IsRelative(text) == text \notin {"", "nul", "outside"}
ValidEvent(values) ==
  LET text(c) == IF c \in DOMAIN values THEN values[c] ELSE ""
  IN  /\ text("kind") \in EventKinds
      /\ \A c \in {"event_id", "document_id", "silo_id", "content_hash"} : IsToken(text(c))
      /\ IsRelative(text("relative_path"))
      /\ text("previous_relative_path") # "" => IsRelative(text("previous_relative_path"))
      /\ text("occurrence_id") # "" => IsToken(text("occurrence_id"))

RowError == [error |-> TRUE]
ParseRow(raw) ==
  LET values == [c \in {d \in Columns : CellText(raw, d) # ""} |-> raw[c]]
  IN  IF \/ ~(DOMAIN raw \subseteq Columns)
         \/ \E c \in DOMAIN raw : raw[c] = "nested"
         \/ ~(Required \subseteq DOMAIN values)
         \/ ~ValidEvent(values)
      THEN RowError ELSE [error |-> FALSE, values |-> values]
SerializeRow(row) == row.values

AskRow(raw) == Ask([op |-> "row", raw |-> raw, row |-> ParseRow(raw)])

-----------------------------------------------------------------------------
(* However the ledgers come in, the document is found where its files      *)
(* went, and the copies where they were made, if the events name what they *)
(* move or no path is taken a second time; what was imported already is    *)
(* skipped, and an event that takes the id of another is refused.          *)
LocateFollows ==
  call.op = "locate" =>
    LET w == call.world
        n == Len(w.events)
        fresh == Cardinality(w.used) = Cardinality(DOMAIN w.at) + n
    IN  /\ \A t \in ToSet(call.tracks) :
             /\ call.named \/ fresh => t.current = w.at[t.occurrence.id]
             /\ call.named => t.copies = w.copies[t.occurrence.id]
        /\ call.first.inserted + call.second.inserted = n /\ call.second.skipped = call.first.inserted
        /\ call.forged.merged = call.second.merged /\ call.forged.refused = 2

(* A row that is taken has every field that the contract requires, none    *)
(* that it does not know, and reads the same after it is written: a ledger *)
(* that was merged is not refused when it is read again.                   *)
RowsRoundTrip ==
  call.op = "row" /\ ~call.row.error =>
    /\ Required \subseteq DOMAIN call.row.values
    /\ \A c \in DOMAIN call.raw : call.raw[c] \notin {"null", "blank"} => c \in DOMAIN call.row.values
    /\ ParseRow(SerializeRow(call.row)) = call.row

(* What locate says of a place is so: it matches if and only if a file is  *)
(* there that has the recorded content, nothing that lies outside a silo   *)
(* is read, and no occurrence of the document is passed over; no event of  *)
(* one silo or document moves a file of another.                           *)
PlacesAreTrue ==
  call.op = "resolve" /\ ~call.answer.error =>
    LET world == call.world
        places == call.answer.locations
        content == call.catalog.documents[call.answer.document]
        events == ToSet(call.catalog.events)
    IN  /\ \A l \in places :
             LET entry == world.disk[l.silo][l.physical]
                 there == l.silo \in world.roots /\ entry.inside /\ entry.what \in {"h1", "h2"}
             IN  /\ (l.status = "matching") = (there /\ entry.what = content)
                 /\ (l.status = "changed") = (there /\ entry.what # content)
                 /\ l.status = "escaped" => ~entry.inside
        /\ call.answer.known =>
             \A o \in ToSet(call.catalog.occurrences) :
               o.content = content =>
                 \E l \in places :
                   /\ l.occurrence = o.id /\ l.role = "source"
                   /\ (\A e \in events : e.silo # o.silo \/ e.document # call.answer.document) => l.path = o.path
        /\ ~call.answer.ambiguous =>
             \A c \in ToSet(CitationsOf(call.catalog, call.token, call.kind)) : c.document = call.answer.document

-----------------------------------------------------------------------------
(***************************************************************************)
(* The answers that a model gives in JSON (inference/policy/schema.py and  *)
(* client/completion.py): the subset of JSON Schema that they are checked  *)
(* against, the two schemas, and the status of an answer.  A value has a   *)
(* kind, as JSON has it, and what it holds; an integer is told from a      *)
(* number with a fraction.                                                 *)
(***************************************************************************)

Value(kind, of) == [kind |-> kind, of |-> of]
Object(members) == Value("object", members)
Array(items) == Value("array", items)
String(text) == Value("string", text)
Integer(n) == Value("integer", n)
Bool(b) == Value("boolean", b)
Same(v, w) == v.kind = w.kind /\ v.of = w.of

\* Keywords that a schema may have.
Keyword(schema, name, default) == IF name \in DOMAIN schema THEN schema[name] ELSE default

Text == [type |-> "string", minLength |-> 1]
Position == [type |-> "integer", minimum |-> 0]
Closed(properties) ==
  [type |-> "object", additional |-> FALSE, required |-> DOMAIN properties, properties |-> properties]
CitedSpan ==
  Closed([value |-> Text,
          evidence |-> [type |-> "array", minItems |-> 1,
                        items |-> Closed([quote |-> Text, start |-> Position, end |-> Position])]])
Refusal == Closed([status |-> [const |-> String("refused")], reason |-> Text])

TypeMatches(type, value) ==
  \/ type \notin {"object", "array", "string", "integer", "number", "boolean", "null"}
  \/ value.kind = type
  \/ type = "number" /\ value.kind = "integer"

\* _matches_const_enum.
MatchesConstEnum(schema, value) ==
  /\ "const" \in DOMAIN schema => Same(value, schema.const)
  /\ "enum" \in DOMAIN schema => \E v \in schema.enum : Same(value, v)

\* _validate_bounds.
Bounds(schema, value, path) ==
  LET type == Keyword(schema, "type", "any")
  IN  IF \/ type = "string" /\ value.kind = "string" /\ Len(value.of) < Keyword(schema, "minLength", 0)
         \/ type \in {"integer", "number"} /\ value.kind \in {"integer", "number"}
            /\ value.of < Keyword(schema, "minimum", value.of)
      THEN {path} ELSE {}

\* _validate: the paths with errors.  A wrong constant or type ends it.
RECURSIVE Errors(_, _, _)
ObjectErrors(schema, value, path) ==
  IF value.kind # "object" THEN {}
  ELSE LET properties == Keyword(schema, "properties", << >>)
           here == DOMAIN value.of
       IN  {Append(path, name) : name \in Keyword(schema, "required", {}) \ here}
           \cup UNION {Errors(properties[name], value.of[name], Append(path, name)) : name \in here \cap DOMAIN properties}
           \cup (IF Keyword(schema, "additional", TRUE) THEN {} ELSE {Append(path, name) : name \in here \ DOMAIN properties})
ArrayErrors(schema, value, path) ==
  IF value.kind # "array" THEN {}
  ELSE (IF Len(value.of) < Keyword(schema, "minItems", 0) THEN {path} ELSE {})
       \cup (IF "items" \in DOMAIN schema
             THEN UNION {Errors(schema.items, value.of[i], Append(path, ToString(i))) : i \in DOMAIN value.of} ELSE {})
Errors(schema, value, path) ==
  LET type == Keyword(schema, "type", "any")
  IN  IF ~MatchesConstEnum(schema, value) THEN {path}
      ELSE IF "type" \in DOMAIN schema /\ ~TypeMatches(type, value) THEN {path}
      ELSE (IF type = "object" \/ {"properties", "required"} \cap DOMAIN schema # {}
            THEN ObjectErrors(schema, value, path) ELSE {})
           \cup (IF type = "array" \/ "items" \in DOMAIN schema THEN ArrayErrors(schema, value, path) ELSE {})
           \cup Bounds(schema, value, path)

\* validate_instance, is_refusal_payload.
ValidateInstance(schema, value) == Errors(schema, value, << >>)
IsRefusal(value) == ValidateInstance(Refusal, value) = {}

\* validate_structured: of a text that is no JSON, of a refusal, of an answer.
ValidateStructured(schema, answer) ==
  IF answer.kind = "text" THEN [status |-> "malformed", errors |-> {<< >>}]
  ELSE IF IsRefusal(answer) THEN [status |-> "refused", errors |-> {}]
  ELSE LET errors == ValidateInstance(schema, answer)
       IN  [status |-> IF errors = {} THEN "ok" ELSE "malformed", errors |-> errors]

AskStructured(answer) ==
  Ask([op |-> "structured", answer |-> answer, result |-> ValidateStructured(CitedSpan, answer)])

-----------------------------------------------------------------------------
(* An answer is taken if and only if its reader can use it: a value that   *)
(* is not empty, and at least one citation, each of a quote and of two     *)
(* positions that are whole numbers from zero on, and nothing besides.  A  *)
(* refusal is one only with a reason, and never an answer too; whatever is *)
(* not taken says where it is wrong, for the repair to be asked for.       *)
Says(value, name) == /\ name \in DOMAIN value.of /\ value.of[name].kind = "string" /\ value.of[name].of # ""
Counts(value, name) == /\ name \in DOMAIN value.of /\ value.of[name].kind = "integer" /\ value.of[name].of >= 0
Usable(answer) ==
  /\ answer.kind = "object" /\ DOMAIN answer.of = {"value", "evidence"}
  /\ Says(answer, "value")
  /\ answer.of["evidence"].kind = "array" /\ answer.of["evidence"].of # << >>
  /\ \A i \in DOMAIN answer.of["evidence"].of :
       LET span == answer.of["evidence"].of[i]
       IN  /\ span.kind = "object" /\ DOMAIN span.of = {"quote", "start", "end"}
           /\ Says(span, "quote") /\ Counts(span, "start") /\ Counts(span, "end")
TakenIfUsable ==
  call.op = "structured" =>
    /\ (call.result.status = "ok") = Usable(call.answer)
    /\ (call.result.status = "refused") =
         (/\ call.answer.kind = "object" /\ DOMAIN call.answer.of = {"status", "reason"}
          /\ Same(call.answer.of["status"], String("refused")) /\ Says(call.answer, "reason"))
    /\ (call.result.status = "malformed") = (call.result.errors # {})

\* An answer leads to sources where they are now, cites rows as they were
\* written, and is taken only if it can be used.
AnswersHold ==
  /\ LocateFollows
  /\ RowsRoundTrip
  /\ PlacesAreTrue
  /\ TakenIfUsable
=============================================================================
