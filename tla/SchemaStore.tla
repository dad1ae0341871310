---------------------------- MODULE SchemaStore ----------------------------
(***************************************************************************)
(* Schema revisions (contracts/migrations) and the database they are for   *)
(* (stores/postgres): the contracts change, a revision is generated from   *)
(* what they changed since the frozen head state, checked against its      *)
(* manifest, applied and taken back by Alembic, and an existing database   *)
(* is adopted.  The commands follow one another, and any of them may die   *)
(* between two of its writes.  One table stands for all: the operations on *)
(* different tables are independent but for the order of their creation.   *)
(***************************************************************************)
EXTENDS Calls, Integers, FiniteSets

CONSTANTS
  MaxRevisions,    \* bound: revisions generated
  MaxChanges,      \* bound: changes of the contracts
  MaxSlips         \* bound: files changed or lost after review, commands that die

Column == {"a", "b"}
\* What a column is: 0 is absent, the others are types, nullability, comment.
Schemas == [a : 0 .. 2, b : 0 .. 1]
Empty == [a |-> 0, b |-> 0]
Revisions == 1 .. MaxRevisions
Missing == [parent |-> -1]
Fail == [failed |-> TRUE]

VARIABLES
  contracts,       \* the schema the contracts describe
  files,           \* versions/: revision -> its parent, operations and reverse
  manifest,        \* revision_manifest.json: revision -> the file reviewed
  headState,       \* head_state.json: the schema and revision it names
  db,              \* the database: legacy tables, owned tables, stamped revision
  schemaCall,      \* what generate_revision or adopt_database has yet to write
  history          \* edits and slips; whether a command used a repository the
                   \* check refuses (loose) or died before the head state (torn)

schemas == <<contracts, files, manifest, headState, db, schemaCall, history>>
NoSchemaCall == [at |-> "idle"]

SchemaInit ==
  /\ contracts = Empty /\ files = [r \in Revisions |-> Missing]
  /\ manifest = files /\ headState = [schema |-> Empty, revision |-> 0]
  /\ db = [public |-> Empty, owned |-> Empty, stamp |-> 0]
  /\ schemaCall = NoSchemaCall
  /\ history = [edits |-> 0, slips |-> 0, loose |-> FALSE, torn |-> FALSE]

-----------------------------------------------------------------------------
(* Operations: the columns they set, to what.                              *)
Op(kind, columns, after) == [kind |-> kind, columns |-> columns, to |-> after]
Change(old, new) == IF old = 0 THEN "add_column" ELSE IF new = 0 THEN "drop_column" ELSE "alter_column"
DiffStates(before, after) ==
  IF before = after THEN {}
  ELSE IF before = Empty THEN {Op("create_table", Column, after)}
  ELSE IF after = Empty THEN {Op("drop_table", Column, after)}
  ELSE {Op(Change(before[c], after[c]), {c}, after) : c \in {c \in Column : before[c] # after[c]}}

\* What PostgreSQL refuses: a table or column that exists, or does not.
Fits(op, s) ==
  CASE op.kind = "create_table" -> s = Empty
    [] op.kind = "drop_table"   -> s # Empty
    [] op.kind = "add_column"   -> s # Empty /\ \A c \in op.columns : s[c] = 0
    [] OTHER                    -> \A c \in op.columns : s[c] # 0
Result(ops, s) ==
  IF \E op \in ops : ~Fits(op, s) THEN Fail
  ELSE [c \in Column |-> IF \E op \in ops : c \in op.columns
                         THEN (CHOOSE op \in ops : c \in op.columns).to[c] ELSE s[c]]

\* downgrade_lines: the reverse of every operation; a revision with a lossy
\* one refuses.
Lossy(op) == op.kind \in {"drop_table", "drop_column"}
Undo(op, before) ==
  Op(CASE op.kind = "create_table" -> "drop_table" [] op.kind = "add_column" -> "drop_column"
       [] OTHER -> "alter_column", op.columns, before)

-----------------------------------------------------------------------------
(* Generation: the file, the manifest, the head state.                     *)
Listed == {r \in Revisions : manifest[r] # Missing}
Heads(revisions) ==
  {r \in DOMAIN revisions : revisions[r] # Missing} \ {revisions[r].parent : r \in DOMAIN revisions}
\* head_revision: the one head of the manifest, 0 for none.
HeadRevision == IF Listed = {} THEN 0 ELSE CHOOSE r \in Heads(manifest) : TRUE
NextRevision == 1 + Cardinality(Listed)

SchemaFree == call = Ready \/ (call.op = "schema" /\ schemaCall = NoSchemaCall)
SchemaStep == SchemaFree /\ call' = [op |-> "schema"]
Slip == history.slips < MaxSlips /\ history' = [history EXCEPT !.slips = @ + 1]

\* A database with legacy tables is taken up before anything else is done.
Inherit ==
  /\ call = Ready /\ call' = [op |-> "schema"]
  /\ db' = [db EXCEPT !.public = [a |-> 1, b |-> 1]]
  /\ UNCHANGED <<contracts, files, manifest, headState, schemaCall, history>>

EditContracts ==
  /\ SchemaStep /\ history.edits < MaxChanges
  /\ \E s \in Schemas \ {contracts} : contracts' = s
  /\ history' = [history EXCEPT !.edits = @ + 1]
  /\ UNCHANGED <<files, manifest, headState, db, schemaCall>>

\* generate_revision: with no operations it writes nothing.
GenerateFile ==
  /\ SchemaStep /\ NextRevision \in Revisions
  /\ LET before == headState.schema
         ops == DiffStates(before, contracts)
     IN  /\ ops # {}
         /\ files' = [files EXCEPT ![NextRevision] =
              [parent |-> HeadRevision, ops |-> ops,
               lossy |-> \E op \in ops : Lossy(op), back |-> {Undo(op, before) : op \in ops}]]
  /\ schemaCall' = [at |-> "manifest", revision |-> NextRevision]
  /\ UNCHANGED <<contracts, manifest, headState, db, history>>
GenerateManifest ==
  /\ schemaCall.at = "manifest"
  /\ manifest' = [manifest EXCEPT ![schemaCall.revision] = files[schemaCall.revision]]
  /\ schemaCall' = [schemaCall EXCEPT !.at = "head"]
  /\ UNCHANGED <<call, contracts, files, headState, db, history>>
GenerateHead ==
  /\ schemaCall.at = "head"
  /\ headState' = [schema |-> contracts, revision |-> schemaCall.revision]
  /\ schemaCall' = NoSchemaCall
  /\ UNCHANGED <<call, contracts, files, manifest, db, history>>

\* Somebody changes or removes a file that was reviewed.
SlipFile ==
  /\ SchemaStep /\ Slip
  /\ \E r \in Revisions :
       /\ files[r] # Missing
       /\ \/ files' = [files EXCEPT ![r] = Missing]
          \/ \E op \in files[r].ops : files' = [files EXCEPT ![r].ops = @ \ {op}]
  /\ UNCHANGED <<contracts, manifest, headState, db, schemaCall>>

\* check_migrations.
ManifestFindings == \E r \in Revisions : files[r] # manifest[r]
GraphFindings ==
  \/ \E r \in Revisions : files[r] # Missing /\ files[r].parent # 0 /\ files[files[r].parent] = Missing
  \/ Cardinality(Heads(files)) > 1
HeadStateFindings == headState.revision # HeadRevision
CheckPasses ==
  /\ ~ManifestFindings /\ ~GraphFindings /\ ~HeadStateFindings
  /\ DiffStates(headState.schema, contracts) = {}

-----------------------------------------------------------------------------
(* The database.  One transaction holds a whole upgrade or downgrade.      *)
Upgraded(s, from, to) ==
  LET at[r \in from .. to] == IF r = from THEN s
                              ELSE IF files[r] = Missing \/ at[r - 1] = Fail THEN Fail
                              ELSE Result(files[r].ops, at[r - 1])
  IN  at[to]

\* Alembic goes by the files that are there.
AlembicHead == IF Heads(files) = {} THEN 0 ELSE CHOOSE r \in Heads(files) : TRUE
Loose == history.loose \/ ManifestFindings

\* upgrade to head; what fails changes nothing.
Upgrade ==
  /\ SchemaStep /\ ~GraphFindings /\ AlembicHead > db.stamp
  /\ LET s == Upgraded(db.owned, db.stamp, AlembicHead)
     IN  s # Fail /\ db' = [db EXCEPT !.owned = s, !.stamp = AlembicHead]
  /\ history' = [history EXCEPT !.loose = Loose]
  /\ UNCHANGED <<contracts, files, manifest, headState, schemaCall>>

\* downgrade by one; a revision that lost data refuses.
Downgrade ==
  /\ SchemaStep /\ ~GraphFindings /\ db.stamp > 0 /\ files[db.stamp] # Missing
  /\ ~files[db.stamp].lossy /\ Result(files[db.stamp].back, db.owned) # Fail
  /\ db' = [db EXCEPT !.owned = Result(files[db.stamp].back, @), !.stamp = files[db.stamp].parent]
  /\ history' = [history EXCEPT !.loose = Loose]
  /\ UNCHANGED <<contracts, files, manifest, headState, schemaCall>>

\* adopt_database: in one transaction the legacy tables are moved and what is
\* there is compared with the contracts and with the initial revision; then
\* another command stamps.
Relocated == IF db.public = Empty THEN db.owned ELSE db.public
Adoptable ==
  /\ db.public = Empty \/ db.owned = Empty
  /\ Relocated = contracts
  /\ files[1] # Missing /\ Relocated = Result(files[1].ops, Empty)
  /\ db.stamp \in {0, 1}
Adopt ==
  /\ SchemaStep /\ Adoptable
  /\ db' = [db EXCEPT !.public = Empty, !.owned = Relocated]
  /\ schemaCall' = IF db.stamp = 1 THEN NoSchemaCall ELSE [at |-> "stamp"]
  /\ history' = [history EXCEPT !.loose = Loose]
  /\ UNCHANGED <<contracts, files, manifest, headState>>
Stamp ==
  /\ schemaCall.at = "stamp"
  /\ db' = [db EXCEPT !.stamp = 1] /\ schemaCall' = NoSchemaCall
  /\ UNCHANGED <<call, contracts, files, manifest, headState, history>>

\* A command dies between two of its writes.
SchemaDies ==
  /\ schemaCall # NoSchemaCall
  /\ history.slips < MaxSlips
  /\ history' = [history EXCEPT !.slips = @ + 1, !.torn = @ \/ schemaCall.at = "head"]
  /\ schemaCall' = NoSchemaCall
  /\ UNCHANGED <<call, contracts, files, manifest, headState, db>>

SchemaNext ==
  \/ Inherit \/ EditContracts \/ GenerateFile \/ GenerateManifest \/ GenerateHead
  \/ SlipFile \/ Upgrade \/ Downgrade \/ Adopt \/ Stamp \/ SchemaDies
-----------------------------------------------------------------------------
\* While the offline check passes, the revisions lead from an empty database
\* to what the contracts describe, whatever was edited, lost or interrupted
\* on the way (except a generation that died before the head state).
RevisionsLeadToContracts ==
  CheckPasses /\ ~history.torn => Upgraded(Empty, 0, HeadRevision) = contracts

\* A database stamped at a revision has the tables that the reviewed
\* revisions up to it create, however it came to the stamp: upgraded,
\* downgraded, or adopted with the legacy tables it had (no torn generation).
StampMeansSchema ==
  db.stamp > 0 /\ ~history.loose /\ ~history.torn /\ ~ManifestFindings =>
    db.owned = Upgraded(Empty, 0, db.stamp)
=============================================================================
