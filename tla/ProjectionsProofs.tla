------------------------- MODULE ProjectionsProofs -------------------------
(***************************************************************************)
(* Proofs about Projections, for any number of tools, versions and ids,    *)
(* and of commands and faults: what the catalog names as active is there   *)
(* and whole, the pointers of a build switch together, and what a load     *)
(* verifies is its own snapshot.  They are about the options that the      *)
(* commands of the repository can ask for: no build cleans up as well.     *)
(***************************************************************************)
EXTENDS Projections, TLAPS

\* projections-build has no option --apply and load-lexical leaves it FALSE.
NeverCleans == \A o \in Options : ~o.cleans

Labels == {"idle", "store", "begin", "inputs", "kinds", "age", "drop", "verify", "target", "summary"}
Builds == {"inputs", "kinds", "age"}
Owns == Builds \cup {"drop"}
Loads == {"store", "begin", "verify", "target", "summary"}

Job == [what : {"none", "build", "cleanup", "load"}, version : Versions \cup {Nil},
        kinds : SUBSET Kinds, activate : BOOLEAN, dbt : BOOLEAN, aged : BOOLEAN, cleans : BOOLEAN,
        todo : SUBSET Kinds, sound : BOOLEAN, plan : SUBSET Target, activated : BOOLEAN, ok : BOOLEAN]
Txn == [by : Tools, view : Catalog]

\* What a tool is at, what it is doing and the transaction fit together.
JobFits(p) ==
  /\ place[p] \in Builds \cup Loads => task[p].version \in Versions
  /\ place[p] \in Loads => task[p].what = "load"
  /\ place[p] \in Builds => task[p].what \in {"build", "load"} /\ task[p].todo \subseteq task[p].kinds
  /\ place[p] \in {"store", "begin", "inputs"} => task[p].todo = task[p].kinds
  /\ place[p] = "age" => "graph" \in task[p].todo
  /\ place[p] = "drop" => task[p].todo = {}
  /\ task[p].what = "load" => task[p].kinds = {"lexical"} /\ task[p].dbt /\ task[p].version \in Versions
  /\ ~task[p].cleans
OwnerInside(p) == Mine(p) <=> place[p] \in Owns

FormsOK ==
  /\ CatalogTypeOK
  /\ txn = NoTxn \/ txn \in Txn
  /\ place \in [Tools -> Labels] /\ task \in [Tools -> Job]
  /\ \A p \in Tools : JobFits(p) /\ OwnerInside(p)

-----------------------------------------------------------------------------
\* A version of a kind that stands, as a catalog has it: its table holds the
\* rows of its checksum, and an AGE graph that it counts on is whole.
Stands(c, k, v) ==
  /\ c.table[<<k, v>>] # Nil
  /\ c.table[<<k, v>>] = c.row[<<k, v>>].checksum
  /\ c.row[<<k, v>>].aged => k = "graph" /\ age[v] = "whole"
ActiveStand(c) == \A k \in Kinds : c.active[k] # Nil => Stands(c, k, c.active[k])
RowsMatch(c) == \A t \in Target : c.row[t].status = "active" <=> c.active[t[1]] = t[2]
SoundIn(c) == ActiveStand(c) /\ RowsMatch(c)
StoresSound == SoundIn(catalog) /\ (txn # NoTxn => SoundIn(txn.view))

\* A build works on versions that are active in neither catalog, loads its AGE
\* graph from an input that was made, and may switch to what it has found sound.
BuildApart(p) ==
  place[p] \in Builds =>
    /\ txn.view.active = catalog.active
    /\ \A k \in task[p].kinds : catalog.active[k] # task[p].version
GraphInput(p) == place[p] = "age" => derived[<<"graph", task[p].version>>] # Nil
BuiltStands(p) ==
  place[p] \in Builds /\ task[p].sound =>
    \A k \in task[p].kinds \ task[p].todo : Stands(txn.view, k, task[p].version)
\* A clean-up drops what is active neither before its commit nor after it.
DropApart(p) ==
  place[p] = "drop" =>
    \A t \in task[p].plan : catalog.active[t[1]] # t[2] /\ txn.view.active[t[1]] # t[2]
\* What its commit will show.
SwitchTold(p) ==
  place[p] = "drop" =>
    \/ txn.view.active = catalog.active
    \/ \A k \in task[p].kinds : txn.view.active[k] = task[p].version

\* The lock of a load: from its rows to its verification nothing replaces the
\* rows, so that every input of its version is made of them.
Fresh(p, set) == set \in {Nil, Snapshot(task[p].version)}
Text(p) == <<"lexical", task[p].version>>
LoadAlone(p) ==
  task[p].what = "load" =>
    /\ place[p] \notin {"idle", "summary"} => loading = p
    /\ place[p] \notin {"idle", "summary", "store"} => corpus["lexical"] = Snapshot(task[p].version)
    /\ place[p] \in {"kinds", "age", "drop", "verify"} => derived[Text(p)] = Snapshot(task[p].version)
    /\ place[p] \in {"kinds", "age", "drop"} /\ "lexical" \notin task[p].todo => Fresh(p, txn.view.table[Text(p)])
    /\ place[p] = "verify" =>
         /\ Fresh(p, catalog.table[Text(p)])
         /\ txn # NoTxn => Fresh(p, txn.view.table[Text(p)])

WorkSound(p) ==
  /\ BuildApart(p) /\ GraphInput(p) /\ BuiltStands(p)
  /\ DropApart(p) /\ SwitchTold(p)
  /\ LoadAlone(p)

IInv == FormsOK /\ StoresSound /\ \A p \in Tools : WorkSound(p)

-----------------------------------------------------------------------------
(***************************************************************************)
(* The catalog                                                             *)
(***************************************************************************)
\* A target is the pair of a kind and a version.
LEMMA Targets ==
  /\ \A t \in Target : t[1] \in Kinds /\ t[2] \in Versions /\ t = <<t[1], t[2]>>
  /\ \A k \in Kinds, v \in Versions : <<k, v>> \in Target /\ <<k, v>>[1] = k /\ <<k, v>>[2] = v
BY DEF Target

\* A catalog in which one row and one table are replaced.
With(c, t, set, r) == [c EXCEPT !.table[t] = set, !.row[t] = r]
Without(c, t) == [c EXCEPT !.table[t] = Nil, !.row[t].status = "dropped"]

\* Writing a version's table and row changes nothing else in a catalog.
LEMMA Replaced ==
  ASSUME NEW c \in Catalog, NEW t \in Target, NEW r \in Row, NEW set \in (SUBSET Ids) \cup {Nil},
         NEW s, s = With(c, t, set, r)
  PROVE  /\ s \in Catalog /\ s.active = c.active
         /\ s.table[t] = set /\ s.row[t] = r
         /\ \A u \in Target \ {t} : s.table[u] = c.table[u] /\ s.row[u] = c.row[u]
<1>1. s = [row |-> [c.row EXCEPT ![t] = r], active |-> c.active, table |-> [c.table EXCEPT ![t] = set]]
  BY DEF Catalog, With
<1>2. [c.row EXCEPT ![t] = r] \in [Target -> Row]
  BY DEF Catalog
<1>3. /\ [c.table EXCEPT ![t] = set] \in [Target -> (SUBSET Ids) \cup {Nil}]
      /\ c.active \in [Kinds -> Versions \cup {Nil}]
  BY DEF Catalog
<1>4. s \in Catalog
  BY <1>1, <1>2, <1>3 DEF Catalog
<1>5. s.active = c.active /\ s.row = [c.row EXCEPT ![t] = r] /\ s.table = [c.table EXCEPT ![t] = set]
  BY <1>1
<1> QED BY <1>4, <1>5 DEF Catalog

\* It is as sound as before if the version is not active in it.
LEMMA ReplacedSound ==
  ASSUME NEW c \in Catalog, NEW s \in Catalog, NEW t \in Target, c.active[t[1]] # t[2],
         s.active = c.active, s.row[t].status # "active",
         \A u \in Target \ {t} : s.table[u] = c.table[u] /\ s.row[u] = c.row[u],
         SoundIn(c)
  PROVE  SoundIn(s)
<1>1. ASSUME NEW k \in Kinds, s.active[k] # Nil PROVE Stands(s, k, s.active[k])
  <2>1. s.active[k] = c.active[k] /\ c.active[k] \in Versions /\ Stands(c, k, c.active[k])
    BY <1>1 DEF SoundIn, ActiveStand, Catalog
  <2>2. <<k, c.active[k]>> \in Target /\ <<k, c.active[k]>> # t
    BY <2>1, Targets
  <2> QED BY <2>1, <2>2 DEF Stands
<1>2. ASSUME NEW u \in Target PROVE s.row[u].status = "active" <=> s.active[u[1]] = u[2]
  <2>1. CASE u = t
    BY <2>1
  <2>2. CASE u # t
    BY <2>2 DEF SoundIn, RowsMatch
  <2> QED BY <2>1, <2>2
<1> QED BY <1>1, <1>2 DEF SoundIn, ActiveStand, RowsMatch

\* Staging a version that is not active leaves what is active as it was.
LEMMA StagedSound ==
  ASSUME NEW c \in Catalog, NEW t \in Target, NEW sound \in BOOLEAN, NEW aged \in BOOLEAN,
         derived \in [Target -> (SUBSET Ids) \cup {Nil}], c.active[t[1]] # t[2],
         NEW s, s = Staged(c, t, sound, aged)
  PROVE  /\ s \in Catalog /\ s.active = c.active
         /\ s.table[t] = derived[t] /\ s.row[t].checksum = derived[t] /\ s.row[t].aged = aged
         /\ \A u \in Target \ {t} : s.table[u] = c.table[u] /\ s.row[u] = c.row[u]
         /\ SoundIn(c) => SoundIn(s)
<1> DEFINE r == [status |-> IF sound THEN "validated" ELSE "failed", checksum |-> derived[t], aged |-> aged]
<1>1. r \in Row /\ r.status # "active"
  BY DEF Row
<1>2. s = With(c, t, derived[t], r)
  BY DEF Staged, With
<1> HIDE DEF r
<1>3. /\ s \in Catalog /\ s.active = c.active
      /\ s.table[t] = derived[t] /\ s.row[t] = r
      /\ \A u \in Target \ {t} : s.table[u] = c.table[u] /\ s.row[u] = c.row[u]
  <2>1. derived[t] \in (SUBSET Ids) \cup {Nil}
    OBVIOUS
  <2> QED BY <1>1, <1>2, <2>1, Replaced
<1>4. s.row[t].status # "active" /\ s.row[t].checksum = derived[t] /\ s.row[t].aged = aged
  BY <1>1, <1>3 DEF r
<1>5. SoundIn(c) => SoundIn(s)
  BY <1>3, <1>4, ReplacedSound
<1> QED BY <1>3, <1>4, <1>5

\* So does dropping one.
LEMMA DroppedSound ==
  ASSUME NEW c \in Catalog, NEW t \in Target, c.active[t[1]] # t[2],
         NEW s, s = Without(c, t)
  PROVE  /\ s \in Catalog /\ s.active = c.active
         /\ s.table[t] = Nil
         /\ \A u \in Target \ {t} : s.table[u] = c.table[u] /\ s.row[u] = c.row[u]
         /\ SoundIn(c) => SoundIn(s)
<1> DEFINE r == [c.row[t] EXCEPT !.status = "dropped"]
<1>1. c.row[t] \in Row
  BY DEF Catalog
<1>2. r \in Row /\ r.status # "active"
  BY <1>1 DEF Row
<1>3. s = With(c, t, Nil, r)
  BY DEF Without, With
<1> HIDE DEF r
<1>4. /\ s \in Catalog /\ s.active = c.active
      /\ s.table[t] = Nil /\ s.row[t] = r
      /\ \A u \in Target \ {t} : s.table[u] = c.table[u] /\ s.row[u] = c.row[u]
  <2>1. Nil \in (SUBSET Ids) \cup {Nil}
    OBVIOUS
  <2> QED BY <1>2, <1>3, <2>1, Replaced
<1>5. SoundIn(c) => SoundIn(s)
  <2>1. s.row[t].status # "active"
    BY <1>2, <1>4
  <2> QED BY <1>4, <2>1, ReplacedSound
<1> QED BY <1>4, <1>5

\* Switching to a version that stands keeps the catalog sound: the row of the
\* version before it is retired with its pointer.
LEMMA SwitchedSound ==
  ASSUME NEW c \in Catalog, NEW k \in Kinds, NEW v \in Versions, NEW s, s = SwitchOne(c, k, v)
  PROVE  /\ s \in Catalog
         /\ s.active = [c.active EXCEPT ![k] = v] /\ s.table = c.table
         /\ \A t \in Target : s.row[t].checksum = c.row[t].checksum /\ s.row[t].aged = c.row[t].aged
         /\ SoundIn(c) /\ Stands(c, k, v) => SoundIn(s)
<1> DEFINE old == c.active[k]
           o == <<k, old>>
           t == <<k, v>>
<1>1. t \in Target /\ t[1] = k /\ t[2] = v /\ old \in Versions \cup {Nil}
      /\ (old # Nil => o \in Target /\ o[1] = k /\ o[2] = old)
  BY Targets DEF Catalog
<1>2. PICK rows \in [Target -> Row] :
        /\ rows = IF old \in {Nil, v} THEN c.row ELSE [c.row EXCEPT ![o].status = "retired"]
        /\ \A u \in Target : rows[u].checksum = c.row[u].checksum /\ rows[u].aged = c.row[u].aged
        /\ \A u \in Target : u # o => rows[u].status = c.row[u].status
        /\ old \notin {Nil, v} => rows[o].status = "retired"
  <2>1. c.row \in [Target -> Row]
    BY DEF Catalog
  <2>2. CASE old \in {Nil, v}
    BY <2>1, <2>2
  <2>3. CASE old \notin {Nil, v}
    <3> DEFINE r == [c.row[o] EXCEPT !.status = "retired"]
    <3>1. o \in Target /\ c.row[o] \in Row
      BY <2>1, <2>3, <1>1
    <3>2. r \in Row /\ r.status = "retired" /\ r.checksum = c.row[o].checksum /\ r.aged = c.row[o].aged
      BY <3>1 DEF Row
    <3>3. [c.row EXCEPT ![o].status = "retired"] = [c.row EXCEPT ![o] = r]
      OBVIOUS
    <3> HIDE DEF r
    <3>4. [c.row EXCEPT ![o] = r] \in [Target -> Row]
      BY <2>1, <3>1, <3>2
    <3> QED BY <2>1, <2>3, <3>1, <3>2, <3>3, <3>4
  <2> QED BY <2>2, <2>3
<1> DEFINE r == [rows[t] EXCEPT !.status = "active"]
<1>3. r \in Row /\ r.status = "active" /\ r.checksum = c.row[t].checksum /\ r.aged = c.row[t].aged
  <2>1. rows[t] \in Row /\ rows[t].checksum = c.row[t].checksum /\ rows[t].aged = c.row[t].aged
    BY <1>1, <1>2
  <2> QED BY <2>1 DEF Row
<1>4. s = [row |-> [rows EXCEPT ![t] = r], active |-> [c.active EXCEPT ![k] = v], table |-> c.table]
  <2>1. s = [c EXCEPT !.active[k] = v, !.row = [rows EXCEPT ![t].status = "active"]]
    BY <1>2 DEF SwitchOne
  <2> QED BY <2>1 DEF Catalog
<1> HIDE DEF r
<1>5. /\ s \in Catalog /\ s.active = [c.active EXCEPT ![k] = v] /\ s.table = c.table
      /\ s.row = [rows EXCEPT ![t] = r]
  <2>1. [rows EXCEPT ![t] = r] \in [Target -> Row]
    BY <1>1, <1>2, <1>3
  <2>2. /\ [c.active EXCEPT ![k] = v] \in [Kinds -> Versions \cup {Nil}]
        /\ c.table \in [Target -> (SUBSET Ids) \cup {Nil}]
    BY DEF Catalog
  <2> QED BY <1>4, <2>1, <2>2 DEF Catalog
<1>6. s.row[t] = r /\ \A u \in Target \ {t} : s.row[u] = rows[u]
  BY <1>5, <1>1, <1>2
<1>7. ASSUME NEW u \in Target PROVE s.row[u].checksum = c.row[u].checksum /\ s.row[u].aged = c.row[u].aged
  <2>1. CASE u = t
    BY <2>1, <1>3, <1>6
  <2>2. CASE u # t
    BY <2>2, <1>2, <1>6
  <2> QED BY <2>1, <2>2
<1>8. ASSUME SoundIn(c), Stands(c, k, v) PROVE SoundIn(s)
  <2>1. ASSUME NEW j \in Kinds, s.active[j] # Nil PROVE Stands(s, j, s.active[j])
    <3>1. s.active[j] \in Versions /\ Stands(c, j, s.active[j])
      BY <1>5, <1>8, <2>1 DEF SoundIn, ActiveStand, Catalog
    <3>2. <<j, s.active[j]>> \in Target
      BY <3>1, Targets
    <3> QED BY <3>1, <3>2, <1>5, <1>7 DEF Stands
  <2>2. ASSUME NEW u \in Target PROVE s.row[u].status = "active" <=> s.active[u[1]] = u[2]
    <3>1. u[1] \in Kinds /\ u[2] \in Versions /\ u = <<u[1], u[2]>>
      BY Targets
    <3>2. c.row[u].status = "active" <=> c.active[u[1]] = u[2]
      BY <1>8 DEF SoundIn, RowsMatch
    <3>3. CASE u = t
      BY <3>3, <1>1, <1>3, <1>5, <1>6 DEF Catalog
    <3>4. CASE u # t /\ u[1] = k
      <4>1. u[2] # v /\ s.row[u] = rows[u] /\ s.active[u[1]] = v
        BY <3>1, <3>4, <1>5, <1>6 DEF Catalog
      <4>2. CASE u = o
        BY <4>1, <4>2, <3>1, <1>1, <1>2, ProjectionsAssumption
      <4>3. CASE u # o
        BY <4>1, <4>3, <3>1, <3>2, <3>4, <1>2
      <4> QED BY <4>2, <4>3
    <3>5. CASE u[1] # k
      BY <3>1, <3>2, <3>5, <1>1, <1>2, <1>5, <1>6 DEF Catalog
    <3> QED BY <3>3, <3>4, <3>5
  <2> QED BY <2>1, <2>2 DEF SoundIn, ActiveStand, RowsMatch
<1> QED BY <1>5, <1>7, <1>8

\* All the pointers of a build at once.
LEMMA SwitchedAll ==
  ASSUME NEW c \in Catalog, NEW kinds \in SUBSET Kinds, NEW v \in Versions, SoundIn(c),
         \A k \in kinds : Stands(c, k, v), NEW s, s = Switched(c, kinds, v)
  PROVE  /\ s \in Catalog /\ s.table = c.table /\ SoundIn(s)
         /\ \A k \in kinds : s.active[k] = v
         /\ kinds = {} => s = c
<1> DEFINE one == IF "lexical" \in kinds THEN SwitchOne(c, "lexical", v) ELSE c
<1>1. "lexical" \in Kinds /\ "graph" \in Kinds /\ \A k \in Kinds : k \in {"lexical", "graph"}
  BY DEF Kinds
<1>2. /\ one \in Catalog /\ one.table = c.table /\ SoundIn(one)
      /\ one.active = IF "lexical" \in kinds THEN [c.active EXCEPT !["lexical"] = v] ELSE c.active
      /\ \A t \in Target : one.row[t].checksum = c.row[t].checksum /\ one.row[t].aged = c.row[t].aged
  <2>1. CASE "lexical" \in kinds
    <3>1. one = SwitchOne(c, "lexical", v)
      BY <2>1
    <3> HIDE DEF one
    <3> QED BY <2>1, <3>1, <1>1, SwitchedSound
  <2>2. CASE "lexical" \notin kinds
    BY <2>2
  <2> QED BY <2>1, <2>2
<1>3. s = IF "graph" \in kinds THEN SwitchOne(one, "graph", v) ELSE one
  BY DEF Switched
<1>4. kinds = {} => s = c
  BY <1>3
<1> HIDE DEF one
<1>5. CASE "graph" \in kinds
  <2>1. Stands(c, "graph", v) /\ <<"graph", v>> \in Target
    BY <1>1, <1>5, Targets
  <2>2. Stands(one, "graph", v)
    BY <2>1, <1>2 DEF Stands
  <2>3. s = SwitchOne(one, "graph", v)
    BY <1>3, <1>5
  <2>4. s \in Catalog /\ s.active = [one.active EXCEPT !["graph"] = v] /\ s.table = one.table /\ SoundIn(s)
    BY <2>2, <2>3, <1>1, <1>2, SwitchedSound
  <2>5. \A k \in kinds : s.active[k] = v
    BY <2>4, <1>1, <1>2 DEF Catalog
  <2> QED BY <2>4, <2>5, <1>2, <1>4
<1>6. CASE "graph" \notin kinds
  <2>1. s = one /\ \A k \in kinds : k = "lexical"
    BY <1>1, <1>3, <1>6
  <2>2. \A k \in kinds : s.active[k] = v
    BY <2>1, <1>1, <1>2 DEF Catalog
  <2> QED BY <2>1, <2>2, <1>2, <1>4
<1> QED BY <1>5, <1>6

-----------------------------------------------------------------------------
(***************************************************************************)
(* What a step leaves to the other tools                                   *)
(***************************************************************************)
\* At most one tool is inside a transaction, and it is the transaction's own.
LEMMA Owner ==
  ASSUME FormsOK
  PROVE  /\ txn = NoTxn <=> txn.by = Nil
         /\ \A p \in Tools : place[p] \in Owns => txn \in Txn /\ txn.by = p
         /\ \A p, q \in Tools : place[p] \in Owns /\ place[q] \in Owns => p = q
         /\ txn = NoTxn => \A p \in Tools : place[p] \notin Owns
BY ProjectionsAssumption DEF FormsOK, OwnerInside, Mine, NoTxn, Txn

\* A step of one tool keeps the types when its own variables keep theirs.
LEMMA FormsKeep ==
  ASSUME FormsOK, NEW p \in Tools, CatalogTypeOK', txn' = NoTxn \/ txn' \in Txn',
         place' \in [Tools -> Labels], task' \in [Tools -> Job],
         \A q \in Tools \ {p} : place'[q] = place[q] /\ task'[q] = task[q],
         JobFits(p)', OwnerInside(p)',
         txn'.by = txn.by \/ {txn.by, txn'.by} \subseteq {p, Nil}
  PROVE  FormsOK'
<1>1. ASSUME NEW q \in Tools \ {p} PROVE (JobFits(q) /\ OwnerInside(q))'
  <2>1. JobFits(q) /\ OwnerInside(q)
    BY DEF FormsOK
  <2>2. JobFits(q)'
    BY <2>1 DEF JobFits
  <2>3. OwnerInside(q)'
    BY <2>1, ProjectionsAssumption DEF OwnerInside, Mine
  <2> QED BY <2>2, <2>3
<1> QED BY <1>1 DEF FormsOK

\* A step that changes nothing of the catalog, or ends a transaction, changes
\* nothing for another tool.
LEMMA QuietKeeps ==
  ASSUME FormsOK, NEW q \in Tools, WorkSound(q), place'[q] = place[q], task'[q] = task[q],
         catalog' = catalog, age' = age, derived' = derived,
         txn' = txn \/ (txn' = NoTxn /\ place[q] \notin Owns),
         loading = q => loading' = q /\ corpus'["lexical"] = corpus["lexical"]
  PROVE  WorkSound(q)'
<1>1. CASE place[q] \in Owns
  <2>1. txn' = txn
    BY <1>1
  <2>2. (BuildApart(q) /\ GraphInput(q) /\ BuiltStands(q) /\ DropApart(q) /\ SwitchTold(q))'
    BY <2>1 DEF WorkSound, BuildApart, GraphInput, BuiltStands, DropApart, SwitchTold, Stands
  <2>3. LoadAlone(q)'
    BY <2>1 DEF WorkSound, LoadAlone, Fresh, Text
  <2> QED BY <2>2, <2>3 DEF WorkSound
<1>2. CASE place[q] \notin Owns
  <2>1. (BuildApart(q) /\ GraphInput(q) /\ BuiltStands(q) /\ DropApart(q) /\ SwitchTold(q))'
    BY <1>2 DEF BuildApart, GraphInput, BuiltStands, DropApart, SwitchTold, Owns, Builds
  <2>2. LoadAlone(q)'
    BY <1>2 DEF WorkSound, LoadAlone, Fresh, Text, Owns, Builds
  <2> QED BY <2>1, <2>2 DEF WorkSound
<1> QED BY <1>1, <1>2

\* A step of the tool in the transaction gives another one, if it verifies a
\* load, nothing but rows made of its own snapshot, or no table.
LEMMA OutsideKeeps ==
  ASSUME FormsOK, NEW q \in Tools, WorkSound(q), place'[q] = place[q], task'[q] = task[q], place[q] \notin Owns,
         loading = q => loading' = q /\ corpus'["lexical"] = corpus["lexical"],
         \A v \in Versions : derived'[<<"lexical", v>>] \in {derived[<<"lexical", v>>], corpus["lexical"]},
         \A v \in Versions :
           \/ catalog'.table[<<"lexical", v>>] = catalog.table[<<"lexical", v>>]
           \/ txn # NoTxn /\ catalog'.table[<<"lexical", v>>] = txn.view.table[<<"lexical", v>>],
         txn' # NoTxn =>
           \A v \in Versions :
             \/ txn'.view.table[<<"lexical", v>>] \in {Nil, derived[<<"lexical", v>>], catalog.table[<<"lexical", v>>]}
             \/ txn # NoTxn /\ txn'.view.table[<<"lexical", v>>] = txn.view.table[<<"lexical", v>>]
  PROVE  WorkSound(q)'
<1>1. (BuildApart(q) /\ GraphInput(q) /\ BuiltStands(q) /\ DropApart(q) /\ SwitchTold(q))'
  BY DEF BuildApart, GraphInput, BuiltStands, DropApart, SwitchTold, Owns, Builds
<1>2. ASSUME task[q].what = "load" PROVE LoadAlone(q)'
  <2>1. JobFits(q)
    BY DEF FormsOK
  <2>2. place[q] \notin {"idle", "summary"} => loading = q /\ loading' = q
    BY <1>2 DEF WorkSound, LoadAlone
  <2>3. place[q] \notin {"idle", "summary", "store"} =>
          corpus["lexical"] = Snapshot(task[q].version) /\ corpus'["lexical"] = corpus["lexical"]
    BY <1>2, <2>2 DEF WorkSound, LoadAlone
  <2>4. ASSUME place[q] = "verify" PROVE derived'[Text(q)] = Snapshot(task[q].version)
                                      /\ Fresh(q, catalog'.table[Text(q)])
                                      /\ (txn' # NoTxn => Fresh(q, txn'.view.table[Text(q)]))
    <3>1. /\ task[q].version \in Versions /\ derived[Text(q)] = Snapshot(task[q].version)
          /\ Fresh(q, catalog.table[Text(q)]) /\ (txn # NoTxn => Fresh(q, txn.view.table[Text(q)]))
      BY <1>2, <2>1, <2>4 DEF JobFits, Loads, WorkSound, LoadAlone
    <3> QED BY <3>1, <2>3, <2>4 DEF Fresh, Text
  <2> QED BY <2>2, <2>3, <2>4, <1>2 DEF LoadAlone, Fresh, Text, Owns, Builds
<1>3. LoadAlone(q)'
  BY <1>2 DEF LoadAlone
<1> QED BY <1>1, <1>3 DEF WorkSound

-----------------------------------------------------------------------------
(***************************************************************************)
(* The steps outside a transaction                                         *)
(***************************************************************************)
\* The job of a tool that has none is a job, which cleans nothing up.
LEMMA NoJobIsJob ==
  NoTask \in Job /\ NoTask.what = "none" /\ ~NoTask.cleans
BY DEF NoTask, Job

\* What all of them do: the catalog, the inputs and the graphs stay.
LEMMA OutsideStep ==
  ASSUME IInv, NEW p \in Tools, CatalogTypeOK',
         place' \in [Tools -> Labels], task' \in [Tools -> Job],
         \A q \in Tools \ {p} : place'[q] = place[q] /\ task'[q] = task[q],
         JobFits(p)', OwnerInside(p)',
         catalog' = catalog, age' = age, derived' = derived,
         txn' = txn \/ (txn' = NoTxn /\ Mine(p)),
         \A q \in Tools \ {p} : loading = q => loading' = q /\ corpus'["lexical"] = corpus["lexical"],
         WorkSound(p)'
  PROVE  IInv'
<1>1. FormsOK'
  <2>1. txn' = NoTxn \/ txn' \in Txn'
    BY DEF IInv, FormsOK, Txn, Catalog, Target, Row, NoTxn
  <2>2. txn'.by = txn.by \/ {txn.by, txn'.by} \subseteq {p, Nil}
    BY DEF Mine, NoTxn
  <2> QED BY <2>1, <2>2, FormsKeep DEF IInv
<1>2. StoresSound'
  <2>1. SoundIn(catalog)'
    BY DEF IInv, StoresSound, SoundIn, ActiveStand, RowsMatch, Stands
  <2>2. txn' # NoTxn => SoundIn(txn.view)'
    BY DEF IInv, StoresSound, SoundIn, ActiveStand, RowsMatch, Stands, NoTxn
  <2> QED BY <2>1, <2>2 DEF StoresSound
<1>3. ASSUME NEW q \in Tools \ {p} PROVE WorkSound(q)'
  <2>1. Mine(p) => place[q] \notin Owns
    BY Owner DEF IInv, FormsOK, OwnerInside
  <2>2. WorkSound(q) /\ FormsOK
    BY DEF IInv
  <2> QED BY <2>1, <2>2, QuietKeeps
<1> QED BY <1>1, <1>2, <1>3 DEF IInv

\* A tool that ends gives up its transaction and the load lock.
LEMMA LeaveKeeps ==
  ASSUME IInv, NEW p \in Tools, Leave(p)
  PROVE  IInv'
<1>1. /\ place' = [place EXCEPT ![p] = "idle"] /\ task' = [task EXCEPT ![p] = NoTask]
      /\ txn' = IF Mine(p) THEN NoTxn ELSE txn
      /\ loading' = IF loading = p THEN Nil ELSE loading
      /\ corpus' = corpus /\ derived' = derived /\ age' = age /\ published' = published /\ catalog' = catalog
  BY DEF Leave, Finish, Go
<1>2. FormsOK /\ place \in [Tools -> Labels] /\ task \in [Tools -> Job]
  BY DEF IInv, FormsOK
<1>3. place' \in [Tools -> Labels] /\ task' \in [Tools -> Job] /\ place'[p] = "idle" /\ task'[p] = NoTask
      /\ \A q \in Tools \ {p} : place'[q] = place[q] /\ task'[q] = task[q]
  BY <1>1, <1>2, NoJobIsJob DEF Labels
<1>4. CatalogTypeOK'
  BY <1>1, <1>2 DEF FormsOK, CatalogTypeOK, Catalog, Row, Target
<1>5. JobFits(p)'
  BY <1>3, NoJobIsJob DEF JobFits, Builds, Loads
<1>6. OwnerInside(p)'
  BY <1>1, <1>3, ProjectionsAssumption DEF OwnerInside, Mine, NoTxn, Owns, Builds
<1>7. WorkSound(p)'
  BY <1>3, NoJobIsJob DEF WorkSound, BuildApart, GraphInput, BuiltStands, DropApart, SwitchTold, LoadAlone, Builds
<1>8. txn' = txn \/ (txn' = NoTxn /\ Mine(p))
  BY <1>1
<1>9. \A q \in Tools \ {p} : loading = q => loading' = q /\ corpus'["lexical"] = corpus["lexical"]
  BY <1>1
<1> QED BY <1>1, <1>3, <1>4, <1>5, <1>6, <1>7, <1>8, <1>9, OutsideStep

\* A load begins with its lock.
LEMMA StartLoadKeeps ==
  ASSUME IInv, NEW p \in Tools, StartLoad(p)
  PROVE  IInv'
<1>1. PICK v \in Versions :
        /\ Start(p, "store", [NoTask EXCEPT !.what = "load", !.version = v, !.kinds = {"lexical"},
                                !.todo = {"lexical"}, !.activate = TRUE, !.aged = AgeEnabled])
        /\ LoadFree /\ loading' = p
        /\ UNCHANGED <<corpus, derived, age, published, catalog, txn>>
  BY DEF StartLoad
<1>2. PICK j \in Job :
        /\ j = [NoTask EXCEPT !.what = "load", !.version = v, !.kinds = {"lexical"},
                  !.todo = {"lexical"}, !.activate = TRUE, !.aged = AgeEnabled]
        /\ j.what = "load" /\ j.version = v /\ j.kinds = {"lexical"} /\ j.todo = j.kinds /\ j.dbt /\ ~j.cleans
  <2>1. PICK n \in Job : n = NoTask /\ n.dbt /\ ~n.cleans
    BY NoJobIsJob DEF NoTask
  <2>2. {"lexical"} \in SUBSET Kinds /\ AgeEnabled \in BOOLEAN
    BY ProjectionsAssumption DEF Kinds
  <2>3. [n EXCEPT !.what = "load", !.version = v, !.kinds = {"lexical"},
           !.todo = {"lexical"}, !.activate = TRUE, !.aged = AgeEnabled] \in Job
    BY <2>2 DEF Job
  <2> QED BY <2>1, <2>3 DEF Job
<1>3. place[p] = "idle" /\ place' = [place EXCEPT ![p] = "store"] /\ task' = [task EXCEPT ![p] = j]
  BY <1>1, <1>2 DEF Start, Go, At
<1>4. FormsOK /\ place \in [Tools -> Labels] /\ task \in [Tools -> Job]
  BY DEF IInv, FormsOK
<1>5. place' \in [Tools -> Labels] /\ task' \in [Tools -> Job] /\ place'[p] = "store" /\ task'[p] = j
      /\ \A q \in Tools \ {p} : place'[q] = place[q] /\ task'[q] = task[q]
  BY <1>3, <1>4 DEF Labels
<1>6. CatalogTypeOK'
  BY <1>1, <1>4 DEF FormsOK, CatalogTypeOK, Catalog, Row, Target
<1>7. JobFits(p)'
  BY <1>2, <1>5 DEF JobFits, Builds, Loads
<1>8. OwnerInside(p)'
  BY <1>1, <1>3, <1>4, <1>5 DEF FormsOK, OwnerInside, Mine, Owns, Builds
<1>9. WorkSound(p)'
  BY <1>1, <1>5 DEF WorkSound, BuildApart, GraphInput, BuiltStands, DropApart, SwitchTold, LoadAlone, Builds
<1>10. /\ txn' = txn /\ catalog' = catalog /\ age' = age /\ derived' = derived
       /\ \A q \in Tools \ {p} : loading # q
  BY <1>1, ProjectionsAssumption DEF LoadFree
<1> QED BY <1>5, <1>6, <1>7, <1>8, <1>9, <1>10, OutsideStep

\* Its rows replace the chunks, and later versions are made of them.
LEMMA StoreKeeps ==
  ASSUME IInv, NEW p \in Tools, Store(p)
  PROVE  IInv'
<1>1. /\ place[p] = "store" /\ place' = [place EXCEPT ![p] = "begin"] /\ task' = task
      /\ corpus' = [corpus EXCEPT !.lexical = Snapshot(task[p].version)]
      /\ derived' = derived /\ age' = age /\ loading' = loading /\ published' = published
      /\ catalog' = catalog /\ txn' = txn
  BY DEF Store, At, Go
<1>2. FormsOK /\ place \in [Tools -> Labels] /\ task \in [Tools -> Job] /\ JobFits(p) /\ OwnerInside(p) /\ LoadAlone(p)
  BY DEF IInv, FormsOK, WorkSound
<1>3. place' \in [Tools -> Labels] /\ task' \in [Tools -> Job] /\ place'[p] = "begin" /\ task'[p] = task[p]
      /\ \A q \in Tools \ {p} : place'[q] = place[q] /\ task'[q] = task[q]
  BY <1>1, <1>2 DEF Labels
<1>4. task[p].what = "load" /\ task[p].version \in Versions /\ loading = p
  BY <1>1, <1>2 DEF JobFits, Loads, LoadAlone
<1>5. corpus \in [Kinds -> SUBSET Ids] /\ "lexical" \in Kinds /\ Snapshot(task[p].version) \in SUBSET Ids
  BY <1>2, <1>4, ProjectionsAssumption DEF FormsOK, CatalogTypeOK, Kinds
<1>6. corpus' \in [Kinds -> SUBSET Ids] /\ corpus'["lexical"] = Snapshot(task[p].version)
  BY <1>1, <1>5
<1>7. CatalogTypeOK'
  BY <1>1, <1>2, <1>6 DEF FormsOK, CatalogTypeOK, Catalog, Row, Target
<1>8. JobFits(p)'
  BY <1>1, <1>2, <1>3, <1>4 DEF JobFits, Builds, Loads
<1>9. OwnerInside(p)'
  BY <1>1, <1>2, <1>3 DEF OwnerInside, Mine, Owns, Builds
<1>10. WorkSound(p)'
  BY <1>1, <1>3, <1>4, <1>6 DEF WorkSound, BuildApart, GraphInput, BuiltStands, DropApart, SwitchTold, LoadAlone, Builds
<1>11. \A q \in Tools \ {p} : loading # q
  BY <1>4
<1> QED BY <1>1, <1>3, <1>7, <1>8, <1>9, <1>10, <1>11, OutsideStep

\* It compares what was built with its own snapshot,
LEMMA VerifyKeeps ==
  ASSUME IInv, NEW p \in Tools, Verify(p)
  PROVE  IInv'
<1>1. CASE /\ place[p] = "verify" /\ task' = [task EXCEPT ![p].ok = Reconciles(p)]
           /\ Go(p, "target") /\ UNCHANGED <<storeVars, catalog, txn, spent>>
  <2>1. /\ place' = [place EXCEPT ![p] = "target"]
        /\ corpus' = corpus /\ derived' = derived /\ age' = age /\ loading' = loading /\ published' = published
        /\ catalog' = catalog /\ txn' = txn
    BY <1>1 DEF Go, storeVars
  <2>2. FormsOK /\ place \in [Tools -> Labels] /\ task \in [Tools -> Job] /\ JobFits(p) /\ OwnerInside(p) /\ LoadAlone(p)
    BY DEF IInv, FormsOK, WorkSound
  <2>3. PICK j \in Job :
          /\ j = [task[p] EXCEPT !.ok = Reconciles(p)]
          /\ j.what = task[p].what /\ j.version = task[p].version /\ j.kinds = task[p].kinds
          /\ j.dbt = task[p].dbt /\ j.cleans = task[p].cleans
    <3>1. PICK ok \in BOOLEAN : ok = Reconciles(p)
      BY DEF Reconciles
    <3>2. task[p] \in Job
      BY <2>2
    <3>3. [task[p] EXCEPT !.ok = ok] \in Job
      BY <3>2 DEF Job
    <3> QED BY <3>1, <3>2, <3>3 DEF Job
  <2>4. task' = [task EXCEPT ![p] = j]
    BY <1>1, <2>3
  <2>5. place' \in [Tools -> Labels] /\ task' \in [Tools -> Job] /\ place'[p] = "target" /\ task'[p] = j
        /\ \A q \in Tools \ {p} : place'[q] = place[q] /\ task'[q] = task[q]
    BY <2>1, <2>2, <2>4 DEF Labels
  <2>6. task[p].what = "load" /\ task[p].version \in Versions /\ loading = p
        /\ corpus["lexical"] = Snapshot(task[p].version)
    BY <1>1, <2>2 DEF JobFits, Loads, LoadAlone
  <2>7. CatalogTypeOK'
    BY <2>1, <2>2 DEF FormsOK, CatalogTypeOK, Catalog, Row, Target
  <2>8. JobFits(p)'
    BY <2>2, <2>3, <2>5, <2>6 DEF JobFits, Builds, Loads
  <2>9. OwnerInside(p)'
    BY <1>1, <2>1, <2>2, <2>5 DEF OwnerInside, Mine, Owns, Builds
  <2>10. WorkSound(p)'
    BY <2>1, <2>3, <2>5, <2>6 DEF WorkSound, BuildApart, GraphInput, BuiltStands, DropApart, SwitchTold, LoadAlone, Builds
  <2> QED BY <2>1, <2>5, <2>7, <2>8, <2>9, <2>10, OutsideStep
<1>2. CASE Leave(p)
  BY <1>2, LeaveKeeps
<1> QED BY <1>1, <1>2 DEF Verify, At, RefuseWhen

\* reads what is active,
LEMMA ReadTargetKeeps ==
  ASSUME IInv, NEW p \in Tools, ReadTarget(p)
  PROVE  IInv'
<1>1. CASE /\ place[p] = "target" /\ loading' = IF loading = p THEN Nil ELSE loading
           /\ Go(p, "summary") /\ UNCHANGED <<corpus, derived, age, published, catalog, txn, task, spent>>
  <2>1. /\ place' = [place EXCEPT ![p] = "summary"] /\ task' = task
        /\ corpus' = corpus /\ derived' = derived /\ age' = age /\ published' = published
        /\ catalog' = catalog /\ txn' = txn
    BY <1>1 DEF Go
  <2>2. FormsOK /\ place \in [Tools -> Labels] /\ task \in [Tools -> Job] /\ JobFits(p) /\ OwnerInside(p)
    BY DEF IInv, FormsOK
  <2>3. place' \in [Tools -> Labels] /\ task' \in [Tools -> Job] /\ place'[p] = "summary" /\ task'[p] = task[p]
        /\ \A q \in Tools \ {p} : place'[q] = place[q] /\ task'[q] = task[q]
    BY <2>1, <2>2 DEF Labels
  <2>4. CatalogTypeOK'
    BY <1>1, <2>1, <2>2 DEF FormsOK, CatalogTypeOK, Catalog, Row, Target
  <2>5. JobFits(p)'
    BY <1>1, <2>2, <2>3 DEF JobFits, Builds, Loads
  <2>6. OwnerInside(p)'
    BY <1>1, <2>1, <2>2, <2>3 DEF OwnerInside, Mine, Owns, Builds
  <2>7. WorkSound(p)'
    BY <2>3 DEF WorkSound, BuildApart, GraphInput, BuiltStands, DropApart, SwitchTold, LoadAlone, Builds
  <2>8. \A q \in Tools \ {p} : loading = q => loading' = q
    BY <1>1
  <2> QED BY <2>1, <2>3, <2>4, <2>5, <2>6, <2>7, <2>8, OutsideStep
<1>2. CASE Leave(p)
  BY <1>2, LeaveKeeps
<1> QED BY <1>1, <1>2 DEF ReadTarget, At, RefuseWhen

\* and writes its summary.
LEMMA SummarizeKeeps ==
  ASSUME IInv, NEW p \in Tools, Summarize(p)
  PROVE  IInv'
<1>1. /\ place[p] = "summary" /\ place' = [place EXCEPT ![p] = "idle"] /\ task' = [task EXCEPT ![p] = NoTask]
      /\ published' = published \cup {task[p].version}
      /\ corpus' = corpus /\ derived' = derived /\ age' = age /\ loading' = loading
      /\ catalog' = catalog /\ txn' = txn
  BY DEF Summarize, Finish, Go, At
<1>2. FormsOK /\ place \in [Tools -> Labels] /\ task \in [Tools -> Job] /\ JobFits(p) /\ OwnerInside(p)
  BY DEF IInv, FormsOK
<1>3. place' \in [Tools -> Labels] /\ task' \in [Tools -> Job] /\ place'[p] = "idle" /\ task'[p] = NoTask
      /\ \A q \in Tools \ {p} : place'[q] = place[q] /\ task'[q] = task[q]
  BY <1>1, <1>2, NoJobIsJob DEF Labels
<1>4. task[p].version \in Versions
  BY <1>1, <1>2 DEF JobFits, Loads
<1>5. CatalogTypeOK'
  BY <1>1, <1>2, <1>4 DEF FormsOK, CatalogTypeOK, Catalog, Row, Target
<1>6. JobFits(p)'
  BY <1>3, NoJobIsJob DEF JobFits, Builds, Loads
<1>7. OwnerInside(p)'
  BY <1>1, <1>2, <1>3 DEF OwnerInside, Mine, Owns, Builds
<1>8. WorkSound(p)'
  BY <1>3, NoJobIsJob DEF WorkSound, BuildApart, GraphInput, BuiltStands, DropApart, SwitchTold, LoadAlone, Builds
<1> QED BY <1>1, <1>3, <1>5, <1>6, <1>7, <1>8, OutsideStep

-----------------------------------------------------------------------------
(***************************************************************************)
(* The steps of a transaction                                              *)
(***************************************************************************)
\* The transaction begins: it sees the catalog as it is committed.
LEMMA OpenStep ==
  ASSUME IInv, NEW p \in Tools, Open(p),
         corpus' = corpus, derived' = derived, age' = age, loading' = loading, published' = published,
         catalog' = catalog,
         place' \in [Tools -> Labels], task' \in [Tools -> Job],
         \A q \in Tools \ {p} : place'[q] = place[q] /\ task'[q] = task[q],
         place'[p] \in Owns, JobFits(p)', WorkSound(p)'
  PROVE  IInv'
<1>1. FormsOK /\ txn = NoTxn /\ txn.by = Nil /\ txn' = [by |-> p, view |-> catalog]
  BY DEF IInv, Open, NoTxn
<1>2. catalog \in Catalog /\ txn' \in Txn /\ txn'.by = p /\ txn'.view = catalog
  BY <1>1 DEF FormsOK, CatalogTypeOK, Txn
<1>3. CatalogTypeOK'
  BY <1>1, <1>2 DEF FormsOK, CatalogTypeOK, Catalog, Row, Target, Txn
<1>4. OwnerInside(p)'
  BY <1>2 DEF OwnerInside, Mine
<1>5. txn' \in Txn'
  BY <1>2 DEF Txn, Catalog, Row, Target
<1>6. FormsOK'
  BY <1>1, <1>2, <1>3, <1>4, <1>5, FormsKeep
<1>7. StoresSound'
  BY <1>2 DEF IInv, StoresSound, SoundIn, ActiveStand, RowsMatch, Stands
<1>8. ASSUME NEW q \in Tools \ {p} PROVE WorkSound(q)'
  <2>1. place[q] \notin Owns /\ WorkSound(q)
    BY <1>1, Owner DEF IInv
  <2> QED BY <2>1, <1>1, <1>2, OutsideKeeps
<1> QED BY <1>6, <1>7, <1>8 DEF IInv

\* A graph that is built or dropped is active in neither catalog.
LEMMA AgeElsewhere ==
  ASSUME NEW c \in Catalog, SoundIn(c), NEW v \in Versions,
         \A u \in Versions \ {v} : age'[u] = age[u], age' = age \/ c.active["graph"] # v
  PROVE  SoundIn(c)'
<1>1. ASSUME NEW k \in Kinds, c.active[k] # Nil PROVE Stands(c, k, c.active[k])'
  <2>1. Stands(c, k, c.active[k]) /\ c.active[k] \in Versions
    BY <1>1 DEF SoundIn, ActiveStand, Catalog
  <2> QED BY <2>1 DEF Stands
<1>2. ActiveStand(c)'
  BY <1>1 DEF ActiveStand
<1> QED BY <1>2 DEF SoundIn, RowsMatch

\* A step of the tool in the transaction.
LEMMA InsideStep ==
  ASSUME IInv, NEW p \in Tools, place[p] \in Owns, place'[p] \in Owns, NEW view \in Catalog,
         txn' \in Txn, txn'.by = p, txn'.view = view,
         corpus' = corpus, loading' = loading, published' = published, catalog' = catalog,
         derived' \in [Target -> (SUBSET Ids) \cup {Nil}],
         age' \in [Versions -> {"absent", "partial", "whole"}],
         SoundIn(catalog)', SoundIn(view)',
         place' \in [Tools -> Labels], task' \in [Tools -> Job],
         \A q \in Tools \ {p} : place'[q] = place[q] /\ task'[q] = task[q],
         \A v \in Versions : derived'[<<"lexical", v>>] \in {derived[<<"lexical", v>>], corpus["lexical"]},
         \A v \in Versions :
           view.table[<<"lexical", v>>] \in {Nil, derived[<<"lexical", v>>], txn.view.table[<<"lexical", v>>]},
         JobFits(p)', WorkSound(p)'
  PROVE  IInv'
<1>1. FormsOK /\ txn \in Txn /\ txn.by = p /\ txn # NoTxn
  BY Owner, ProjectionsAssumption DEF IInv, NoTxn
<1>2. CatalogTypeOK'
  BY <1>1 DEF FormsOK, CatalogTypeOK, Catalog, Row, Target, Txn
<1>3. OwnerInside(p)'
  BY DEF OwnerInside, Mine
<1>4. txn' \in Txn'
  BY DEF Txn, Catalog, Row, Target
<1>5. FormsOK'
  BY <1>1, <1>2, <1>3, <1>4, FormsKeep
<1>6. SoundIn(txn.view)'
  BY DEF SoundIn, ActiveStand, RowsMatch, Stands
<1>7. StoresSound'
  BY <1>6 DEF StoresSound
<1>8. ASSUME NEW q \in Tools \ {p} PROVE WorkSound(q)'
  <2>1. place[q] \notin Owns /\ WorkSound(q)
    BY <1>1, Owner DEF IInv
  <2>2. \A v \in Versions : catalog'.table[<<"lexical", v>>] = catalog.table[<<"lexical", v>>]
    OBVIOUS
  <2>3. \A v \in Versions :
          \/ txn'.view.table[<<"lexical", v>>] \in {Nil, derived[<<"lexical", v>>], catalog.table[<<"lexical", v>>]}
          \/ txn # NoTxn /\ txn'.view.table[<<"lexical", v>>] = txn.view.table[<<"lexical", v>>]
    BY <1>1
  <2>4. place'[q] = place[q] /\ task'[q] = task[q] /\ corpus'["lexical"] = corpus["lexical"]
    OBVIOUS
  <2> QED BY <2>1, <2>2, <2>3, <2>4, <1>1, OutsideKeeps
<1> QED BY <1>5, <1>7, <1>8 DEF IInv

\* What a build starts with; its first step has nothing behind it.
LEMMA BuildBegins ==
  ASSUME IInv, NEW p \in Tools, NEW j \in Job,
         j.what = "build" \/ (j.what = "load" /\ j.kinds = {"lexical"} /\ j.dbt /\ loading = p
                              /\ corpus["lexical"] = Snapshot(j.version)),
         j.version \in Versions, j.todo = j.kinds, ~j.cleans, Accepts(j), Open(p),
         corpus' = corpus, derived' = derived, age' = age, loading' = loading, published' = published,
         catalog' = catalog,
         place' = [place EXCEPT ![p] = FirstStep(j)], task' = [task EXCEPT ![p] = j]
  PROVE  IInv'
<1>1. place \in [Tools -> Labels] /\ task \in [Tools -> Job]
  BY DEF IInv, FormsOK
<1>2. FirstStep(j) \in {"inputs", "kinds"} /\ (j.what = "load" => FirstStep(j) = "inputs")
  BY DEF FirstStep, Job
<1>3. /\ place' \in [Tools -> Labels] /\ task' \in [Tools -> Job] /\ place'[p] = FirstStep(j) /\ task'[p] = j
      /\ \A q \in Tools \ {p} : place'[q] = place[q] /\ task'[q] = task[q]
  BY <1>1, <1>2 DEF Labels
<1>4. txn'.view = catalog
  BY DEF Open
<1>5. JobFits(p)'
  BY <1>2, <1>3 DEF JobFits, Builds, Loads
<1>6. BuildApart(p)' /\ GraphInput(p)' /\ BuiltStands(p)' /\ DropApart(p)' /\ SwitchTold(p)'
  BY <1>2, <1>3, <1>4 DEF BuildApart, GraphInput, BuiltStands, DropApart, SwitchTold, Accepts
<1>7. LoadAlone(p)'
  BY <1>2, <1>3 DEF LoadAlone
<1>8. WorkSound(p)'
  BY <1>6, <1>7 DEF WorkSound
<1>9. place'[p] \in Owns
  BY <1>2, <1>3 DEF Owns, Builds
<1> QED BY <1>3, <1>5, <1>8, <1>9, OpenStep

\* A build names the kinds of its version.
LEMMA StartBuildKeeps ==
  ASSUME NeverCleans, IInv, NEW p \in Tools, StartBuild(p)
  PROVE  IInv'
<1>1. PICK v \in Versions, kinds \in (SUBSET Kinds) \ {{}}, o \in Options :
        LET j == [NoTask EXCEPT !.what = "build", !.version = v, !.kinds = kinds, !.todo = kinds,
                    !.activate = o.activate, !.dbt = o.dbt, !.aged = o.aged, !.cleans = o.cleans]
        IN  /\ Start(p, FirstStep(j), j)
            /\ Accepts(j) /\ Open(p)
            /\ UNCHANGED <<storeVars, catalog>>
  BY DEF StartBuild
<1>2. PICK j \in Job :
        /\ j = [NoTask EXCEPT !.what = "build", !.version = v, !.kinds = kinds, !.todo = kinds,
                  !.activate = o.activate, !.dbt = o.dbt, !.aged = o.aged, !.cleans = o.cleans]
        /\ j.what = "build" /\ j.version = v /\ j.kinds = kinds /\ j.todo = kinds /\ ~j.cleans
  <2>1. PICK n \in Job : n = NoTask
    BY NoJobIsJob
  <2>2. o.activate \in BOOLEAN /\ o.dbt \in BOOLEAN /\ o.aged \in BOOLEAN /\ ~o.cleans /\ o.cleans \in BOOLEAN
    BY ProjectionsAssumption DEF NeverCleans
  <2>3. [n EXCEPT !.what = "build", !.version = v, !.kinds = kinds, !.todo = kinds,
           !.activate = o.activate, !.dbt = o.dbt, !.aged = o.aged, !.cleans = o.cleans] \in Job
    BY <2>2 DEF Job
  <2> QED BY <2>1, <2>2, <2>3 DEF Job
<1>3. Start(p, FirstStep(j), j) /\ Accepts(j) /\ Open(p) /\ UNCHANGED <<storeVars, catalog>>
  BY <1>1, <1>2
<1>4. place' = [place EXCEPT ![p] = FirstStep(j)] /\ task' = [task EXCEPT ![p] = j]
  BY <1>3 DEF Start, Go
<1>5. /\ corpus' = corpus /\ derived' = derived /\ age' = age /\ loading' = loading
      /\ published' = published /\ catalog' = catalog
  BY <1>3 DEF storeVars
<1> QED BY <1>2, <1>3, <1>4, <1>5, BuildBegins

\* With the catalog lock it sees the committed catalog.
LEMMA BeginKeeps ==
  ASSUME IInv, NEW p \in Tools, Begin(p)
  PROVE  IInv'
<1>1. CASE /\ place[p] = "begin" /\ Accepts(task[p]) /\ Open(p) /\ Go(p, FirstStep(task[p]))
           /\ UNCHANGED <<storeVars, catalog, task, spent>>
  <2>1. place \in [Tools -> Labels] /\ task \in [Tools -> Job] /\ JobFits(p) /\ LoadAlone(p)
    BY DEF IInv, FormsOK, WorkSound
  <2>2. PICK j \in Job : j = task[p]
    BY <2>1
  <2>3. /\ j.what = "load" /\ j.kinds = {"lexical"} /\ j.dbt /\ loading = p
        /\ corpus["lexical"] = Snapshot(j.version)
        /\ j.version \in Versions /\ j.todo = j.kinds /\ ~j.cleans
    BY <1>1, <2>1, <2>2 DEF JobFits, Loads, LoadAlone
  <2>4. task' = [task EXCEPT ![p] = j] /\ place' = [place EXCEPT ![p] = FirstStep(j)] /\ Accepts(j)
    BY <1>1, <2>1, <2>2 DEF Go
  <2>5. /\ corpus' = corpus /\ derived' = derived /\ age' = age /\ loading' = loading
        /\ published' = published /\ catalog' = catalog
    BY <1>1 DEF storeVars
  <2> QED BY <1>1, <2>3, <2>4, <2>5, BuildBegins
<1>2. CASE Leave(p)
  BY <1>2, LeaveKeeps
<1> QED BY <1>1, <1>2 DEF Begin, At, RefuseWhen

\* A clean-up plans under the catalog lock, so that its plan is current.
LEMMA StartCleanupKeeps ==
  ASSUME IInv, NEW p \in Tools, StartCleanup(p)
  PROVE  IInv'
<1>1. PICK kinds \in (SUBSET Kinds) \ {{}} :
        /\ Start(p, "drop", [NoTask EXCEPT !.what = "cleanup", !.kinds = kinds, !.aged = AgeEnabled,
                                         !.plan = Candidates(catalog, kinds)])
        /\ Open(p)
        /\ UNCHANGED <<storeVars, catalog>>
  BY DEF StartCleanup
<1>2. PICK j \in Job :
        /\ j = [NoTask EXCEPT !.what = "cleanup", !.kinds = kinds, !.aged = AgeEnabled,
                  !.plan = Candidates(catalog, kinds)]
        /\ j.what = "cleanup" /\ j.todo = {} /\ j.plan = Candidates(catalog, kinds) /\ ~j.cleans
  <2>1. PICK n \in Job : n = NoTask /\ n.todo = {} /\ ~n.cleans
    BY NoJobIsJob DEF NoTask
  <2>2. PICK plan \in SUBSET Target : plan = Candidates(catalog, kinds)
    BY DEF Candidates
  <2>3. [n EXCEPT !.what = "cleanup", !.kinds = kinds, !.aged = AgeEnabled, !.plan = plan] \in Job
    BY ProjectionsAssumption DEF Job
  <2> QED BY <2>1, <2>2, <2>3 DEF Job
<1>3. /\ place' = [place EXCEPT ![p] = "drop"] /\ task' = [task EXCEPT ![p] = j]
      /\ corpus' = corpus /\ derived' = derived /\ age' = age /\ loading' = loading
      /\ published' = published /\ catalog' = catalog /\ Open(p)
  BY <1>1, <1>2 DEF Start, Go, storeVars
<1>4. place \in [Tools -> Labels] /\ task \in [Tools -> Job]
  BY DEF IInv, FormsOK
<1>5. /\ place' \in [Tools -> Labels] /\ task' \in [Tools -> Job] /\ place'[p] = "drop" /\ task'[p] = j
      /\ \A q \in Tools \ {p} : place'[q] = place[q] /\ task'[q] = task[q]
  BY <1>3, <1>4 DEF Labels
<1>6. txn'.view = catalog
  BY <1>3 DEF Open
<1>7. JobFits(p)'
  BY <1>2, <1>5 DEF JobFits, Builds, Loads
<1>8. BuildApart(p)' /\ GraphInput(p)' /\ BuiltStands(p)' /\ SwitchTold(p)' /\ LoadAlone(p)'
  BY <1>2, <1>3, <1>5, <1>6 DEF BuildApart, GraphInput, BuiltStands, SwitchTold, LoadAlone, Builds
<1>9. DropApart(p)'
  BY <1>2, <1>3, <1>5, <1>6 DEF DropApart, Candidates
<1>10. WorkSound(p)'
  BY <1>8, <1>9 DEF WorkSound
<1>11. place'[p] \in Owns
  BY <1>5 DEF Owns, Builds
<1> QED BY <1>3, <1>5, <1>7, <1>10, <1>11, OpenStep

\* dbt makes the inputs in a session of its own, of the rows that are there.
LEMMA InputsKeeps ==
  ASSUME IInv, NEW p \in Tools, Inputs(p)
  PROVE  IInv'
<1>1. /\ place[p] = "inputs" /\ place' = [place EXCEPT ![p] = "kinds"] /\ task' = task
      /\ derived' = [t \in Target |-> IF t[2] = task[p].version THEN corpus[t[1]] ELSE derived[t]]
      /\ corpus' = corpus /\ age' = age /\ loading' = loading /\ published' = published
      /\ catalog' = catalog /\ txn' = txn
  BY DEF Inputs, At, Go
<1>2. FormsOK /\ place \in [Tools -> Labels] /\ task \in [Tools -> Job] /\ JobFits(p) /\ WorkSound(p) /\ StoresSound
  BY DEF IInv, FormsOK
<1>3. place[p] \in Owns /\ place[p] \in Builds /\ txn \in Txn /\ txn.by = p /\ txn # NoTxn
  BY <1>1, <1>2, Owner, ProjectionsAssumption DEF Owns, Builds, NoTxn
<1>4. /\ place' \in [Tools -> Labels] /\ task' \in [Tools -> Job] /\ place'[p] = "kinds" /\ task'[p] = task[p]
      /\ \A q \in Tools \ {p} : place'[q] = place[q] /\ task'[q] = task[q]
  BY <1>1, <1>2 DEF Labels
<1>5. PICK view \in Catalog : view = txn.view /\ txn'.view = view
  BY <1>1, <1>3 DEF Txn
<1>6. derived' \in [Target -> (SUBSET Ids) \cup {Nil}]
  <2>1. corpus \in [Kinds -> SUBSET Ids] /\ derived \in [Target -> (SUBSET Ids) \cup {Nil}]
    BY <1>2 DEF FormsOK, CatalogTypeOK
  <2>2. \A t \in Target : corpus[t[1]] \in SUBSET Ids
    BY <2>1, Targets
  <2> QED BY <1>1, <2>1, <2>2
<1>7. \A v \in Versions : derived'[<<"lexical", v>>] = IF v = task[p].version THEN corpus["lexical"] ELSE derived[<<"lexical", v>>]
  BY <1>1, Targets DEF Kinds
<1>8. age' \in [Versions -> {"absent", "partial", "whole"}]
  BY <1>1, <1>2 DEF FormsOK, CatalogTypeOK
<1>9. SoundIn(catalog)' /\ SoundIn(view)'
  BY <1>1, <1>2, <1>3, <1>5 DEF StoresSound, SoundIn, ActiveStand, RowsMatch, Stands
<1>10. JobFits(p)'
  BY <1>1, <1>2, <1>4 DEF JobFits, Builds, Loads
<1>11. BuildApart(p)' /\ GraphInput(p)' /\ BuiltStands(p)' /\ DropApart(p)' /\ SwitchTold(p)'
  BY <1>1, <1>2, <1>3, <1>4 DEF WorkSound, BuildApart, GraphInput, BuiltStands, DropApart, SwitchTold, Stands, Builds
<1>12. LoadAlone(p)'
  <2>1. task[p].version \in Versions /\ task[p].todo = task[p].kinds
    BY <1>1, <1>2 DEF JobFits, Builds
  <2>2. task[p].what = "load" => /\ loading' = p /\ corpus'["lexical"] = Snapshot(task[p].version)
                                /\ derived'[Text(p)] = Snapshot(task[p].version)
                                /\ "lexical" \in task[p].todo
    BY <1>1, <1>2, <1>7, <2>1 DEF WorkSound, LoadAlone, JobFits, Text
  <2> QED BY <1>1, <1>4, <2>2 DEF LoadAlone, Text
<1>13. WorkSound(p)'
  BY <1>11, <1>12 DEF WorkSound
<1>14. place'[p] \in Owns /\ txn' \in Txn /\ txn'.by = p
  BY <1>1, <1>3, <1>4 DEF Owns, Builds
<1>15. /\ \A v \in Versions : derived'[<<"lexical", v>>] \in {derived[<<"lexical", v>>], corpus["lexical"]}
       /\ \A v \in Versions :
            view.table[<<"lexical", v>>] \in {Nil, derived[<<"lexical", v>>], txn.view.table[<<"lexical", v>>]}
  BY <1>5, <1>7
<1> QED BY <1>1, <1>3, <1>4, <1>5, <1>6, <1>8, <1>9, <1>10, <1>13, <1>14, <1>15, InsideStep

\* A kind of the build is staged; its AGE graph, if it has one, is whole then.
LEMMA BuiltKeeps ==
  ASSUME IInv, NEW p \in Tools, place[p] \in {"kinds", "age"}, NEW k \in task[p].todo, NEW sound \in BOOLEAN,
         Built(p, k, sound), derived[<<k, task[p].version>>] # Nil,
         corpus' = corpus, derived' = derived, loading' = loading, published' = published, catalog' = catalog,
         age' = age \/ (k = "graph" /\ age' = [age EXCEPT ![task[p].version] = "whole"]),
         k = "graph" /\ task[p].aged => age'[task[p].version] = "whole",
         place' = [place EXCEPT ![p] = "kinds"]
  PROVE  IInv'
<1> DEFINE v == task[p].version
           t == <<k, v>>
<1>1. FormsOK /\ place \in [Tools -> Labels] /\ task \in [Tools -> Job] /\ JobFits(p) /\ WorkSound(p) /\ StoresSound
  BY DEF IInv, FormsOK
<1>2. place[p] \in Owns /\ place[p] \in Builds /\ txn \in Txn /\ txn.by = p /\ txn # NoTxn
  BY <1>1, Owner, ProjectionsAssumption DEF Owns, Builds, NoTxn
<1>3. v \in Versions /\ task[p].todo \subseteq task[p].kinds /\ k \in task[p].kinds /\ k \in Kinds
      /\ task[p].what \in {"build", "load"} /\ ~task[p].cleans /\ task[p].aged \in BOOLEAN
  BY <1>1, <1>2 DEF JobFits, Job
<1>4. t \in Target /\ t[1] = k /\ t[2] = v
  BY <1>3, Targets
<1>5. PICK c \in Catalog : c = txn.view
  BY <1>2 DEF Txn
<1>6. PICK aged \in BOOLEAN : aged = (k = "graph" /\ task[p].aged)
  BY <1>3
<1>7. PICK s : s = Staged(c, t, sound, aged)
  OBVIOUS
<1>8. txn' = [txn EXCEPT !.view = s]
  BY <1>5, <1>6, <1>7 DEF Built
<1>9. c.active = catalog.active /\ \A i \in task[p].kinds : c.active[i] # v
  BY <1>1, <1>2, <1>5 DEF WorkSound, BuildApart
<1>10. derived \in [Target -> (SUBSET Ids) \cup {Nil}] /\ age \in [Versions -> {"absent", "partial", "whole"}]
       /\ catalog \in Catalog
  BY <1>1 DEF FormsOK, CatalogTypeOK
<1>11. /\ s \in Catalog /\ s.active = c.active
       /\ s.table[t] = derived[t] /\ s.row[t].checksum = derived[t] /\ s.row[t].aged = aged
       /\ \A u \in Target \ {t} : s.table[u] = c.table[u] /\ s.row[u] = c.row[u]
       /\ SoundIn(c) => SoundIn(s)
  <2>1. c.active[t[1]] # t[2]
    BY <1>3, <1>4, <1>9
  <2> HIDE DEF v, t
  <2> QED BY <2>1, <1>4, <1>7, <1>10, StagedSound
<1>12. txn' \in Txn /\ txn'.by = p /\ txn'.view = s
  BY <1>2, <1>8, <1>11 DEF Txn
<1>13. PICK j \in Job :
         /\ j = [task[p] EXCEPT !.todo = @ \ {k}, !.sound = @ /\ sound]
         /\ j.what = task[p].what /\ j.version = v /\ j.kinds = task[p].kinds /\ j.dbt = task[p].dbt /\ ~j.cleans
         /\ j.todo = task[p].todo \ {k} /\ (j.sound => task[p].sound)
  <2>1. PICK o \in Job : o = task[p] /\ ~o.cleans /\ o.version = v
    BY <1>1, <1>3
  <2>2. PICK todo \in SUBSET Kinds : todo = o.todo \ {k}
    BY DEF Job
  <2>3. PICK b \in BOOLEAN : b = (o.sound /\ sound)
    OBVIOUS
  <2>4. PICK j \in Job : /\ j = [o EXCEPT !.todo = todo, !.sound = b]
                         /\ j.what = o.what /\ j.version = o.version /\ j.kinds = o.kinds /\ j.dbt = o.dbt
                         /\ j.cleans = o.cleans /\ j.todo = todo /\ j.sound = b
    <3>1. [o EXCEPT !.todo = todo, !.sound = b] \in Job
      BY DEF Job
    <3> QED BY <3>1 DEF Job
  <2>5. j = [task[p] EXCEPT !.todo = @ \ {k}, !.sound = @ /\ sound]
    BY <2>1, <2>2, <2>3, <2>4
  <2>6. j.sound => task[p].sound
    BY <2>1, <2>3, <2>4
  <2> QED BY <2>1, <2>2, <2>4, <2>5, <2>6
<1>14. task' = [task EXCEPT ![p] = j]
  BY <1>1, <1>13 DEF Built
<1>15. /\ place' \in [Tools -> Labels] /\ task' \in [Tools -> Job] /\ place'[p] = "kinds" /\ task'[p] = j
       /\ \A q \in Tools \ {p} : place'[q] = place[q] /\ task'[q] = task[q]
  BY <1>1, <1>14 DEF Labels
<1>16. age' \in [Versions -> {"absent", "partial", "whole"}] /\ (\A u \in Versions \ {v} : age'[u] = age[u])
       /\ (age' = age \/ k = "graph")
  BY <1>10
<1>17. SoundIn(s)'
  <2>1. SoundIn(s)
    BY <1>1, <1>2, <1>5, <1>11 DEF StoresSound
  <2>2. age' = age \/ s.active["graph"] # v
    BY <1>3, <1>9, <1>11, <1>16
  <2> QED BY <1>3, <1>11, <1>16, <2>1, <2>2, AgeElsewhere
<1>18. SoundIn(catalog)'
  <2>1. PICK d \in Catalog : d = catalog /\ SoundIn(d)
    BY <1>1, <1>10 DEF StoresSound
  <2>2. age' = age \/ d.active["graph"] # v
    BY <1>3, <1>9, <1>16, <2>1
  <2>3. SoundIn(d)'
    BY <1>3, <1>16, <2>1, <2>2, AgeElsewhere
  <2> QED BY <2>1, <2>3 DEF SoundIn, ActiveStand, RowsMatch, Stands
<1>19. JobFits(p)'
  BY <1>3, <1>13, <1>15, <1>1 DEF JobFits, Builds, Loads
<1>20. BuildApart(p)'
  BY <1>9, <1>11, <1>12, <1>13, <1>15 DEF BuildApart
<1>21. BuiltStands(p)'
  <2> SUFFICES ASSUME j.sound, NEW i \in j.kinds \ j.todo
               PROVE  /\ s.table[<<i, v>>] # Nil /\ s.table[<<i, v>>] = s.row[<<i, v>>].checksum
                      /\ s.row[<<i, v>>].aged => i = "graph" /\ age'[v] = "whole"
    BY <1>12, <1>13, <1>15 DEF BuiltStands, Stands
  <2>1. CASE i = k
    BY <2>1, <1>6, <1>11
  <2>2. CASE i # k
    <3>1. task[p].sound /\ i \in task[p].kinds \ task[p].todo
      BY <2>2, <1>13
    <3>2. Stands(c, i, v)
      BY <3>1, <1>1, <1>2, <1>5 DEF WorkSound, BuiltStands
    <3>3. i \in Kinds
      BY <3>1, <1>1 DEF Job
    <3>4. <<i, v>> \in Target /\ <<i, v>> # t
      BY <2>2, <3>3, <1>3, Targets
    <3>5. s.table[<<i, v>>] = c.table[<<i, v>>] /\ s.row[<<i, v>>] = c.row[<<i, v>>]
      BY <3>4, <1>11
    <3>6. i = "graph" => age' = age
      BY <2>2, <1>16
    <3> QED BY <3>2, <3>5, <3>6, <1>16 DEF Stands
  <2> QED BY <2>1, <2>2
<1>22. DropApart(p)' /\ SwitchTold(p)' /\ GraphInput(p)'
  BY <1>15 DEF DropApart, SwitchTold, GraphInput
<1>23. LoadAlone(p)'
  <2> SUFFICES ASSUME j.what = "load"
               PROVE  /\ loading = p /\ corpus["lexical"] = Snapshot(v) /\ derived[<<"lexical", v>>] = Snapshot(v)
                      /\ "lexical" \notin j.todo => s.table[<<"lexical", v>>] \in {Nil, Snapshot(v)}
    BY <1>12, <1>13, <1>15 DEF LoadAlone, Fresh, Text
  <2>1. /\ loading = p /\ corpus["lexical"] = Snapshot(v) /\ derived[<<"lexical", v>>] = Snapshot(v)
    BY <1>1, <1>13 DEF WorkSound, LoadAlone, Text
  <2>2. k = "lexical"
    BY <1>1, <1>3, <1>13 DEF JobFits
  <2> QED BY <2>1, <2>2, <1>11
<1>24. WorkSound(p)'
  BY <1>20, <1>21, <1>22, <1>23 DEF WorkSound
<1>25. /\ \A u \in Versions : derived'[<<"lexical", u>>] \in {derived[<<"lexical", u>>], corpus["lexical"]}
       /\ \A u \in Versions :
            s.table[<<"lexical", u>>] \in {Nil, derived[<<"lexical", u>>], txn.view.table[<<"lexical", u>>]}
  BY <1>5, <1>11, Targets DEF Kinds
<1>26. place'[p] \in Owns /\ derived' \in [Target -> (SUBSET Ids) \cup {Nil}]
  BY <1>10, <1>15 DEF Owns, Builds
<1> HIDE DEF v, t
<1> QED BY <1>2, <1>11, <1>12, <1>15, <1>16, <1>17, <1>18, <1>19, <1>24, <1>25, <1>26, InsideStep

\* The AGE graph of a build is begun: it is active in neither catalog.
LEMMA AgeBegunKeeps ==
  ASSUME IInv, NEW p \in Tools, place[p] = "kinds", "graph" \in task[p].todo,
         derived[<<"graph", task[p].version>>] # Nil,
         age' = [age EXCEPT ![task[p].version] = "partial"], place' = [place EXCEPT ![p] = "age"],
         corpus' = corpus, derived' = derived, loading' = loading, published' = published,
         catalog' = catalog, txn' = txn, task' = task
  PROVE  IInv'
<1> DEFINE v == task[p].version
<1>1. FormsOK /\ place \in [Tools -> Labels] /\ task \in [Tools -> Job] /\ JobFits(p) /\ WorkSound(p) /\ StoresSound
  BY DEF IInv, FormsOK
<1>2. place[p] \in Owns /\ place[p] \in Builds /\ txn \in Txn /\ txn.by = p /\ txn # NoTxn
  BY <1>1, Owner, ProjectionsAssumption DEF Owns, Builds, NoTxn
<1>3. v \in Versions /\ "graph" \in task[p].kinds
  BY <1>1, <1>2 DEF JobFits
<1>4. PICK c \in Catalog : c = txn.view /\ SoundIn(c)
  BY <1>1, <1>2 DEF Txn, StoresSound
<1>5. PICK d \in Catalog : d = catalog /\ SoundIn(d)
  BY <1>1 DEF FormsOK, CatalogTypeOK, StoresSound
<1>6. c.active["graph"] # v /\ d.active["graph"] # v
  BY <1>1, <1>2, <1>3, <1>4, <1>5 DEF WorkSound, BuildApart
<1>7. age' \in [Versions -> {"absent", "partial", "whole"}] /\ \A u \in Versions \ {v} : age'[u] = age[u]
  BY <1>1, <1>3 DEF FormsOK, CatalogTypeOK
<1>8. SoundIn(c)' /\ SoundIn(d)'
  BY <1>3, <1>4, <1>5, <1>6, <1>7, AgeElsewhere
<1>9. SoundIn(catalog)'
  BY <1>5, <1>8 DEF SoundIn, ActiveStand, RowsMatch, Stands
<1>10. /\ place' \in [Tools -> Labels] /\ task' \in [Tools -> Job] /\ place'[p] = "age" /\ task'[p] = task[p]
       /\ \A q \in Tools \ {p} : place'[q] = place[q] /\ task'[q] = task[q]
  BY <1>1 DEF Labels
<1>11. JobFits(p)'
  BY <1>1, <1>10 DEF JobFits, Builds, Loads
<1>12. BuiltStands(p)'
  <2> SUFFICES ASSUME task[p].sound, NEW i \in task[p].kinds \ task[p].todo
               PROVE  /\ c.table[<<i, v>>] # Nil /\ c.table[<<i, v>>] = c.row[<<i, v>>].checksum
                      /\ c.row[<<i, v>>].aged => i = "graph" /\ age'[v] = "whole"
    BY <1>4, <1>10 DEF BuiltStands, Stands
  <2>1. Stands(c, i, v) /\ i # "graph"
    BY <1>1, <1>2, <1>4 DEF WorkSound, BuiltStands
  <2> QED BY <2>1 DEF Stands
<1>13. BuildApart(p)' /\ GraphInput(p)' /\ DropApart(p)' /\ SwitchTold(p)' /\ LoadAlone(p)'
  BY <1>1, <1>2, <1>10 DEF WorkSound, BuildApart, GraphInput, DropApart, SwitchTold, LoadAlone, Text, Fresh, Builds
<1>14. WorkSound(p)'
  BY <1>12, <1>13 DEF WorkSound
<1>15. /\ derived' \in [Target -> (SUBSET Ids) \cup {Nil}]
       /\ \A u \in Versions : derived'[<<"lexical", u>>] \in {derived[<<"lexical", u>>], corpus["lexical"]}
       /\ \A u \in Versions :
            c.table[<<"lexical", u>>] \in {Nil, derived[<<"lexical", u>>], txn.view.table[<<"lexical", u>>]}
  BY <1>1, <1>4 DEF FormsOK, CatalogTypeOK
<1>16. place'[p] \in Owns /\ txn' \in Txn /\ txn'.by = p /\ txn'.view = c
  BY <1>2, <1>4, <1>10 DEF Owns, Builds
<1> HIDE DEF v
<1> QED BY <1>2, <1>7, <1>8, <1>9, <1>10, <1>11, <1>14, <1>15, <1>16, InsideStep

\* Each kind is built, or found sound and reused, in the tool's own view.
LEMMA BuildKindKeeps ==
  ASSUME IInv, NEW p \in Tools, BuildKind(p)
  PROVE  IInv'
<1>1. place[p] = "kinds" /\ place \in [Tools -> Labels]
  BY DEF BuildKind, At, IInv, FormsOK
<1>2. PICK k \in task[p].todo :
        \/ /\ derived[<<k, task[p].version>>] # Nil
           /\ k = "graph" => ~task[p].aged
           /\ \E sound \in BOOLEAN : Built(p, k, sound)
           /\ UNCHANGED <<storeVars, catalog, place, spent>>
        \/ /\ derived[<<k, task[p].version>>] # Nil
           /\ k = "graph" /\ task[p].aged
           /\ age' = [age EXCEPT ![task[p].version] = "partial"]
           /\ Go(p, "age")
           /\ UNCHANGED <<corpus, derived, loading, published, catalog, txn, task, spent>>
        \/ RefuseWhen(p, derived[<<k, task[p].version>>] = Nil)
  BY DEF BuildKind
<1>3. CASE /\ derived[<<k, task[p].version>>] # Nil
           /\ k = "graph" => ~task[p].aged
           /\ \E sound \in BOOLEAN : Built(p, k, sound)
           /\ UNCHANGED <<storeVars, catalog, place, spent>>
  <2>1. PICK sound \in BOOLEAN : Built(p, k, sound)
    BY <1>3
  <2>2. place' = [place EXCEPT ![p] = "kinds"]
    BY <1>1, <1>3
  <2>3. /\ corpus' = corpus /\ derived' = derived /\ loading' = loading /\ published' = published
        /\ catalog' = catalog /\ age' = age
    BY <1>3 DEF storeVars
  <2> QED BY <1>1, <1>3, <2>1, <2>2, <2>3, BuiltKeeps
<1>4. CASE /\ derived[<<k, task[p].version>>] # Nil
           /\ k = "graph" /\ task[p].aged
           /\ age' = [age EXCEPT ![task[p].version] = "partial"]
           /\ Go(p, "age")
           /\ UNCHANGED <<corpus, derived, loading, published, catalog, txn, task, spent>>
  BY <1>1, <1>4, AgeBegunKeeps DEF Go
<1>5. CASE Leave(p)
  BY <1>5, LeaveKeeps
<1> QED BY <1>2, <1>3, <1>4, <1>5 DEF RefuseWhen

\* The AGE graph that is loaded is active in neither catalog.
LEMMA LoadAgeKeeps ==
  ASSUME IInv, NEW p \in Tools, LoadAge(p)
  PROVE  IInv'
<1>1. place[p] = "age" /\ place' = [place EXCEPT ![p] = "kinds"] /\ age' = [age EXCEPT ![task[p].version] = "whole"]
      /\ corpus' = corpus /\ derived' = derived /\ loading' = loading /\ published' = published /\ catalog' = catalog
  BY DEF LoadAge, At, Go
<1>2. PICK sound \in BOOLEAN : Built(p, "graph", sound)
  BY DEF LoadAge
<1>3. "graph" \in task[p].todo /\ task[p].version \in Versions
  BY <1>1 DEF IInv, FormsOK, JobFits, Builds
<1>4. derived[<<"graph", task[p].version>>] # Nil
  BY <1>1 DEF IInv, WorkSound, GraphInput
<1>5. age'[task[p].version] = "whole"
  BY <1>1, <1>3 DEF IInv, FormsOK, CatalogTypeOK
<1> QED BY <1>1, <1>2, <1>3, <1>4, <1>5, BuiltKeeps

\* The switch is prepared for all kinds of a build in one transaction.
LEMMA ActivateKeeps ==
  ASSUME IInv, NEW p \in Tools, Activate(p)
  PROVE  IInv'
<1> DEFINE v == task[p].version
           kinds == IF task[p].activate THEN Publishable(p) ELSE {}
<1>1. FormsOK /\ place \in [Tools -> Labels] /\ task \in [Tools -> Job] /\ JobFits(p) /\ WorkSound(p) /\ StoresSound
  BY DEF IInv, FormsOK
<1>2. /\ place[p] = "kinds" /\ task[p].todo = {} /\ place' = [place EXCEPT ![p] = "drop"]
      /\ txn' = [txn EXCEPT !.view = Switched(txn.view, kinds, v)]
      /\ task' = [task EXCEPT ![p].activated = kinds # {},
                            ![p].plan = IF task[p].cleans
                                        THEN Candidates(Switched(txn.view, kinds, v), Kinds) ELSE {}]
      /\ corpus' = corpus /\ derived' = derived /\ age' = age /\ loading' = loading
      /\ published' = published /\ catalog' = catalog
  BY DEF Activate, At, Go, storeVars
<1>3. place[p] \in Owns /\ place[p] \in Builds /\ txn \in Txn /\ txn.by = p /\ txn # NoTxn
  BY <1>1, <1>2, Owner, ProjectionsAssumption DEF Owns, Builds, NoTxn
<1>4. v \in Versions /\ ~task[p].cleans /\ task[p] \in Job
  BY <1>1, <1>3 DEF JobFits
<1>5. PICK c \in Catalog : c = txn.view /\ SoundIn(c)
  BY <1>1, <1>3 DEF Txn, StoresSound
<1>6. PICK some \in SUBSET Kinds : some = kinds /\ (some # {} => task[p].sound /\ some = task[p].kinds)
  BY <1>4 DEF Publishable, PublishableAll, Job
<1>7. \A k \in some : Stands(c, k, v)
  BY <1>1, <1>2, <1>3, <1>5, <1>6 DEF WorkSound, BuiltStands
<1>8. PICK s : s = Switched(c, some, v)
  OBVIOUS
<1>9. s \in Catalog /\ s.table = c.table /\ SoundIn(s) /\ (\A k \in some : s.active[k] = v) /\ (some = {} => s = c)
  <2> HIDE DEF v
  <2> QED BY <1>4, <1>5, <1>7, <1>8, SwitchedAll
<1>10. txn' = [txn EXCEPT !.view = s]
  BY <1>2, <1>5, <1>6, <1>8
<1>11. txn' \in Txn /\ txn'.by = p /\ txn'.view = s
  BY <1>3, <1>9, <1>10 DEF Txn
<1>12. PICK j \in Job :
         /\ j = [task[p] EXCEPT !.activated = some # {}, !.plan = {}]
         /\ j.what = task[p].what /\ j.version = v /\ j.kinds = task[p].kinds /\ j.dbt = task[p].dbt
         /\ ~j.cleans /\ j.todo = {} /\ j.plan = {}
  <2>1. PICK o \in Job : o = task[p] /\ ~o.cleans /\ o.version = v /\ o.todo = {}
    BY <1>2, <1>4
  <2>2. PICK b \in BOOLEAN : b = (some # {})
    OBVIOUS
  <2>3. PICK j \in Job : /\ j = [o EXCEPT !.activated = b, !.plan = {}]
                         /\ j.what = o.what /\ j.version = o.version /\ j.kinds = o.kinds /\ j.dbt = o.dbt
                         /\ j.cleans = o.cleans /\ j.todo = o.todo /\ j.plan = {}
    <3>1. [o EXCEPT !.activated = b, !.plan = {}] \in Job
      BY DEF Job
    <3> QED BY <3>1 DEF Job
  <2>4. j = [task[p] EXCEPT !.activated = some # {}, !.plan = {}]
    BY <2>1, <2>2, <2>3
  <2> QED BY <2>1, <2>3, <2>4
<1>13. task' = [task EXCEPT ![p] = j]
  BY <1>1, <1>2, <1>4, <1>6, <1>12
<1>14. /\ place' \in [Tools -> Labels] /\ task' \in [Tools -> Job] /\ place'[p] = "drop" /\ task'[p] = j
       /\ \A q \in Tools \ {p} : place'[q] = place[q] /\ task'[q] = task[q]
  BY <1>1, <1>2, <1>13 DEF Labels
<1>15. SoundIn(s)' /\ SoundIn(catalog)'
  BY <1>1, <1>2, <1>9 DEF StoresSound, SoundIn, ActiveStand, RowsMatch, Stands
<1>16. JobFits(p)'
  BY <1>1, <1>12, <1>14 DEF JobFits, Builds, Loads
<1>17. BuildApart(p)' /\ GraphInput(p)' /\ BuiltStands(p)' /\ DropApart(p)'
  BY <1>12, <1>14 DEF BuildApart, GraphInput, BuiltStands, DropApart, Builds
<1>18. SwitchTold(p)'
  <2>1. CASE some = {}
    <3>1. s.active = catalog.active
      BY <2>1, <1>1, <1>3, <1>5, <1>9 DEF WorkSound, BuildApart
    <3> QED BY <3>1, <1>2, <1>11 DEF SwitchTold
  <2>2. CASE some # {}
    <3>1. \A k \in j.kinds : s.active[k] = j.version
      BY <2>2, <1>6, <1>9, <1>12
    <3> QED BY <3>1, <1>11, <1>14 DEF SwitchTold
  <2> QED BY <2>1, <2>2
<1>19. LoadAlone(p)'
  BY <1>1, <1>2, <1>5, <1>9, <1>11, <1>12, <1>14 DEF WorkSound, LoadAlone, Fresh, Text
<1>20. WorkSound(p)'
  BY <1>17, <1>18, <1>19 DEF WorkSound
<1>21. /\ derived' \in [Target -> (SUBSET Ids) \cup {Nil}] /\ age' \in [Versions -> {"absent", "partial", "whole"}]
       /\ \A u \in Versions : derived'[<<"lexical", u>>] \in {derived[<<"lexical", u>>], corpus["lexical"]}
       /\ \A u \in Versions :
            s.table[<<"lexical", u>>] \in {Nil, derived[<<"lexical", u>>], txn.view.table[<<"lexical", u>>]}
  BY <1>1, <1>2, <1>5, <1>9 DEF FormsOK, CatalogTypeOK
<1>22. place'[p] \in Owns
  BY <1>14 DEF Owns, Builds
<1> HIDE DEF v, kinds
<1> QED BY <1>2, <1>3, <1>9, <1>11, <1>14, <1>15, <1>16, <1>20, <1>21, <1>22, InsideStep

\* What a clean-up drops is active in neither catalog.
LEMMA DropKeeps ==
  ASSUME IInv, NEW p \in Tools, Drop(p)
  PROVE  IInv'
<1>1. place[p] = "drop" /\ UNCHANGED <<corpus, derived, loading, published, catalog, place, spent>>
  BY DEF Drop, At
<1>2. PICK t \in task[p].plan :
        /\ txn' = [txn EXCEPT !.view.table[t] = Nil, !.view.row[t].status = "dropped"]
        /\ age' = IF t[1] = "graph" /\ task[p].aged THEN [age EXCEPT ![t[2]] = "absent"] ELSE age
        /\ task' = [task EXCEPT ![p].plan = @ \ {t}]
  BY DEF Drop
<1>3. FormsOK /\ place \in [Tools -> Labels] /\ task \in [Tools -> Job] /\ JobFits(p) /\ WorkSound(p) /\ StoresSound
  BY DEF IInv, FormsOK
<1>4. place[p] \in Owns /\ place[p] \notin Builds /\ txn \in Txn /\ txn.by = p /\ txn # NoTxn
  BY <1>1, <1>3, Owner, ProjectionsAssumption DEF Owns, Builds, NoTxn
<1>5. t \in Target /\ t[1] \in Kinds /\ t[2] \in Versions
  BY <1>3, Targets DEF Job
<1>6. PICK c \in Catalog : c = txn.view /\ SoundIn(c)
  BY <1>3, <1>4 DEF Txn, StoresSound
<1>7. PICK d \in Catalog : d = catalog /\ SoundIn(d)
  BY <1>3 DEF FormsOK, CatalogTypeOK, StoresSound
<1>8. c.active[t[1]] # t[2] /\ d.active[t[1]] # t[2]
  BY <1>1, <1>3, <1>6, <1>7 DEF WorkSound, DropApart
<1>9. PICK s : s = Without(c, t)
  OBVIOUS
<1>10. /\ s \in Catalog /\ s.active = c.active /\ s.table[t] = Nil
       /\ \A u \in Target \ {t} : s.table[u] = c.table[u] /\ s.row[u] = c.row[u]
       /\ SoundIn(s)
  BY <1>5, <1>6, <1>8, <1>9, DroppedSound
<1>11. txn' = [txn EXCEPT !.view = s]
  BY <1>2, <1>4, <1>6, <1>9 DEF Without, Txn
<1>12. txn' \in Txn /\ txn'.by = p /\ txn'.view = s
  BY <1>4, <1>10, <1>11 DEF Txn
<1>13. /\ age' \in [Versions -> {"absent", "partial", "whole"}]
       /\ \A u \in Versions \ {t[2]} : age'[u] = age[u]
       /\ age' = age \/ t[1] = "graph"
  BY <1>2, <1>3, <1>5 DEF FormsOK, CatalogTypeOK
<1>14. SoundIn(s)' /\ SoundIn(d)'
  <2>1. age' = age \/ s.active["graph"] # t[2]
    BY <1>8, <1>10, <1>13
  <2>2. age' = age \/ d.active["graph"] # t[2]
    BY <1>8, <1>13
  <2>3. PICK v \in Versions : v = t[2]
    BY <1>5
  <2> QED BY <2>1, <2>2, <2>3, <1>7, <1>10, <1>13, AgeElsewhere
<1>15. SoundIn(catalog)'
  BY <1>1, <1>7, <1>14 DEF SoundIn, ActiveStand, RowsMatch, Stands
<1>16. PICK j \in Job :
         /\ j = [task[p] EXCEPT !.plan = @ \ {t}] /\ j.plan \subseteq task[p].plan
         /\ j.what = task[p].what /\ j.version = task[p].version /\ j.kinds = task[p].kinds /\ j.dbt = task[p].dbt
         /\ ~j.cleans /\ j.todo = task[p].todo
  <2>1. PICK o \in Job : o = task[p] /\ ~o.cleans
    BY <1>3 DEF JobFits
  <2>2. PICK plan \in SUBSET Target : plan = o.plan \ {t}
    BY DEF Job
  <2>3. PICK j \in Job : /\ j = [o EXCEPT !.plan = plan]
                         /\ j.what = o.what /\ j.version = o.version /\ j.kinds = o.kinds /\ j.dbt = o.dbt
                         /\ j.cleans = o.cleans /\ j.todo = o.todo /\ j.plan = plan
    <3>1. [o EXCEPT !.plan = plan] \in Job
      BY DEF Job
    <3> QED BY <3>1 DEF Job
  <2>4. j = [task[p] EXCEPT !.plan = @ \ {t}]
    BY <2>1, <2>2, <2>3
  <2> QED BY <2>1, <2>2, <2>3, <2>4
<1>17. task' = [task EXCEPT ![p] = j]
  BY <1>2, <1>3, <1>16
<1>18. /\ place' \in [Tools -> Labels] /\ task' \in [Tools -> Job] /\ place'[p] = "drop" /\ task'[p] = j
       /\ \A q \in Tools \ {p} : place'[q] = place[q] /\ task'[q] = task[q]
  BY <1>1, <1>3, <1>17
<1>19. JobFits(p)'
  BY <1>1, <1>3, <1>16, <1>18 DEF JobFits, Builds, Loads
<1>20. BuildApart(p)' /\ GraphInput(p)' /\ BuiltStands(p)'
  BY <1>18 DEF BuildApart, GraphInput, BuiltStands, Builds
<1>21. DropApart(p)' /\ SwitchTold(p)'
  BY <1>1, <1>3, <1>6, <1>10, <1>12, <1>16, <1>18 DEF WorkSound, DropApart, SwitchTold
<1>22. LoadAlone(p)'
  <2> SUFFICES ASSUME task[p].what = "load"
               PROVE  /\ loading = p /\ corpus["lexical"] = Snapshot(j.version)
                      /\ derived[<<"lexical", j.version>>] = Snapshot(j.version)
                      /\ s.table[<<"lexical", j.version>>] \in {Nil, Snapshot(j.version)}
    BY <1>1, <1>12, <1>16, <1>18 DEF LoadAlone, Fresh, Text
  <2>1. /\ loading = p /\ corpus["lexical"] = Snapshot(j.version)
        /\ derived[<<"lexical", j.version>>] = Snapshot(j.version)
        /\ c.table[<<"lexical", j.version>>] \in {Nil, Snapshot(j.version)}
    BY <1>1, <1>3, <1>6, <1>16 DEF WorkSound, LoadAlone, Fresh, Text, JobFits
  <2>2. CASE <<"lexical", j.version>> = t
    BY <2>1, <2>2, <1>10
  <2>3. CASE <<"lexical", j.version>> \in Target \ {t}
    BY <2>1, <2>3, <1>10
  <2>4. j.version \in Versions
    BY <1>3, <1>16 DEF JobFits
  <2> QED BY <2>1, <2>2, <2>3, <2>4, Targets DEF Kinds
<1>23. WorkSound(p)'
  BY <1>20, <1>21, <1>22 DEF WorkSound
<1>24. /\ derived' \in [Target -> (SUBSET Ids) \cup {Nil}]
       /\ \A u \in Versions : derived'[<<"lexical", u>>] \in {derived[<<"lexical", u>>], corpus["lexical"]}
       /\ \A u \in Versions :
            s.table[<<"lexical", u>>] \in {Nil, derived[<<"lexical", u>>], txn.view.table[<<"lexical", u>>]}
  BY <1>1, <1>3, <1>6, <1>10, Targets DEF FormsOK, CatalogTypeOK, Kinds
<1>25. place'[p] \in Owns
  BY <1>18 DEF Owns, Builds
<1> QED BY <1>1, <1>4, <1>10, <1>12, <1>13, <1>14, <1>15, <1>18, <1>19, <1>23, <1>24, <1>25, InsideStep

\* The transaction ends: what it saw is the catalog now.
LEMMA CommitKeeps ==
  ASSUME IInv, NEW p \in Tools, CommitBuild(p)
  PROVE  IInv'
<1>1. /\ place[p] = "drop" /\ catalog' = txn.view /\ txn' = NoTxn
      /\ corpus' = corpus /\ derived' = derived /\ age' = age /\ published' = published
      /\ \/ task[p].what = "load" /\ place' = [place EXCEPT ![p] = "verify"] /\ loading' = loading /\ task' = task
         \/ /\ place' = [place EXCEPT ![p] = "idle"] /\ task' = [task EXCEPT ![p] = NoTask]
            /\ loading' = IF loading = p THEN Nil ELSE loading
  BY DEF CommitBuild, At, Go, Finish
<1>2. FormsOK /\ place \in [Tools -> Labels] /\ task \in [Tools -> Job] /\ JobFits(p) /\ WorkSound(p) /\ StoresSound
  BY DEF IInv, FormsOK
<1>3. txn \in Txn /\ txn.by = p /\ txn # NoTxn
  BY <1>1, <1>2, Owner, ProjectionsAssumption DEF Owns, NoTxn
<1>4. catalog' \in Catalog
  BY <1>1, <1>3 DEF Txn
<1>5. /\ place' \in [Tools -> Labels] /\ task' \in [Tools -> Job]
      /\ \A q \in Tools \ {p} : place'[q] = place[q] /\ task'[q] = task[q]
  BY <1>1, <1>2, NoJobIsJob DEF Labels
<1>6. CatalogTypeOK'
  BY <1>1, <1>2, <1>4 DEF FormsOK, CatalogTypeOK, Catalog, Row, Target
<1>7. \/ task[p].what = "load" /\ place'[p] = "verify" /\ task'[p] = task[p] /\ loading' = loading
      \/ place'[p] = "idle" /\ task'[p] = NoTask
  BY <1>1, <1>2
<1>8. JobFits(p)'
  <2>1. CASE task[p].what = "load" /\ place'[p] = "verify" /\ task'[p] = task[p]
    <3>1. task[p].version \in Versions
      BY <2>1, <1>1, <1>2 DEF JobFits
    <3> QED BY <2>1, <3>1, <1>2 DEF JobFits, Builds, Loads
  <2>2. CASE place'[p] = "idle" /\ task'[p] = NoTask
    BY <2>2, NoJobIsJob DEF JobFits, Builds, Loads
  <2> QED BY <2>1, <2>2, <1>7
<1>9. OwnerInside(p)'
  BY <1>1, <1>7, ProjectionsAssumption DEF OwnerInside, Mine, NoTxn, Owns, Builds
<1>10. txn'.by = Nil
  BY <1>1 DEF NoTxn
<1>11. FormsOK'
  BY <1>1, <1>2, <1>3, <1>5, <1>6, <1>8, <1>9, <1>10, FormsKeep
<1>12. StoresSound'
  BY <1>1, <1>2, <1>3 DEF StoresSound, SoundIn, ActiveStand, RowsMatch, Stands
<1>13. BuildApart(p)' /\ GraphInput(p)' /\ BuiltStands(p)' /\ DropApart(p)' /\ SwitchTold(p)'
  BY <1>7 DEF BuildApart, GraphInput, BuiltStands, DropApart, SwitchTold, Builds
<1>14. LoadAlone(p)'
  <2>1. CASE task[p].what = "load" /\ place'[p] = "verify" /\ task'[p] = task[p] /\ loading' = loading
    <3>1. "lexical" \notin task[p].todo
      BY <1>1, <1>2 DEF JobFits
    <3> QED BY <2>1, <3>1, <1>1, <1>2 DEF WorkSound, LoadAlone, Fresh, Text
  <2>2. CASE place'[p] = "idle" /\ task'[p] = NoTask
    BY <2>2, NoJobIsJob DEF LoadAlone
  <2> QED BY <2>1, <2>2, <1>7
<1>15. WorkSound(p)'
  BY <1>13, <1>14 DEF WorkSound
<1>16. ASSUME NEW q \in Tools \ {p} PROVE WorkSound(q)'
  <2>1. place[q] \notin Owns /\ WorkSound(q)
    BY <1>1, <1>2, Owner DEF IInv, Owns
  <2>2. loading = q => loading' = q /\ corpus'["lexical"] = corpus["lexical"]
    BY <1>1
  <2>3. place'[q] = place[q] /\ task'[q] = task[q]
    BY <1>5
  <2>4. \A v \in Versions : derived'[<<"lexical", v>>] \in {derived[<<"lexical", v>>], corpus["lexical"]}
    BY <1>1
  <2>5. \A v \in Versions : txn # NoTxn /\ catalog'.table[<<"lexical", v>>] = txn.view.table[<<"lexical", v>>]
    BY <1>1, <1>3
  <2>6. ~(txn' # NoTxn)
    BY <1>1
  <2>7. FormsOK
    BY <1>2
  <2> QED BY <2>1, <2>2, <2>3, <2>4, <2>5, <2>6, <2>7, OutsideKeeps
<1> QED BY <1>11, <1>12, <1>15, <1>16 DEF IInv

-----------------------------------------------------------------------------
(***************************************************************************)
(* The theorems                                                            *)
(***************************************************************************)
\* The invariant holds in an empty deployment.
LEMMA Initially ==
  ProjectionsInit => IInv
<1> SUFFICES ASSUME ProjectionsInit PROVE IInv
  OBVIOUS
<1>1. /\ corpus = [k \in Kinds |-> IF k = "graph" THEN Ids ELSE {}]
      /\ derived = [t \in Target |-> Nil] /\ age = [v \in Versions |-> "absent"]
      /\ txn = NoTxn /\ loading = Nil /\ published = {}
      /\ place = [p \in Tools |-> "idle"] /\ task = [p \in Tools |-> NoTask]
  BY DEF ProjectionsInit
<1>2. /\ catalog.row = [t \in Target |-> NoRow] /\ catalog.active = [k \in Kinds |-> Nil]
      /\ catalog.table = [t \in Target |-> Nil]
      /\ catalog = [row |-> [t \in Target |-> NoRow], active |-> [k \in Kinds |-> Nil],
                    table |-> [t \in Target |-> Nil]]
  BY DEF ProjectionsInit
<1>3. NoRow \in Row /\ NoRow.status # "active"
  BY DEF NoRow, Row
<1>4. catalog \in Catalog
  BY <1>2, <1>3 DEF Catalog
<1>5. CatalogTypeOK
  BY <1>1, <1>4 DEF CatalogTypeOK
<1>6. ASSUME NEW p \in Tools PROVE JobFits(p) /\ OwnerInside(p) /\ WorkSound(p)
  <2>1. place[p] = "idle" /\ task[p] = NoTask
    BY <1>1
  <2>2. JobFits(p)
    BY <2>1, NoJobIsJob DEF JobFits, Builds, Loads
  <2>3. OwnerInside(p)
    BY <1>1, <2>1, ProjectionsAssumption DEF OwnerInside, Mine, NoTxn, Owns, Builds
  <2>4. WorkSound(p)
    BY <2>1, NoJobIsJob DEF WorkSound, BuildApart, GraphInput, BuiltStands, DropApart, SwitchTold, LoadAlone, Builds
  <2> QED BY <2>2, <2>3, <2>4
<1>7. FormsOK
  BY <1>1, <1>5, <1>6, NoJobIsJob DEF FormsOK, Labels
<1>8. StoresSound
  <2>1. ActiveStand(catalog)
    BY <1>2 DEF ActiveStand
  <2>2. ASSUME NEW t \in Target PROVE ~(catalog.row[t].status = "active") /\ catalog.active[t[1]] # t[2]
    BY <1>2, <1>3, Targets, ProjectionsAssumption
  <2>3. RowsMatch(catalog)
    BY <2>2 DEF RowsMatch
  <2> QED BY <2>1, <2>3, <1>1 DEF StoresSound, SoundIn
<1> QED BY <1>6, <1>7, <1>8 DEF IInv

\* Every step of the tools, and a death anywhere, keeps the invariant.
LEMMA Inductive ==
  ASSUME NeverCleans, IInv, [ProjectionsNext]_projectionVars
  PROVE  IInv'
<1>1. CASE ProjectionsNext
  <2>1. PICK p \in Tools : Step(p)
    BY <1>1 DEF ProjectionsNext
  <2>2. CASE StartBuild(p)
    BY <2>2, StartBuildKeeps
  <2>3. CASE StartCleanup(p)
    BY <2>3, StartCleanupKeeps
  <2>4. CASE StartLoad(p)
    BY <2>4, StartLoadKeeps
  <2>5. CASE Fault(p)
    BY <2>5, LeaveKeeps DEF Fault
  <2>6. CASE Begin(p)
    BY <2>6, BeginKeeps
  <2>7. CASE Inputs(p)
    BY <2>7, InputsKeeps
  <2>8. CASE BuildKind(p)
    BY <2>8, BuildKindKeeps
  <2>9. CASE LoadAge(p)
    BY <2>9, LoadAgeKeeps
  <2>10. CASE Activate(p)
    BY <2>10, ActivateKeeps
  <2>11. CASE Drop(p)
    BY <2>11, DropKeeps
  <2>12. CASE CommitBuild(p)
    BY <2>12, CommitKeeps
  <2>13. CASE Store(p)
    BY <2>13, StoreKeeps
  <2>14. CASE Verify(p)
    BY <2>14, VerifyKeeps
  <2>15. CASE ReadTarget(p)
    BY <2>15, ReadTargetKeeps
  <2>16. CASE Summarize(p)
    BY <2>16, SummarizeKeeps
  <2> QED BY <2>1, <2>2, <2>3, <2>4, <2>5, <2>6, <2>7, <2>8, <2>9, <2>10, <2>11, <2>12,
             <2>13, <2>14, <2>15, <2>16 DEF Step
<1>2. CASE UNCHANGED projectionVars
  <2>1. UNCHANGED <<corpus, derived, age, loading, published, catalog, txn, place, task, spent>>
    BY <1>2 DEF projectionVars, storeVars
  <2>2. FormsOK'
    BY <2>1 DEF IInv, FormsOK, CatalogTypeOK, Catalog, Row, Target, Txn, JobFits, OwnerInside, Mine
  <2>3. StoresSound'
    BY <2>1 DEF IInv, StoresSound, SoundIn, ActiveStand, RowsMatch, Stands
  <2>4. ASSUME NEW p \in Tools
        PROVE  WorkSound(p)'
    <3>1. BuildApart(p)' /\ GraphInput(p)' /\ DropApart(p)'
      BY <2>1, <2>4 DEF IInv, WorkSound, BuildApart, GraphInput, DropApart, Stands, Text
    <3>2. BuiltStands(p)'
      BY <2>1, <2>4 DEF IInv, WorkSound, BuiltStands, Stands, Text
    <3>3. SwitchTold(p)'
      BY <2>1, <2>4 DEF IInv, WorkSound, SwitchTold, Text
    <3>4. LoadAlone(p)'
      BY <2>1, <2>4 DEF IInv, WorkSound, LoadAlone, Fresh, Text
    <3> QED BY <3>1, <3>2, <3>3, <3>4 DEF WorkSound
  <2> QED BY <2>2, <2>3, <2>4 DEF IInv
<1> QED BY <1>1, <1>2

\* The inductive invariant: between its commits a tool prepares in its own
\* view a catalog that is as sound as the committed one, and it only touches
\* AGE graphs that are active in neither.
THEOREM Invariance ==
  ASSUME NeverCleans
  PROVE  ProjectionsSpec => []IInv
<1>1. IInv /\ [ProjectionsNext]_projectionVars => IInv'
  BY Inductive
<1> QED BY <1>1, Initially, PTL DEF ProjectionsSpec

\* After any build, switch, clean-up, rollback or death the catalog names as
\* active what is there and whole, and its rows say the same: the pointers,
\* registry rows, search tables and AGE graphs of stores/projections agree.
THEOREM CatalogIsSound ==
  ASSUME NeverCleans
  PROVE  ProjectionsSpec => []CatalogSound
<1>1. ASSUME IInv PROVE CatalogSound
  <2>1. CatalogTypeOK /\ SoundIn(catalog)
    BY <1>1 DEF IInv, FormsOK, StoresSound
  <2> QED BY <2>1 DEF CatalogSound, ActiveIsWhole, PointersMatchRows, SoundIn, ActiveStand, RowsMatch, Stands
<1>2. IInv => CatalogSound
  BY <1>1
<1> QED BY <1>2, Invariance, PTL

\* The pointers of one build switch together or not at all (switch_active for
\* each kind of the build, in one transaction).
THEOREM PointersSwitchTogether ==
  ASSUME NeverCleans
  PROVE  ProjectionsSpec => SwitchesTogether
<1> DEFINE Together == \A p \in Tools :
                         catalog'.active # catalog.active /\ Mine(p) =>
                           \A k \in task[p].kinds : catalog'.active[k] = task[p].version
<1>1. ASSUME IInv, [ProjectionsNext]_projectionVars PROVE [Together]_projectionVars
  <2>1. ASSUME NEW p \in Tools, Step(p), NEW q \in Tools, catalog'.active # catalog.active, Mine(q)
        PROVE  \A k \in task[q].kinds : catalog'.active[k] = task[q].version
    <3>1. CommitBuild(p)
      BY <2>1 DEF Step, StartBuild, StartCleanup, StartLoad, Fault, Begin, Inputs, BuildKind, LoadAge, Activate,
                  Drop, Store, Verify, ReadTarget, Summarize, RefuseWhen, Leave, storeVars
    <3>2. place[p] = "drop" /\ catalog' = txn.view
      BY <3>1 DEF CommitBuild, At
    <3>3. p = q
      BY <2>1, <3>2, <1>1, Owner DEF IInv, Mine, Owns
    <3> QED BY <2>1, <3>2, <3>3, <1>1 DEF IInv, WorkSound, SwitchTold
  <2>2. ProjectionsNext => Together
    BY <2>1 DEF ProjectionsNext
  <2> QED BY <1>1, <2>2
<1>2. IInv /\ [ProjectionsNext]_projectionVars => [Together]_projectionVars
  BY <1>1
<1> QED BY <1>2, Invariance, PTL DEF ProjectionsSpec, SwitchesTogether

\* What a load verifies after its commit is its snapshot, or was cleaned up:
\* the advisory lock of load-lexical keeps every other load out until then.
THEOREM LoadIsReconciled ==
  ASSUME NeverCleans
  PROVE  ProjectionsSpec => []LoadReconciles
<1>1. ASSUME IInv PROVE LoadReconciles
  <2>1. ASSUME NEW p \in Tools, place[p] = "verify"
        PROVE  /\ corpus.lexical = Snapshot(task[p].version)
               /\ catalog.table[<<"lexical", task[p].version>>] \in {Nil, Snapshot(task[p].version)}
    <3>1. task[p].what = "load" /\ LoadAlone(p)
      BY <1>1, <2>1 DEF IInv, FormsOK, JobFits, Loads, WorkSound
    <3> QED BY <2>1, <3>1 DEF LoadAlone, Fresh, Text
  <2> QED BY <2>1 DEF LoadReconciles, At
<1>2. IInv => LoadReconciles
  BY <1>1
<1> QED BY <1>2, Invariance, PTL

=============================================================================
