--------------------------- MODULE PlanIntegrity ---------------------------
(***************************************************************************)
(* The gate on the plan of the project itself (quality/plan) : the tasks  *)
(* that are open, the records of accepted ones, and the capabilities both  *)
(* serve.  A task has prerequisites, a review checkpoint and audit notes   *)
(* that it takes over; of the documents only what is parsed is kept.       *)
(***************************************************************************)
EXTENDS Calls, Integers, FiniteSets, SequencesExt

\* A finding: the set of names it is about, and what is wrong with them.
Complaint(names, what) == [where |-> names, what |-> what]
Find(condition, name, what) == IF condition THEN {Complaint({name}, what)} ELSE {}

-----------------------------------------------------------------------------
(* plan_graph.py: prerequisites, checkpoints and audit notes.              *)

TaskIds(tasks) == {t.id : t \in ToSet(tasks)}
\* blocking_prerequisites: tasks that are open, named and not by a condition.
Blocking(task, tasks) ==
  {r.id : r \in {x \in task.needs : x.kind = "task" /\ ~x.conditional}} \cap (TaskIds(tasks) \ {task.id})

\* _reference_failure.
ReferenceFails(reference, task, tasks, records) ==
  LET accepted == reference.id \in DOMAIN records /\ records[reference.id].accepted
  IN  \/ reference.id = task.id
      \/ ~accepted /\ (reference.kind = "record" \/ reference.id \notin TaskIds(tasks))

OnPath(walk, node, path) ==
  IF Contains(path, node)
  THEN [walk EXCEPT !.cycles = @ \cup {ToSet(SubSeq(path, CHOOSE k \in DOMAIN path : path[k] = node, Len(path)))}]
  ELSE walk
\* _cycles: depth first; a node on the path closes a cycle, and one that has
\* been visited is not entered again.  What a task waits for is taken in the
\* order of the plan.
RECURSIVE Descend(_, _, _, _, _)
Descend(walk, node, path, edges, order) ==
  IF Contains(path, node) \/ node \in walk.visited THEN OnPath(walk, node, path)
  ELSE FoldLeft(LAMBDA w, next : Descend(w, next, Append(path, node), edges, order),
                [walk EXCEPT !.visited = @ \cup {node}],
                SelectSeq(order, LAMBDA next : next \in edges[node]))
Cycles(order, edges) ==
  FoldLeft(LAMBDA w, node : Descend(w, node, << >>, edges, order), [cycles |-> {}, visited |-> {}], order).cycles

DependencyFindings(tasks, records) ==
  LET ids == [k \in DOMAIN tasks |-> tasks[k].id]
      edges == [id \in TaskIds(tasks) |-> Blocking(CHOOSE t \in ToSet(tasks) : t.id = id, tasks)]
  IN  UNION {UNION {Find(ReferenceFails(r, t, tasks, records), t.id, "dependency") : r \in t.needs} : t \in ToSet(tasks)}
      \cup {Complaint(cycle, "cycle") : cycle \in Cycles(ids, edges)}

\* checkpoint_findings.
KnownCheckpoints(tasks, records) ==
  {t.id : t \in {x \in ToSet(tasks) : x.checkpoint}}
  \cup {r \in DOMAIN records : records[r].accepted /\ records[r].snapshot = "checkpoint"}
CheckpointFindings(tasks, records) ==
  UNION {Find(t.review # "none" /\ t.review \notin KnownCheckpoints(tasks, records), t.id, "checkpoint") : t \in ToSet(tasks)}

\* note_findings: claims that name nothing, and notes that nobody claims.
NoteFindings(tasks, records) ==
  LET claims == UNION {t.claims : t \in ToSet(tasks)}
      declared(c) == c[1] \in DOMAIN records /\ c[2] \in DOMAIN records[c[1]].notes
  IN  UNION {UNION {Find(~declared(c), t.id, "claim") : c \in t.claims} : t \in ToSet(tasks)}
      \cup UNION {UNION {Find(~records[r].notes[n].resolved /\ <<r, n>> \notin claims, r, "unclaimed")
                    : n \in DOMAIN records[r].notes} : r \in DOMAIN records}

-----------------------------------------------------------------------------
(* plan_records.py: what a record must carry to stand in for its task.     *)

\* _accepted_findings; the snapshot may be of the task, of a checkpoint, of
\* another task, declared unavailable, or missing.
AcceptedFindings(id, record) ==
  Find(record.snapshot \in {"missing", "foreign"}, id, "snapshot")
  \cup Find(record.evidence = 0, id, "evidence")
  \cup Find(record.notes = << >> /\ ~record.declaresNone, id, "handoff")
  \cup Find(record.snapshot = "checkpoint" /\ ~record.verdicts, id, "verdict")
RecordFindings(records) ==
  UNION {Find(~records[r].indexed, r, "index")
         \cup UNION {Find(~records[r].notes[n].owned, r, "owner") : n \in DOMAIN records[r].notes}
         \cup (IF records[r].accepted THEN AcceptedFindings(r, records[r]) ELSE {}) : r \in DOMAIN records}

-----------------------------------------------------------------------------
(* plan_integrity.py: capabilities, lanes and their order.                 *)

PlanLanes == {"agent", "human"}
RegistryFindings(capabilities, tasks) ==
  UNION {Find(c.status = "planned" /\ c.id \notin {t.group : t \in ToSet(tasks)}, c.id, "unserved") : c \in ToSet(capabilities)}
TaskFindings(capabilities, tasks) ==
  UNION {Find(\E j \in 1 .. k - 1 : tasks[j].id = tasks[k].id, tasks[k].id, "duplicate")
         \cup Find(tasks[k].group \notin {c.id : c \in ToSet(capabilities)}, tasks[k].id, "capability") : k \in DOMAIN tasks}

\* _section_order_findings and _optional_order_findings: the groups of a lane,
\* each where it is first met, follow the registry; in a group what is
\* optional comes last.
GroupsOf(tasks, lane) ==
  LET ofLane == SelectSeq(tasks, LAMBDA t : t.lane = lane)
  IN  FoldLeft(LAMBDA seen, t : IF Contains(seen, t.group) THEN seen ELSE Append(seen, t.group), << >>, ofLane)
RankOf(capabilities, group) == CHOOSE k \in DOMAIN capabilities : capabilities[k].id = group
OrderFindings(capabilities, tasks) ==
  LET registered == {c.id : c \in ToSet(capabilities)}
      ranks(lane) == LET groups == SelectSeq(GroupsOf(tasks, lane), LAMBDA g : g \in registered)
                     IN  [k \in DOMAIN groups |-> RankOf(capabilities, groups[k])]
      late(k) == \E j \in 1 .. k - 1 : tasks[j].lane = tasks[k].lane /\ tasks[j].group = tasks[k].group /\ tasks[j].optional
  IN  UNION {Find(\E j, k \in DOMAIN ranks(lane) : j < k /\ ranks(lane)[j] > ranks(lane)[k], lane, "order") : lane \in PlanLanes}
      \cup UNION {Find(~tasks[k].optional /\ late(k), tasks[k].id, "optional") : k \in DOMAIN tasks}

\* integrity_findings.
IntegrityFindings(capabilities, tasks, records) ==
  RegistryFindings(capabilities, tasks) \cup TaskFindings(capabilities, tasks) \cup OrderFindings(capabilities, tasks)
  \cup DependencyFindings(tasks, records) \cup CheckpointFindings(tasks, records)
  \cup NoteFindings(tasks, records) \cup RecordFindings(records)

\* _next_task: of the tasks of a lane that are ready, the first one by
\* capability, required before optional, in the order of the plan ({}: none is).
NextTask(capabilities, tasks, lane) ==
  LET ready == {k \in DOMAIN tasks : tasks[k].lane = lane /\ Blocking(tasks[k], tasks) = {}}
      before(j, k) == LET r(i) == RankOf(capabilities, tasks[i].group)
                      IN  \/ r(j) < r(k)
                          \/ r(j) = r(k) /\ ~tasks[j].optional /\ tasks[k].optional
                          \/ r(j) = r(k) /\ tasks[j].optional = tasks[k].optional /\ j <= k
  IN  IF ready = {} THEN {} ELSE {tasks[CHOOSE j \in ready : \A k \in ready : before(j, k)].id}
\* summary_lines: of a plan that is valid only.
Summary(capabilities, tasks, findings) ==
  [lane \in PlanLanes |-> IF findings = {} THEN NextTask(capabilities, tasks, lane) ELSE {}]

AskPlanIntegrity(capabilities, tasks, records) ==
  LET findings == IntegrityFindings(capabilities, tasks, records)
  IN  Ask([op |-> "plan integrity", capabilities |-> capabilities, tasks |-> tasks, records |-> records,
           findings |-> findings, next |-> Summary(capabilities, tasks, findings)])

-----------------------------------------------------------------------------
(* parse_fields: lines of a task, each a field, a text, blank or a heading.*)

FieldsState == [fields |-> << >>, repeated |-> {}, key |-> "none"]
FieldLine(state, line) ==
  IF line.kind = "field"
  THEN IF line.key \in DOMAIN state.fields
       THEN [state EXCEPT !.repeated = @ \cup {line.key}, !.key = line.key]
       ELSE [state EXCEPT !.fields = [k \in DOMAIN @ \cup {line.key} |-> IF k = line.key THEN <<line.n>> ELSE @[k]], !.key = line.key]
  ELSE IF state.key \in state.repeated \cup {"none"} THEN state
  ELSE IF line.kind \in {"blank", "heading"} THEN [state EXCEPT !.key = "none"]
  ELSE [state EXCEPT !.fields[state.key] = Append(@, line.n)]
ParseFields(lines) == FoldLeft(FieldLine, FieldsState, lines)

AskFields(lines) == Ask([op |-> "fields", lines |-> lines, parsed |-> ParseFields(lines)])

-----------------------------------------------------------------------------
(* A plan without findings can be worked off: its open tasks can be done   *)
(* in some order in which what each needs is done before it or is an       *)
(* accepted record, with evidence and a handoff; what each is reviewed by  *)
(* exists; no unresolved audit note of a record is left without a task; and*)
(* as long as tasks are open some lane has a next one.                     *)
PlanIsWorkable ==
  call.op = "plan integrity" /\ call.findings = {} =>
    LET tasks == ToSet(call.tasks)
        backed(id) == /\ id \in DOMAIN call.records /\ call.records[id].accepted /\ call.records[id].evidence > 0
                      /\ call.records[id].snapshot \notin {"missing", "foreign"}
        hard(t) == {r \in t.needs : ~r.conditional}
    IN  /\ \E order \in SetToSeqs(tasks) :
             \A k \in DOMAIN order : \A r \in hard(order[k]) : backed(r.id) \/ \E j \in 1 .. k - 1 : order[j].id = r.id
        /\ \A t \in tasks :
             \/ t.review = "none" \/ \E u \in tasks : u.id = t.review /\ u.checkpoint
             \/ (backed(t.review) /\ call.records[t.review].verdicts)
        /\ \A r \in DOMAIN call.records : \A n \in DOMAIN call.records[r].notes :
             call.records[r].notes[n].resolved \/ \E t \in tasks : <<r, n>> \in t.claims
        /\ tasks # {} => \E lane \in PlanLanes : call.next[lane] # {}

(* Every cycle that is told is one: each of its tasks waits for another of *)
(* them and is waited for, so none of them is only on the way to it.       *)
CyclesAreReal ==
  call.op = "plan integrity" =>
    LET tasks == ToSet(call.tasks)
        waits(id) == UNION {Blocking(t, call.tasks) : t \in {u \in tasks : u.id = id}}
    IN  \A f \in call.findings :
          f.what = "cycle" => \A id \in f.where : waits(id) \cap f.where # {} /\ \E other \in f.where : id \in waits(other)

(* Every line of a task is read into the first field of its key that it    *)
(* belongs to, in order, or its key is told as repeated: no text moves to  *)
(* another field.                                                          *)
LinesStayInField ==
  call.op = "fields" =>
    LET lines == call.lines
        parsed == call.parsed
        owner(n) == LET before == {k \in 1 .. n : lines[k].kind = "field"}
                    IN  IF before = {} THEN 0 ELSE CHOOSE k \in before : \A j \in before : j <= k
        first(k) == ~\E j \in 1 .. k - 1 : lines[j].kind = "field" /\ lines[j].key = lines[k].key
        belongs(n, key) == /\ owner(n) # 0 /\ lines[owner(n)].key = key /\ first(owner(n)) /\ lines[n].kind \in {"field", "text"}
                           /\ \A j \in owner(n) .. n : lines[j].kind \in {"field", "text"}
    IN  /\ \A key \in DOMAIN parsed.fields : ToSet(parsed.fields[key]) = {n \in DOMAIN lines : belongs(n, key)}
        /\ \A k \in DOMAIN lines : lines[k].kind = "field" /\ ~first(k) => lines[k].key \in parsed.repeated
=============================================================================
