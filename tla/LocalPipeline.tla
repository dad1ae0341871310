--------------------------- MODULE LocalPipeline ---------------------------
(* The local pipeline of pipeline/dag and pipeline/run: commands that walk  *)
(* a plan, invalidate, finalize or prune over one runs directory.  The      *)
(* first three hold pipeline_lock while they work; prune takes no lock, and *)
(* a resume reads the run's status before it asks for the lock.             *)
(*                                                                          *)
(* All runs share one frozen configuration and source snapshot, so that the *)
(* reuse key of a stage and shard is the same in each.  A directory stands  *)
(* for an attempt and is named by its run, key and number.                  *)
EXTENDS Naturals, Sequences, FiniteSets, SequencesExt, LedgerStates

CONSTANTS
  Command,       \* processes, each running one command after another
  Run,           \* run ids, whose contexts have been created
  StageOrder,    \* the stages in the plan's topological order
  Producers,     \* the stages each stage depends on
  ShardOrder,    \* source_shard_ids
  Forces,        \* the values of --force
  MaxCommands,   \* bound on commands
  MaxAttempts,   \* bound on the attempt directories of a run and key
  MaxFaults,     \* bound on deaths of a process and interrupts of a walk
  None

\* a comes before b in the sequence.
Before(order, a, b) == \E i, j \in DOMAIN order : i < j /\ order[i] = a /\ order[j] = b

Stage == ToSet(StageOrder)
Shard == ToSet(ShardOrder)
Key == Stage \X Shard
Dir == [run : Run, key : Key, attempt : 1..MaxAttempts]

VARIABLES
  lock,        \* the command that holds pipeline_lock
  index,       \* entries of the reuse index
  lineage,     \* its producer-consumer edges
  superseded,  \* its superseded attempts
  disk,        \* what each attempt directory holds
  status,      \* status.json of each run
  active,      \* active-generation.json with the outputs it publishes
  pc, job,     \* per command: where it is, and its local variables
  begun,       \* commands begun
  faults,      \* deaths and interrupts so far
  revoked,     \* history: attempts a finished invalidation marked stale
  disturbed    \* history: a prune died, or worked beside one who held the lock

saved == <<index, lineage, superseded>>
bounds == <<begun, faults>>
history == <<revoked, disturbed>>
vars == <<lock, saved, disk, status, active, pc, job, bounds, history>>

Content == {"none", "reserved", "produced", "partial"}
Outcome == {"produced", "partial", "failed"}
Entry == [dir : Dir, stale : BOOLEAN]
Execution == [dir : Dir \cup {None}, outcome : Outcome]
RunStatus == [halted : BOOLEAN, rows : [Key -> Execution \cup {None}]]
Generation == [run : Run, outputs : SUBSET Dir]
Phase == {"idle", "lock", "walk", "worker", "status", "index", "invalidate", "delete"}
Locked == {"walk", "worker", "status", "index", "invalidate"}

\* The plan is in topological order, and None is nothing a file holds.
ASSUME PipelineAssumption ==
  /\ StageOrder \in Seq(Stage) /\ ShardOrder \in Seq(Shard)
  /\ IsInjective(StageOrder) /\ IsInjective(ShardOrder)
  /\ Producers \in [Stage -> SUBSET Stage]
  /\ \A s \in Stage : \A p \in Producers[s] : Before(StageOrder, p, s)
  /\ Forces \subseteq BOOLEAN
  /\ MaxCommands \in Nat /\ MaxAttempts \in Nat /\ MaxFaults \in Nat
  /\ None \notin Command \cup Run \cup Dir
  /\ None \notin Entry \cup Execution \cup RunStatus \cup Generation

NoRows == [k \in Key |-> None]
NoJob ==
  [run |-> None, resume |-> FALSE, force |-> FALSE, todo |-> {}, assumed |-> {},
   entries |-> NoRows, edges |-> {}, replaced |-> {}, rows |-> NoRows, halted |-> FALSE,
   dir |-> None, targets |-> {}, left |-> {}]

Init ==
  /\ lock = None
  /\ index = NoRows /\ lineage = {} /\ superseded = {}
  /\ disk = [d \in Dir |-> "none"]
  /\ status = [r \in Run |-> None]
  /\ active = None
  /\ pc = [c \in Command |-> "idle"] /\ job = [c \in Command |-> NoJob]
  /\ begun = 0 /\ faults = 0
  /\ revoked = {} /\ disturbed = FALSE

(* ------------------------------ helpers -------------------------------- *)

\* A key's entry is live when it is in the index and not stale.
Live(entries, k) == entries[k] # None /\ ~entries[k].stale

\* Stages and everything they are made from.
WithAncestors(stages) ==
  StaleClosure(Stage, stages, UNION {{<<s, p>> : p \in Producers[s]} : s \in Stage})

\* walk_shards: stage by stage, and each stage shard by shard.
Walk(stages) == stages \X Shard

Precedes(a, b) ==
  Before(StageOrder, a[1], b[1]) \/ (a[1] = b[1] /\ Before(ShardOrder, a[2], b[2]))

IsNext(j, k) == k \in j.todo /\ \A o \in j.todo : ~Precedes(o, k)

\* remaining_plan: a stage counts as done when one of its shards succeeded.
Done(r) ==
  IF status[r] = None THEN {}
  ELSE {s \in Stage : \E sh \in Shard :
          status[r].rows[<<s, sh>>] # None /\ status[r].rows[<<s, sh>>].outcome = "produced"}

\* Mutant: a stale entry is served while its attempt is there.
ServableStale(entries, k) == entries[k] # None /\ disk[entries[k].dir] = "produced"

\* try_reuse: the attempt an entry names may be served again.
Servable(entries, k) == Live(entries, k) /\ disk[entries[k].dir] = "produced"

\* supersede_previous: the attempt that an entry for another one replaces.
Supersede(replaced, previous, dir) ==
  IF previous = None \/ previous.dir = dir THEN replaced ELSE replaced \cup {previous.dir}

\* execution_to_entry: only an accepted attempt is indexed.
Indexed(outcome) == outcome # "failed"

\* _commit_shard: the variables of a walk after the execution of a key.
Commit(j, k, dir, outcome) ==
  LET kept == Indexed(outcome) IN
  [j EXCEPT
     !.todo = @ \ {k}, !.dir = None, !.halted = outcome # "produced",
     !.rows[k] = [dir |-> IF outcome = "failed" THEN None ELSE dir, outcome |-> outcome],
     !.edges = @ \cup {<<<<p, k[2]>>, k>> : p \in Producers[k[1]]},
     !.replaced = IF kept THEN Supersede(@, j.entries[k], dir) ELSE @,
     !.entries[k] = IF kept
                    THEN [dir |-> IF outcome = "failed" THEN None ELSE dir, stale |-> FALSE]
                    ELSE @]

Goto(c, phase) == pc' = [pc EXCEPT ![c] = phase]
Set(c, j) == job' = [job EXCEPT ![c] = j]
Return(c) == Goto(c, "idle") /\ Set(c, NoJob)

\* Orchestrator.__init__ loads the reuse index.
Load(j) == [j EXCEPT !.entries = index, !.edges = lineage, !.replaced = superseded]

\* A command loads it again once it has the lock.
Reload(j) == Load(j)

MayBegin(c) ==
  /\ pc[c] = "idle" /\ begun < MaxCommands
  /\ begun' = begun + 1
  /\ UNCHANGED faults

Pruning == \E o \in Command : pc[o] = "delete"
DisturbedIf(condition) == disturbed' = (disturbed \/ condition)

(* ------------------------ run, resume and stage ------------------------ *)

\* run_dag: resume what the run's status leaves, or execute a single stage.
\* A run without a status has its whole plan left (pipeline run, rebuild).
BeginRun(c) ==
  /\ MayBegin(c)
  /\ \E r \in Run, force \in Forces :
       \/ /\ Set(c, Load([NoJob EXCEPT !.run = r, !.resume = TRUE, !.force = force,
                            !.todo = Walk(Stage \ Done(r)), !.assumed = Done(r)]))
       \/ \E s \in Stage :
            Set(c, Load([NoJob EXCEPT !.run = r, !.force = force, !.todo = Walk({s}),
                            !.assumed = WithAncestors({s}) \ {s}]))
  /\ Goto(c, "lock")
  /\ UNCHANGED <<lock, saved, disk, status, active, history>>

\* resolve_upstream over every shard finds each assumed stage servable.
Resolved(j) ==
  \A s \in WithAncestors(j.assumed), sh \in Shard : Servable(j.entries, <<s, sh>>)

\* execute_plan: take the lock, load again, and go on if the upstream resolves.
Enter(c) ==
  /\ pc[c] = "lock" /\ lock = None
  /\ Resolved(Reload(job[c]))
  /\ lock' = c
  /\ Set(c, Reload(job[c])) /\ Goto(c, "walk")
  /\ DisturbedIf(Pruning)
  /\ UNCHANGED <<saved, disk, status, active, bounds, revoked>>

\* StaleUpstreamError: nothing is saved.
Refuse(c) ==
  /\ pc[c] = "lock" /\ lock = None
  /\ ~Resolved(Reload(job[c]))
  /\ Return(c)
  /\ UNCHANGED <<lock, saved, disk, status, active, bounds, history>>

\* The cancel token or the space guard stops the walk before a shard.
Halt(c) ==
  /\ pc[c] = "walk" /\ job[c].todo # {} /\ faults < MaxFaults
  /\ Set(c, [job[c] EXCEPT !.halted = TRUE]) /\ Goto(c, "status")
  /\ faults' = faults + 1
  /\ UNCHANGED <<lock, saved, disk, status, active, begun, history>>

\* execute_stage serves the attempt in the index.
Hit(c, k) ==
  /\ pc[c] = "walk" /\ IsNext(job[c], k)
  /\ ~job[c].force /\ Servable(job[c].entries, k)
  /\ Set(c, Commit(job[c], k, job[c].entries[k].dir, "produced"))
  /\ UNCHANGED <<lock, saved, disk, status, active, pc, bounds, history>>

\* produce_shard reserves the first attempt number without a directory.  The
\* ledger of the process is new, so a removed number may be used again.
Reserve(c, k) ==
  LET Attempt(n) == [run |-> job[c].run, key |-> k, attempt |-> n] IN
  /\ pc[c] = "walk" /\ IsNext(job[c], k)
  /\ job[c].force \/ ~Servable(job[c].entries, k)
  /\ \E n \in 1..MaxAttempts :
       /\ disk[Attempt(n)] = "none"
       /\ \A m \in 1..(n - 1) : disk[Attempt(m)] # "none"
       /\ disk' = [disk EXCEPT ![Attempt(n)] = "reserved"]
       /\ Set(c, [job[c] EXCEPT !.dir = Attempt(n)])
       /\ revoked' = revoked \ {Attempt(n)}
  /\ Goto(c, "worker")
  /\ UNCHANGED <<lock, saved, status, active, bounds, disturbed>>

\* The worker and its quality boundary end.  It reads the artifacts of its
\* producers, and fails when one is gone.  The walk goes on after a produced one.
Work(c) ==
  LET k == job[c].dir.key
      gone == \E p \in Producers[k[1]] :
                /\ job[c].entries[<<p, k[2]>>] # None
                /\ disk[job[c].entries[<<p, k[2]>>].dir] \notin {"produced", "partial"}
  IN
  /\ pc[c] = "worker"
  /\ \E outcome \in IF gone THEN {"failed"} ELSE Outcome :
       /\ disk' = IF outcome = "failed" THEN disk
                  ELSE [disk EXCEPT ![job[c].dir] = outcome]
       /\ Set(c, Commit(job[c], k, job[c].dir, outcome))
       /\ Goto(c, IF outcome = "produced" THEN "walk" ELSE "status")
  /\ UNCHANGED <<lock, saved, status, active, bounds, history>>

\* merge_status and save_status; a late interrupt halts a finished walk too.
SaveStatus(c) ==
  LET j == job[c]
      Row(k) == IF j.rows[k] # None \/ status[j.run] = None THEN j.rows[k]
                ELSE status[j.run].rows[k]
  IN
  /\ pc[c] = "status" \/ (pc[c] = "walk" /\ j.todo = {})
  /\ \E interrupted \in {FALSE} \cup {faults < MaxFaults} :
       /\ status' = [status EXCEPT ![j.run] =
                       [halted |-> j.halted \/ interrupted, rows |-> [k \in Key |-> Row(k)]]]
       /\ faults' = IF interrupted THEN faults + 1 ELSE faults
  /\ Goto(c, "index")
  /\ UNCHANGED <<lock, saved, disk, active, job, begun, history>>

\* save_reuse_index, and the command ends.
SaveIndex(c) ==
  /\ pc[c] = "index"
  /\ index' = job[c].entries /\ lineage' = job[c].edges /\ superseded' = job[c].replaced
  /\ lock' = None
  /\ Return(c)
  /\ UNCHANGED <<disk, status, active, bounds, history>>

(* ------------------------ invalidate and finalize ---------------------- *)

\* invalidate a stage, or the shards of retracted sources, under the lock.
BeginInvalidate(c) ==
  /\ MayBegin(c)
  /\ lock = None /\ lock' = c
  /\ \E keys \in {{s} \X Shard : s \in Stage} \cup {Stage \X {sh} : sh \in Shard} :
       Set(c, Load([NoJob EXCEPT !.targets = keys]))
  /\ Goto(c, "invalidate")
  /\ DisturbedIf(Pruning)
  /\ UNCHANGED <<saved, disk, status, active, revoked>>

\* Mutant: the roots alone.
MarkedRoots(j) == {k \in j.targets : Live(j.entries, k)}

\* apply_invalidation marks the live roots and their consumers.
Marked(j) == StaleClosure(Key, {k \in j.targets : Live(j.entries, k)}, j.edges)

SaveInvalidation(c) ==
  LET j == job[c]
      hit == {k \in Marked(j) : j.entries[k] # None}
  IN
  /\ pc[c] = "invalidate"
  /\ index' = [k \in Key |-> IF k \in hit THEN [j.entries[k] EXCEPT !.stale = TRUE]
                             ELSE j.entries[k]]
  /\ lineage' = j.edges /\ superseded' = j.replaced
  /\ revoked' = revoked \cup {j.entries[k].dir : k \in hit}
  /\ lock' = None
  /\ Return(c)
  /\ UNCHANGED <<disk, status, active, bounds, disturbed>>

\* verified_status: the produced rows name the attempts the index serves.
Verified(r) ==
  \A k \in Key :
    LET row == status[r].rows[k] IN
    row # None /\ row.outcome = "produced" => Servable(index, k) /\ index[k].dir = row.dir

\* by_stage of assemble_knowledge_base: a stage's output is its last shard's.
LastRow(r, s) ==
  LET known == {i \in 1..Len(ShardOrder) : status[r].rows[<<s, ShardOrder[i]>>] # None}
  IN  IF known = {} THEN None
      ELSE status[r].rows[<<s, ShardOrder[CHOOSE i \in known : \A o \in known : o <= i]>>]

\* finalize_run: activates a run whose status is verified, complete and not
\* halted.  It holds the lock throughout; its own crashes are not modelled here.
Finalize(c) ==
  /\ MayBegin(c)
  /\ lock = None
  /\ \E r \in Run :
       /\ status[r] # None /\ ~status[r].halted /\ Verified(r)
       /\ \A s \in Stage : LastRow(r, s) # None /\ LastRow(r, s).outcome = "produced"
       /\ active' = [run |-> r, outputs |-> {LastRow(r, s).dir : s \in Stage}]
  /\ DisturbedIf(Pruning)
  /\ UNCHANGED <<lock, saved, disk, status, pc, job, revoked>>

(* -------------------------------- prune -------------------------------- *)

\* Mutant: while something is live, nothing is protected.
ProtectedRecovery(d) == \A k \in Key : ~Live(index, k)

\* protections: attempts below the active run's directory, and all of them
\* while nothing is live.  Pins, reviews and backups are left out.
Protected(d) ==
  \/ active # None /\ d.run = active.run
  \/ \A k \in Key : ~Live(index, k)

Eligible ==
  {d \in superseded \cup {index[k].dir : k \in {k \in Key : index[k] # None /\ index[k].stale}} :
     ~Protected(d)}

\* apply_prune_plan rechecks, whoever holds the lock; a plan with this
\* fingerprint may have been written at any time before.
BeginPrune(c) ==
  /\ MayBegin(c)
  /\ Eligible # {}
  /\ Set(c, [NoJob EXCEPT !.entries = index, !.replaced = superseded,
               !.targets = Eligible, !.left = Eligible])
  /\ Goto(c, "delete")
  /\ DisturbedIf(lock # None \/ Pruning)
  /\ UNCHANGED <<lock, saved, disk, status, active, revoked>>

\* _remove_tree
Delete(c) ==
  /\ pc[c] = "delete"
  /\ \E d \in job[c].left :
       /\ disk' = [disk EXCEPT ![d] = "none"]
       /\ Set(c, [job[c] EXCEPT !.left = @ \ {d}])
  /\ UNCHANGED <<lock, saved, status, active, pc, bounds, history>>

\* _save_after_delete: writes the index it read, without the listed attempts.
SaveAfterDelete(c) ==
  LET j == job[c]
      kept == [k \in Key |-> IF j.entries[k] # None /\ j.entries[k].dir \in j.targets
                             THEN None ELSE j.entries[k]]
      Keys(entries, replaced) == {k \in Key : entries[k] # None} \cup {d.key : d \in replaced}
      gone == Keys(j.entries, j.replaced) \ Keys(kept, j.replaced \ j.targets)
  IN
  /\ pc[c] = "delete" /\ j.left = {}
  /\ index' = kept /\ superseded' = j.replaced \ j.targets
  /\ lineage' = {e \in lineage : e[1] \notin gone \/ e[2] \notin gone}
  /\ Return(c)
  /\ UNCHANGED <<lock, disk, status, active, bounds, history>>

\* A process dies, or an exception leaves execute_plan: the kernel releases
\* the lock, and what was not saved is lost.  A tree it was removing may be
\* left with some of its files.
Crash(c) ==
  /\ pc[c] # "idle" /\ faults < MaxFaults
  /\ faults' = faults + 1
  /\ lock' = IF lock = c THEN None ELSE lock
  /\ \/ UNCHANGED disk
     \/ /\ pc[c] = "delete"
        /\ \E d \in job[c].left : disk' = [disk EXCEPT ![d] = "reserved"]
  /\ DisturbedIf(pc[c] = "delete")
  /\ Return(c)
  /\ UNCHANGED <<saved, status, active, begun, revoked>>

Next ==
  \E c \in Command :
    \/ BeginRun(c) \/ Enter(c) \/ Refuse(c)
    \/ Halt(c) \/ Work(c) \/ SaveStatus(c) \/ SaveIndex(c)
    \/ \E k \in Key : Hit(c, k) \/ Reserve(c, k)
    \/ BeginInvalidate(c) \/ SaveInvalidation(c) \/ Finalize(c)
    \/ BeginPrune(c) \/ Delete(c) \/ SaveAfterDelete(c)
    \/ Crash(c)

Spec == Init /\ [][Next]_vars

(* ------------------------------ properties ----------------------------- *)

\* Files and local variables keep their kinds, and the lock is held by
\* exactly the command that works under it.
TypeOK ==
  /\ index \in [Key -> Entry \cup {None}]
  /\ lineage \subseteq Key \X Key
  /\ superseded \subseteq Dir
  /\ disk \in [Dir -> Content]
  /\ status \in [Run -> RunStatus \cup {None}]
  /\ active \in Generation \cup {None}
  /\ pc \in [Command -> Phase]
  /\ \A c \in Command : pc[c] \in Locked <=> lock = c
  /\ lock = None => \A c \in Command : pc[c] \notin Locked
  /\ revoked \subseteq Dir /\ disturbed \in BOOLEAN

\* A live entry was made from keys that are live themselves: invalidation
\* reaches every consumer, whatever was cached, forced or halted before
\* (apply_invalidation, _commit_shard, save_reuse_index).
LiveFollowsProducer ==
  \A k \in Key, p \in Stage :
    Live(index, k) /\ p \in Producers[k[1]] => Live(index, <<p, k[2]>>)

\* docs/design/spec.md:1507: a prune never deletes current outputs.  The
\* attempt of a live entry is on disk (apply_prune_plan).  Nor does that hold
\* after a prune that died: numbers of attempts it removed are used again.
PruneSparesLive ==
  \A k \in Key : Live(index, k) => disk[index[k].dir] \in {"produced", "partial"}

\* An attempt that a finished invalidation marked stale is not served again
\* (execute_plan reloads the index under the lock).
ServesValid == \A c \in Command, k \in Key : Hit(c, k) => job[c].entries[k].dir \notin revoked

\* docs/design/spec.md:1478: a shard is a cache hit only when it is not stale.
\* It does not hold: a prune saves the index it read over an invalidation.
InvalidatedNotServed == [][ServesValid]_vars

\* An attempt the index knew, live or superseded, is known until it is gone
\* from the disk (supersede_previous keeps the prior directory).
Known == superseded \cup {index[k].dir : k \in {k \in Key : index[k] # None}}
KnownUntilRemoved == \A d \in Known : d \in Known' \/ disk'[d] = "none"

\* docs/impl/current/pipeline-control.md:258: a resume continues after a halt.
\* It is refused only if something was invalidated or pruned meanwhile.
ResumeContinues ==
  [][\A c \in Command : Refuse(c) /\ job[c].resume =>
       \E k \in Key : index[k] # None /\ (index[k].stale \/ disk[index[k].dir] = "none")]_vars

\* docs/impl/current/pipeline-control.md:313: applying a prune plan refuses
\* active generations.  Whatever the active generation publishes is on disk.
PruneSparesActive ==
  active # None => \A d \in active.outputs : disk[d] = "produced"

\* What protections keeps of that: the attempts of the active run itself,
\* though the index may have turned them stale or superseded.
PruneSparesOwn ==
  active # None =>
    \A d \in active.outputs : d.run = active.run => disk[d] = "produced"

\* However commands were interleaved, halted or killed: the index is well
\* formed and, unless a prune was disturbed, its live entries rest on live ones.
IndexSound ==
  /\ TypeOK
  /\ disturbed \/ LiveFollowsProducer

\* Unless a prune died or worked beside one who held the lock, no prune has
\* taken a live attempt, nor one of its own run that the active generation
\* publishes.  PruneSparesLive and PruneSparesActive do not hold without these
\* exceptions.
PruneSpares == disturbed \/ (PruneSparesLive /\ PruneSparesOwn)

\* With the same exception no command brings an invalidated attempt back or
\* loses the record of one that is still there, whatever it had loaded before
\* others saved or pruned.
NothingForgotten == [][disturbed' \/ (ServesValid /\ KnownUntilRemoved)]_vars
=============================================================================
